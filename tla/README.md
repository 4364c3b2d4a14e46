# KubeLB: specification and proofs

TLA+ models of KubeLB's controllers, TLC runs that check them on small
instances, and TLAPS proofs for every instance. All paths are relative to
`src/`.

## The system

KubeLB gives tenant clusters load balancers that run in a central management
cluster.

| part | code | what it does |
|---|---|---|
| CCM | `internal/controllers/ccm`, `cmd/ccm` | Runs in each tenant cluster. Turns Services, Ingresses, Gateways, HTTPRoutes, GRPCRoutes, Nodes and Secrets into `LoadBalancer`, `Route`, `Addresses` and `SyncSecret` objects in the tenant's namespace of the management cluster, and copies their status back. |
| LoadBalancer reconciler | `internal/controllers/kubelb/loadbalancer_controller.go` | Allocates Envoy ports, writes one Service per LoadBalancer whose target ports are those Envoy ports, and records them in the status. |
| Route reconciler | `internal/controllers/kubelb/route_controller.go` | The same for L7 routes, plus the Ingress or Gateway API object in front of Envoy. |
| Envoy control plane reconciler | `internal/controllers/kubelb/envoy_cp_controller.go` | Runs the Envoy Deployment or DaemonSet and publishes an xDS snapshot per tenant (shared topology) or for all tenants (global topology). |
| Port allocator | `internal/port-lookup` | In-memory tables shared by the three reconcilers above; rebuilt from object statuses at start-up (`LoadState`). |
| Tenant, SyncSecret, BridgeService reconcilers | `internal/controllers/kubelb` | Tenant namespaces and credentials; secret propagation; EndpointSlices of the global topology. |

The hard part is the meeting of these pieces: every controller works on a cache
that lags behind, in two managers per process and two clusters, and holds its
promises with finalizers, owner references and retries. The LoadBalancer and the Envoy
reconciler run in two controller-runtime managers with two caches
(`cmd/kubelb/main.go:111-135`), both stale by different amounts, and agree on
ports only through the allocator. A Service is right only if Envoy listens on
its target port.

## Modules

| module | models | state and actions |
|---|---|---|
| `PortLease` | what the allocator promises | `held[e]`; endpoints take free ports and return ports |
| `PortAllocator` | `port-lookup/allocator.go` | `portLookup`, `portLookupReverse`, the mutex `mu`; `AllocatePorts`, `AllocatePortsSpins` (the endless draw), `DeallocatePorts`, `DeallocateEndpoints` |
| `LoadBalancerManager` | LoadBalancer reconciler, Envoy reconciler's allocation and mapping, `mapper.go` (LoadBalancers), `LoadState`, process restart | extends `PortAllocator`; API objects `lb`, `svc`, `disabled`; caches `cLB`, `cSvc`, `eLB`; queues; one program counter per worker |
| `ServicePorts` | a LoadBalancer with several ports: `MapLoadBalancer`, `CreateServicePorts`, the status, `LoadState` | `spec`, `service`, `record`, `table`; allocate, write the Service, record, restart |
| `HostnameObjects` | `configureHostname`, `CreateIngressForHostname`, `CreateHTTPRouteForHostname`, `cleanupHostnameResources` | the LoadBalancer, the two objects, settings of Tenant and Config, one worker |
| `PropagatedAnnotations` | `GetAnnotations`, `PropagateAnnotations`, `applyDefaultAnnotations`, `MergeAnnotations` and their use on Service and Ingress | annotations of the three objects, and which Go map is shared |
| `EnvoyControlPlane` | `envoy_cp_controller.go`, without the ports | API objects `wanted`, `addrs`, `config`, `proxy`, their caches, the queue of namespaces, the worker, `snapshot`; `topology` is a variable that never changes |
| `EnvoySnapshot` | `MapSnapshot` of `envoy/resource.go` | the items of a snapshot, `addresses`, the local `addressesMap`, what is published |
| `RouteManager` | `route_controller.go`, the Route half of `mapper.go` and `LoadState`, the Envoy reconciler's allocation for Routes | extends `PortAllocator`; `route`, `svc` (generated Services and bridges), `l7` (generated resource), caches, queue, worker |
| `BridgeService` | `bridgeservice_controller.go` | original, bridge and slice, their caches, the worker |
| `RouteReferences` | `GetServicesFrom*`, `NormalizeAndReplicateServices`, the rewriting in `CreateOrUpdateIngress`, `...HTTPRoute`, `...GRPCRoute`, `GenerateName` | one object on its way: listed, rewritten (or a panic) |
| `TenantLifecycle` | `tenant_controller.go` and what it waits for | Tenant, Config, namespace, the objects in it, TenantState, at most one child of each kind, cache, worker |
| `SyncSecretChain` | `secret_conversion_controller.go` and both `sync_secret_controller.go` | the four objects of the chain, caches, three workers in two processes |
| `TenantCCM` | `service_controller.go`, `ingress_controller.go`, `gateway_controller.go`, `gateway_httproute_controller.go`, `gateway_grpcroute_controller.go`, `shared.go` of the CCM | a source of any kind, its NodePort replica, its target in the other cluster, caches, worker |
| `NodeAddresses` | `node_controller.go` | nodes, the Addresses object, caches, worker |
| `MC*` | small instances | |
| `RouteManager_proofs`, `RouteRecords_proofs` | theorems about `PortAllocator`, `PortLease` and `RouteManager`; about the status of Routes | |
| `LoadBalancerManager_proofs`, `LoadBalancerRecords_proofs` | theorems about `LoadBalancerManager`: ownership and types; recorded ports and listeners | |
| `EnvoyControlPlane_proofs` | theorems about `EnvoyControlPlane` and `PropagatedAnnotations` | |
| `TenantLifecycle_proofs` | theorems about `TenantLifecycle` and `ServicePorts` | |
| `SyncSecretChain_proofs` | theorems about `SyncSecretChain`, `EnvoySnapshot` and `HostnameObjects` | |
| `TenantCCM_proofs` | theorems about `TenantCCM`, `RouteReferences` and `NodeAddresses` | |

An MC module may extend several of these. Their variables are disjoint, a
variable `part` chosen in the initial state says which one runs, and the others
stay in one initial state: one TLC run explores them side by side.

How the code becomes actions:

- A reconciliation is cut into steps where another actor can intervene in a way
  that matters: at calls of the API server, at each locked call of the
  allocator, and at each unlocked `Lookup` of `MapSnapshot`. In `cleanup` of a
  LoadBalancer the deallocation and the deletion of the Service are one step:
  nothing reads both, so the order of other actors' steps between them does not
  matter.
- A read returns what the cache holds. `Sync*` actions bring a cache up to date
  for one object and enqueue what the event handlers and predicates of
  `SetupWithManager` enqueue. Intermediate versions may be skipped, as an
  informer may skip them. `Resync*` is the periodic resync of the informers
  (every 10 hours by default), which repeats an update event for every object.
- An `Update` of an object that has changed since it was read fails and the key
  is queued again; a status `Patch` carries no version and does not conflict.
- A restart loses memory at any point, runs `LoadState` where there is a port
  table, and refills the caches.
- Kubernetes itself (the garbage collector, the namespace controller, the token
  of a service account) is modelled by what the code relies on and marked
  external in `PROJECT.json`.
- An entry the allocator does not know falls back to the endpoint's own port, as
  `CreateServicePorts` and `MapSnapshot` do: target ports are `Ports \cup
  PortKeys`. The model keeps the two sets apart. A NodePort (30000-32767) lies in
  the allocator's range (10000-65534), so a fallback could by chance also meet an
  allocated port; the model does not show that coincidence.
- `podTemplateSpecNeedsUpdate` compares whole containers. An object read from
  the API server has fields the API server defaulted and
  `getEnvoyProxyPodSpec` does not set, so the comparison is never equal and each
  reconciliation writes. `Defaulted` models it. This is why a stale cached
  Deployment does no harm: the write fails and is retried. It is not what the
  comment at `envoy_cp_controller.go:580` intends ("Compare only the fields we
  actually configure"); `ConfiguredDiffers` is that reading, and with it
  `ServedByProxy` fails.
- A panic in a reconciler is recovered by controller-runtime and becomes an
  error: the request is retried (`buildTenantState` without a Config, unless the Tenant
  disables load balancers itself and the Config is not looked at, the mirror
  filter of an HTTPRoute backend, more ports in the cached Service than in the
  spec).

Abstractions:

- A LoadBalancer of `LoadBalancerManager` has one endpoint with one port;
  `ServicePorts` has the ports, `HostnameObjects` the hostname and
  `PropagatedAnnotations` the annotations of the same reconciler. The three hold
  what they do not show fixed.
- A snapshot in `EnvoyControlPlane` is the set of tenants it serves; only KubeLB
  deletes proxies.
- Contents of an object that nothing branches on are a version number.
- A name in `RouteReferences` is a sequence of words joined by `-`, so that two
  names can read the same.
- A Service of a Route has one port and keeps its type. The CCM sends a ClusterIP
  Service as a NodePort replica with labels that name the original, and any other
  Service as it is, without those labels (`service.go:57`). `AsIs` is the set of
  the latter. `updateServiceStatus` takes the key of a status entry from the labels
  of the generated Service, or from its own name if there are none: `StatusKey`.
  So for a Service used as it is the key is not the one that
  `cleanupOrphanedServices` and `LoadState` derive from the spec.
- The Config of `TenantLifecycle` is missing, or exists and disables load balancers
  or not (`Configs`). The CCM's access (`CCMAccess`) needs only the token and the
  RBAC objects, so a namespace that is being deleted counts too; creating an object
  there needs an active namespace.
- Removing the label `kubelb.k8c.io/managed-by` from a Secret is a change of the
  Secret like any other, and counts as an update.
- `TenantCCM` has one source. What the controllers of other sources do to a
  shared replica is an action.

## Runs

Passing:

| run | parts and instance | shows |
|---|---|---|
| `PortAllocator` | allocator: 2 endpoints, 2 keys, 3 ports; service ports: up to 2 ports, 1 change, 1 restart; snapshot: 5 items of 2 tenants, 3 writes of Addresses, 3 changes of items | `LeaseSpec`: the allocator implements `PortLease`; `SharedOnlyIfDrawnTogether`: one endpoint has a port twice only if drawn in one call; `PortsConverge`: Service ports follow the spec; `RecordedPortsStable`: recorded ports survive a restart; `OneVersion`: a snapshot has one version of Addresses per tenant, its own; `SnapshotFollows` |
| `LBOwnership` | 1 LB, 2 keys, 1 port, 1 update, 1 deletion, 1 disable, 1 restart | `NoOrphanService`: a Service always has an owner that will remove it; `SpinsOnlyWhenExhausted` with restored tables |
| `LBTwoRestart` | 2 LBs, 2 ports, 1 restart | `DistinctListeners`; `RecordedPortStable`: a recorded port survives restarts |
| `LBConverges` | 1 LB, 2 ports, 1 deletion, 1 disable, 1 restart | `Converges`, `StatusConverges`: Service, snapshot and status agree in the end; `DeletionCompletes` |
| `Envoy` | both topologies, 2 tenants, 3 changes of demand, 1 change of image or kind, 1 restart | `ServedByProxy`, `ProxyConverges`, `SnapshotConverges` |
| `Tenant` | 2 Tenants under one name with a Route or a SyncSecret, 1 change of the Tenant, loss of the Config or restart; 1 Tenant with a Route and another child, 1 change of the Config (missing, enabled, disabled) | `AccessRevoked`; `TenantProvisioned`, `TenantRemoved`, `OnlyRoutesLinger` |
| `SyncSecret` | secrets: 1 update, with the removal of the label before or after it, 1 restart; annotations: 3 changes; hostname: 2 changes of settings, 1 restart or other hostname | `NoOrphanCopy`: a copy in use has a source that will remove it; `CopyConverges`, `SecretRemoved`; `LeftoverOnlyIfStripped`: what can be left behind and why; `TenantValuesWin`: tenants' annotations win; `HostnameStable`, `HostnameServed`, `HostnameRemoved` |
| `Route` | one Route, global topology, with a replicated Service or one used as it is, 1 spec change, disable or restart; two Routes that share a Service, shared topology; a bridge with 3 events; 1 object with up to 3 references | `RecordedServiceStable`: a recorded Service stays recorded with its port (one used as it is until a restart); `Converges`: Services, status and resource follow the spec (a Service used as it is: it is back again and again); `DeletionCompletes`; `LeftNothing`: what can be left behind; `SliceConverges`; `ReferencesResolve`: references lead to the right copy |
| `CCM` | sources: each of 5 kinds, 2 events; nodes: 2 nodes, 3 events | `NoOrphanTarget`: a target has a source that will remove it; `TargetConverges`, `StatusConverges`, `SourceRemoved`; `AddressesConverge`, and `NoIdleWrite`: Addresses are written only for a change |

A property with an exception says in its comment what the exception is. The
exceptions are behaviour of the code: a Secret whose label is removed cannot be
deleted (`SecretRemoved`), a Tenant waits for its Routes while the Config is
missing (`TenantRemoved`), a Route created unseen outlives its source
(`NoOrphanTarget`), and so on. Each was found by TLC as a counterexample of the
property without it.

Expected violations, each a place where the code departs from what its tests or
comments say (`findings` in `PROJECT.json` quotes them):

| run | what happens |
|---|---|
| `LBUpdateDiverges` | Envoy's reconciler lists spec `a`; the spec becomes `b`; the LoadBalancer reconciler allocates for `b`; the Envoy reconciler, still with `a`, drops that entry; `reconcileService` falls back to the endpoint's own port; the next Envoy reconciliation draws a port. Service and listener then differ, and no event follows. (`StatusConverges` fails by the same race: updates of a Service's ports are filtered out, `loadbalancer_controller.go:670`.) This model has no periodic resync. In the running system the resync, every ten hours, reconciles the LoadBalancer again and ends the difference; nothing does before. |
| `RouteShared` | Two Routes refer to one Service; the first is deleted and its cleanup deletes the generated Service of both. `Converges` of the run `Route` shows that it comes back. |
| `RouteAsIs` | A Route refers to a Service of type NodePort or LoadBalancer, used as it is. Its generated Service is recorded under its own name; the next reconciliation finds no such name in the spec, takes the Service for orphaned, deletes it and generates it again. Until then, and for longer if the cache still shows the old one, the Service is missing. |

### Known limits of the code

Seen in these models, and the reason why some properties are not stronger:

- One `AllocatePorts` call for two new keys can draw one port twice, because the
  reverse table is recomputed after the loop (`allocator.go:82`).
  `SharedOnlyIfDrawnTogether` says that this is the only way.
- A list taken before the deletion of a LoadBalancer can be allocated for after
  its cleanup; the ports stay taken until a restart.
- `disable` switched on and off faster than the cache follows lets a Service be
  created for a LoadBalancer without finalizer. `NoOrphanService` and
  `ServicesAreOwned` are about one switch.
- A crash between Service and status, a port drawn again, a status taken from a
  stale cached Service and a second restart give one port to two LoadBalancers:
  `LoadState` does not check. With two restarts `DistinctListeners` fails;
  `LBTwoRestart` and the theorem `ListenersAreDistinct` are about one.
- After a switch of `useDaemonset` the proxy of the old kind is not removed
  (`envoy_cp_controller.go:262`).
- In the global topology the objects for a hostname are left to the garbage
  collector, so they stay while load balancing is disabled.
- The status pairs Service ports, sorted by name, with spec ports by index
  (`loadbalancer_controller.go:425`): `RecordedPortsStable` is about specs in the
  order of their names.
- Ports that swap name and number ask for one node port twice, and the update is
  refused (`loadbalancer.go:324`): the exception `Clash`.
- A mirror filter of an HTTPRoute backend is written to a filter of the rule
  (`httproute.go:85`); `ReferencesResolve` leaves such objects out.
- A backend of an Ingress can be rewritten twice (`ingress.go:47`): `web` of
  namespace `ns` becomes `ns-web`, and is then taken for the tenant's Service
  `ns-web`. `ReferencesResolve` is about Ingresses where no generated name is that
  of a listed Service (`NoChain`).
- A Service of a Route that is used as it is is deleted and generated again by each
  reconciliation (`RouteAsIs`), and its port is not restored at a restart: the
  exceptions of `RecordedServiceStable` and `Converges`.
- A LoadBalancer without endpoints is skipped before its deletion is looked at
  (`loadbalancer_controller.go:129`): if its endpoints were removed after the
  finalizer was set, it keeps the finalizer and cannot be deleted. The models have
  LoadBalancers with endpoints only, as the CCM creates them.
- Without a Config a Tenant gets its TenantState only if it disables load balancers
  itself; otherwise its reconciliation fails until there is one.
- `cleanupOrphanedServices` deallocates a key that was never allocated
  (`route_controller.go:350`).

### Bounds

Bounds are constants named `Max*`. They limit only what the environment does
(updates, deletions, switches, restarts); reconciliations, retries, cache delays
and queue contents are unbounded. Two LoadBalancers and two ports are enough for
any collision (it needs two) and for a port changing hands. One update gives two
specs that can be confused; three versions of Addresses give a mapping that
reads an old and a new one while a third is written. One restart interrupts
every step. Two tenants show every influence of a neighbour, two Tenants under
one name every confusion of the old with the new one. `LBConverges` has no spec
update; with one it is `LBUpdateDiverges`. Symmetry (LoadBalancers, keys, ports)
is used in safety runs only.

In the part of `Route` with two Routes the second one appears when the first is
served and stays; the first may be deleted then. That is the case a shared
Service adds to the part with one Route. `Tenant` has two parts for the same
reason: creation of the name again, and two children whose cleanups meet (the
Route's needs the Config, the other's does not). The largest runs, `Tenant`,
`SyncSecret` and `Route`, have 689,000, 395,000 and 314,000 distinct states.

Deadlock is not checked where the system may stop: an endless draw holds the
allocator's mutex, and a controller whose objects are gone has nothing to do.

### Fairness

Weak fairness of every informer (a watch delivers eventually), of the resync
where a model has one, of Kubernetes' own controllers, and of the rest of a
reconciliation that has started (the worker goroutine runs). In
`LoadBalancerManager` and `EnvoyControlPlane`, whose workers serve several keys
from a set, strong fairness of starting a queued key, per key: the work queue is
FIFO, and a failing key is delayed and put behind the others, so a key that is
queued again and again is served again and again. `RouteManager` has the queue as
a sequence, to which one event adds its Routes in any order, and needs weak
fairness only. Nothing is assumed of tenants,
administrators, the cloud provider or crashes.

## Proofs

Checked by TLAPS for all values of the constants: any number of objects, keys,
ports and events, where the theorem names no bound. A property in the column
"states" that a run checks has the same definition there.

| theorem | states | invariant |
|---|---|---|
| `AllocInvariant` | the allocator keeps `AllocTypeOK` and `ReverseExact` | `AllocInv`, one lemma per operation |
| `SpinMeansExhausted`, `PortsAreStable`, `EqualPortsDrawnTogether` | `SpinsOnlyWhenExhausted`, `KnownKeysKeepTheirPort`, `SharedOnlyIfDrawnTogether` | from `AllocInv`: the draw consults an exact table |
| `AllocatorImplementsLease` | `AllocSpec => LeaseSpec` | each operation is a `Relet` or `Return` of the ports the table gives an endpoint |
| `LeaseExclusive`, `EndpointsNeverShare` | no port is held by two endpoints, in the lease and in the allocator | `TypeOK /\ Exclusive` of the lease, and the refinement |
| `ServicesAreOwned` | `NoOrphanService`, when `MaxToggles \in {0, 1}` | `OwnInv` |
| `ManagerSpinsOnlyWhenExhausted`, `LBTypes` | `SpinsOnlyWhenExhausted` and `TypeOK` of the whole manager | `TableExact`, `Types` |
| `RecordedPortsAreStable` | `RecordedPortStable`, when `MaxUpdates = 0` | `PortInv` |
| `ListenersAreDistinct` | `DistinctListeners`, when nothing is updated or disabled and `MaxRestarts \in {0, 1}` | `ListenInv` |
| `RecordedServicesStay` | `RecordedServiceStable` | `KeptInv` |
| `RouteTypes` | `TypeOK` and `ReverseExact` of `RouteManager` | `TypeInv` |
| `SnapshotIsConsistent` | `OneVersion` | `SnapInv` |
| `RecordedPortsHold` | `RecordedPortsStable` | `RecordInv` |
| `HostnameIsStable` | `HostnameStable` | `HostInv` |
| `TargetsAreOwned`, `CCMTypesHold` | `NoOrphanTarget` and `TypeOK` of `TenantCCM` | `CCMInv` |
| `CopiesAreOwned`, `SecretTypes` | `NoOrphanCopy` and `TypeOK` of `SyncSecretChain` | `CopyInv` |
| `SnapshotHasProxy`, `EnvoyTypes` | `ServedByProxy` and `TypeOK` of `EnvoyControlPlane` | `ProxyInv` |
| `RevokedAccess`, `TenantTypes` | `AccessRevoked` and `TypeOK` of `TenantLifecycle` | `IInv` |
| `ReferencesAlwaysResolve` | `ReferencesResolve` | `RefInv` |
| `NodeWritesChange` | `NoIdleWrite` | `NodeInv` |
| `EnvoyConvergedAtRest` | `ConvergedAtRest`: the goals of `ProxyConverges` and `SnapshotConverges` hold for a snapshot without request and worker, when the cache is current | `RestInv` |
| `SnapshotCurrentAtRest` | `PublishedAtRest`: without request and worker, the published snapshot has the present items and addresses | `SnapRestInv` |
| `TenantValuesWinAtRest` | `TenantValuesAtRest`: the goal of `TenantValuesWin` holds without request and worker | `AnnRestInv` |

Every invariant and action property that a passing run checks has a theorem.

The bounds in the hypotheses are part of the claim. A second switch of `disable`
breaks `NoOrphanService` and a second restart `DistinctListeners` (see the known
limits). A changed spec has another port key, and so another port.

None of the properties is inductive, because a worker acts on a cache and on a
copy it read some steps ago. Each invariant says what the cache and the copy
still guarantee.

Ownership. `OwnInv` adds to `NoOrphanService` what makes the stale cache harmless:
a worker past `LBBegin` works on a LoadBalancer that has its finalizer stored or
is already being deleted with it; a worker about to remove the finalizer has
deleted the Service and did so because of a deletion or of `disable`; a cached
deletion is a real one; and, while not disabled, a finalizer in the cache is one
on the API server. The last conjunct is what the second switch of `disable`
breaks. `CCMInv` says the same of a source and its target in two clusters
(`CacheFollows`, `WorkerFollows`), and `CopyInv` of each link of the Secret chain
(`Linked`), where the middle object is source of one link and copy of the other;
`NotRevived` keeps it from being written again after its deletion. `ProxyInv` adds
to `ServedByProxy` that a worker about to delete a proxy has cleared its snapshot
and a worker about to publish one has its proxy on the API server.

Ports. `PortInv`: while specs do not change every copy of a LoadBalancer has the
present spec (`SpecsFollow`), the worker writes the Service only after the table
has a port (`WorkerKnows`), and a cached Service is at most one write behind, so
that the status, which is taken from it, never records a port the Service has
left (`ServicesFollow`). `ListenInv` adds that live LoadBalancers have distinct
ports in the table and that a mapped listener has the port of the table. At the
restart that needs `FreshRun`: before it, everything written came from the table.
After it that no longer holds, which is why a second restart can give one port to
two. `RecordInv` is about the several ports of one LoadBalancer: the Service on
the API server differs from the cached one only after the present process wrote
it, and then it follows the table. `KeptInv` is about Routes, in both topologies:
a status is empty or has every part of every Service of the spec, all parts of
a Service with a replica with one port (`Whole`); that port is in the table as long
as the Route may be reconciled (`TableKnows`), because only the cleanup of a Route
that the cache shows as deleted releases it and a restart loads it, which for a
Service used as it is it does not (`Remembered`); and a cached status is part of
the stored one (`CacheOlder`), so that the merge patch drops no entry. `TypeInv`
has a part that is not about types: from the allocation to the last write of a
reconciliation every Service of the Route has a port (`PortsReady`), whatever the
Envoy reconciler allocates in between.

Data. `SnapInv`: what is mapped so far agrees with `addressesMap`, and what is
loaded is not loaded again. `HostInv`: the hostname the worker publishes is the
one in the status of its own copy, or none; the conflict check of `Update` does
the rest.

At rest. Three theorems are the part of convergence that needs no fairness: a
reconciler is never done too early. Fairness then only has to empty the queue.
`RestInv`: if no request for a snapshot is queued, either the worker is at it and
what it has read is what the cache still shows, or proxy and snapshot already are
what the cache asks for. An event that changes the cache under the worker queues a
request, and so does a conflict. `SnapRestInv` says it of the items
mapped so far and `AnnRestInv` of the settings and annotations the worker holds,
with lemmas on each function the annotations pass through: the tenant's value is
neither replaced nor dropped by defaults, merge and `omitempty`. For
`NodeAddresses` and `BridgeService` such a theorem would be false: changes of
Addresses, of the original Service and of the slice cause no event for their
reconciler, and only the resync repairs them.

Lists. `ReferencesAlwaysResolve` is about loops over sequences of any length. Each
loop is a recursive function of the index, and its result is shown for every index
by an induction that is itself proved, as a statement about the least element of a
set of numbers (`Least`, `NatSetInduction`): the loop exists as a function
(`LoopExists`), its range is what was meant, and with different names the position
of a Service in the list is its only match. `RefInv` then says that the list has
exactly the Services meant and not missing. `NodeInv`: Addresses, its cached copy
and the computed list are sorted; two sorted lists with one set of addresses are
equal (`SortedUnique`), so a difference is a change of the set.

Access. `IInv` of `TenantLifecycle_proofs` adds to the types four facts.
`FinalizerFirst`: the worker provisions only for a Tenant whose finalizer is
stored, and while the RBAC objects exist the Tenant exists with its finalizer.
`RevokedBefore`: a worker past the deletion of the RBAC objects finds none.
`Stale`: what an old copy of the Tenant, in the cache or with the worker, still
says about the present one, which may be another of the same name: a live copy
with the finalizer means that the Tenant has it, and a copy in deletion is not of
a live Tenant. `WorkerOK`: the range of the worker's counter and of the identities
handed out.

Assumptions on the constants: Services used as they are are Services
(`AsIsAssumption`); the result of a failed `Lookup` is neither a port
nor a port key (`NoPortAssumption`); markers of absence are not objects, ports,
templates or statuses (`MarkersAssumption` of each module, `EnvoyAssumption`); a
Route's keys are those of its Services (`KeysAssumption`) and there are finitely
many Routes, so that they can be queued (`RoutesAssumption`); names of ports are
ordered (`PortNamesAssumption`); kinds are the ones the CCM watches
(`KindsAssumption`); rules of a route hold lists, and backends of an Ingress have
no namespace and no mirrors (`ObjectsAssumption`); there are finitely many nodes,
with addresses that can be ordered (`NodeBoundAssumption`); annotations and
defaults are maps (`AnnotationsAssumption`); bounds are numbers. TLC evaluates them in the runs.

Only model-checked: all liveness (`*Converges`, `*Follows`, `*Removed`,
`DeletionCompletes`, `LeftNothing`, `LeftoverOnlyIfStripped`, `TenantProvisioned`,
`OnlyRoutesLinger`, `HostnameServed`, `TenantValuesWin`). It rests on fairness,
which the prover does not treat.

## Not modelled

- Envoy, go-control-plane and the xDS server, `bootstrap.go`: no state of KubeLB
  changes there. The filters, health checks and timeouts of listeners and
  clusters are constant data.
- The Gateway API CRD controller: one idempotent apply per embedded file.
- In the generated resources: class names, parent references, TLS secret names
  and the limit of Gateways per tenant (`gateway.go:61`), a count over a cached
  list.
- Errors of reading a Tenant or Config in the LoadBalancer reconciler, which end
  the reconciliation (`loadbalancer_controller.go:118`), and conditions inside
  the status of Gateways and routes.
- Two manager replicas: the Envoy manager runs without leader election
  (`cmd/kubelb/main.go:127`), so a standby replica has a port table of its own.
- Metrics, logging, flags and wiring of the two commands, generated deepcopy
  code.
