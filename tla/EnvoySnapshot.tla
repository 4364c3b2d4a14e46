---------------------------- MODULE EnvoySnapshot ----------------------------
(***************************************************************************)
(* MapSnapshot of internal/envoy/resource.go: the LoadBalancers and Routes  *)
(* of a snapshot become Envoy listeners and clusters.  An endpoint has its  *)
(* addresses inline or refers to the Addresses object of its namespace,     *)
(* which the CCM changes while the snapshot is being mapped.  The listener  *)
(* ports are the subject of LoadBalancerManager and RouteManager, and       *)
(* which objects belong to which snapshot that of EnvoyControlPlane; this   *)
(* is one snapshot of the global topology.                                  *)
(*                                                                          *)
(* An item is one port of a LoadBalancer or of a Service of a Route: its    *)
(* namespace, the kind of its object, its protocol, and whether it refers   *)
(* to Addresses.  The addresses of a namespace are <<namespace, version>>.  *)
(***************************************************************************)
EXTENDS Naturals

CONSTANTS Items,              \* the ports that can be load balanced
          NoAddressesYet,     \* an Addresses object that does not exist
          MaxAddressChanges,  \* bound: writes of Addresses objects
          MaxItemChanges      \* bound: items that appear or go

Namespaces == {i.ns : i \in Items}

ASSUME SnapshotBounds == {MaxAddressChanges, MaxItemChanges} \subseteq Nat

VARIABLES items,         \* the reconciler's cache: the items that exist
          addresses,     \* the reconciler's cache: namespace -> version of its Addresses
          snapQueued,    \* the reconciler has a request
          phase,         \* worker: "idle" or "mapping"
          left,          \* worker: items of the list that are not mapped yet
          addressesMap,  \* worker: Addresses loaded so far, by namespace
          mapped,        \* worker: item -> listener and cluster
          published,     \* EnvoyCache: item -> listener and cluster
          addressChanges, itemChanges

snapWorker == <<phase, left, addressesMap, mapped>>
snapVars == <<items, addresses, snapQueued, snapWorker, published, addressChanges, itemChanges>>

NoResources == [i \in {} |-> {}]
Set(f, x, v) == [y \in DOMAIN f \cup {x} |-> IF y = x THEN v ELSE f[y]]

-----------------------------------------------------------------------------
(* Tenants.  A change that reaches the cache is an event of the reconciler. *)

ChangeItem(i) ==
  /\ itemChanges < MaxItemChanges
  /\ items' = IF i \in items THEN items \ {i} ELSE items \cup {i}
  /\ itemChanges' = itemChanges + 1 /\ snapQueued' = TRUE
  /\ UNCHANGED <<addresses, snapWorker, published, addressChanges>>

WriteAddresses(n) ==
  /\ addressChanges < MaxAddressChanges
  /\ addresses' = [addresses EXCEPT ![n] = addressChanges + 1]
  /\ addressChanges' = addressChanges + 1 /\ snapQueued' = TRUE
  /\ UNCHANGED <<items, snapWorker, published, itemChanges>>

-----------------------------------------------------------------------------
(* The worker.                                                             *)

IsHTTPRoute(i) == i.kind \in {"HTTPRoute", "GRPCRoute", "Ingress"}

makeListener(i) == IF i.protocol = "UDP" THEN "udp"
                   ELSE IF IsHTTPRoute(i) THEN "http" ELSE "tcp"

\* STRICT_DNS cluster; no health checks for UDP, HTTP/2 for gRPC.
makeCluster(i, a) ==
  [endpoints |-> a, healthChecked |-> i.protocol # "UDP",
   http |-> IF i.kind = "GRPCRoute" THEN 2 ELSE IF IsHTTPRoute(i) THEN 1 ELSE 0]

Resource(i, a) == [listener |-> makeListener(i), cluster |-> makeCluster(i, a)]

\* Mutated form: what was loaded stays for the next snapshot.
StillLoaded == addressesMap

\* Every call of MapSnapshot starts with an empty map.
NoneLoaded == NoResources

BeginSnapshot ==
  /\ phase = "idle" /\ snapQueued
  /\ snapQueued' = FALSE /\ phase' = "mapping"
  /\ left' = items /\ addressesMap' = NoneLoaded /\ mapped' = NoResources
  /\ UNCHANGED <<items, addresses, published, addressChanges, itemChanges>>

\* endpointAddressReferencePattern: namespace and name.
AddressKey(n) == n

Loaded(n) == AddressKey(n) \in DOMAIN addressesMap

\* Mutated form: Addresses are read again for every endpoint.
ReadAgain(n) == <<n, addresses[n]>>

\* The addresses of an endpoint that refers to them: those loaded for an earlier
\* item, or those of the cache.
Resolve(n) == IF Loaded(n) THEN addressesMap[AddressKey(n)] ELSE <<n, addresses[n]>>

\* client.Get fails.
AddressesMissing(i) == i.ref /\ ~Loaded(i.ns) /\ addresses[i.ns] = NoAddressesYet

\* One item, LoadBalancers first.  Missing Addresses are an error: the snapshot that
\* is published stays and the request is retried.
MapItem(i) ==
  LET a == IF i.ref THEN Resolve(i.ns) ELSE <<i.ns, "inline">> IN
  /\ phase = "mapping" /\ i \in left
  /\ i.kind # "LoadBalancer" => \A j \in left : j.kind # "LoadBalancer"
  /\ IF AddressesMissing(i)
       THEN /\ phase' = "idle" /\ snapQueued' = TRUE
            /\ left' = {} /\ addressesMap' = NoneLoaded /\ mapped' = NoResources
       ELSE /\ mapped' = Set(mapped, i, Resource(i, a))
            /\ addressesMap' = IF i.ref THEN Set(addressesMap, AddressKey(i.ns), a) ELSE addressesMap
            /\ left' = left \ {i}
            /\ UNCHANGED <<phase, snapQueued>>
  /\ UNCHANGED <<items, addresses, published, addressChanges, itemChanges>>

\* updateCache: a snapshot with another version replaces the published one; without
\* any item the published one is cleared.
updateCache ==
  /\ phase = "mapping" /\ left = {}
  /\ published' = mapped
  /\ phase' = "idle" /\ addressesMap' = NoneLoaded /\ mapped' = NoResources
  /\ UNCHANGED <<items, addresses, snapQueued, left, addressChanges, itemChanges>>

SnapInit ==
  /\ items = {} /\ addresses = [n \in Namespaces |-> NoAddressesYet] /\ snapQueued = FALSE
  /\ phase = "idle" /\ left = {} /\ addressesMap = NoResources /\ mapped = NoResources
  /\ published = NoResources /\ addressChanges = 0 /\ itemChanges = 0

SnapWorker == BeginSnapshot \/ updateCache \/ \E i \in Items : MapItem(i)

SnapNext ==
  \/ \E i \in Items : ChangeItem(i)
  \/ \E n \in Namespaces : WriteAddresses(n)
  \/ SnapWorker

SnapSpec == SnapInit /\ [][SnapNext]_snapVars

\* The reconciler runs.
SnapFairness == WF_snapVars(SnapWorker)

-----------------------------------------------------------------------------
\* All endpoints of a namespace that refer to Addresses have the same version of
\* them, although Addresses can change between two of the worker's reads; and no
\* endpoint gets the addresses of another tenant.
OneVersion ==
  \A i \in DOMAIN published :
    /\ published[i].cluster.endpoints[1] = i.ns
    /\ \A j \in DOMAIN published :
         i.ref /\ j.ref /\ i.ns = j.ns
           => published[i].cluster.endpoints = published[j].cluster.endpoints

\* Once every namespace in use has Addresses and nothing changes any more, the
\* snapshot has every item, with current addresses.
SnapshotFollows ==
  <>[]((\A i \in items : i.ref => addresses[i.ns] # NoAddressesYet)
         => /\ DOMAIN published = items
            /\ \A i \in items : i.ref => published[i].cluster.endpoints[2] = addresses[i.ns])
==============================================================================
