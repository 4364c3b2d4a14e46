---------------------------- MODULE NodeAddresses ----------------------------
(***************************************************************************)
(* The CCM's node controller: the addresses of the ready nodes of a tenant *)
(* cluster, sorted, are kept in the Addresses object of the load balancing *)
(* cluster, from which the manager takes the endpoints of LoadBalancers.   *)
(* Every node event leads to the same reconciliation of all nodes, so the  *)
(* work queue is reduced to whether it has a request.                      *)
(***************************************************************************)
EXTENDS Naturals, Sequences, FiniteSets, Functions

CONSTANTS Nodes,          \* nodes, each with an address of its own: a number
          NoNode,         \* a node that does not exist
          NoAddresses,    \* the Addresses object does not exist
          MaxNodeEvents   \* bound: changes of nodes, foreign deletions and restarts

VARIABLES node, addresses,     \* both clusters: nodes; the Addresses object
          cNode, cAddresses,   \* caches
          nodeQueued,          \* there is a request
          nodePc, current, found,   \* worker: step, addresses computed, addresses read
          nodeEvents

nodeCaches == <<cNode, cAddresses>>
nodeWorker == <<nodePc, current, found>>
nodeVars == <<node, addresses, nodeCaches, nodeQueued, nodeWorker, nodeEvents>>

NodeObjects == [ready : BOOLEAN, hasIP : BOOLEAN]
AddressLists == UNION {[1..n -> Nodes] : n \in 0..Cardinality(Nodes)}

ASSUME NodeBoundAssumption == MaxNodeEvents \in Nat /\ Nodes \subseteq Nat /\ Cardinality(Nodes) \in Nat
ASSUME NodeMarkersAssumption == NoNode \notin NodeObjects /\ NoAddresses \notin AddressLists

-----------------------------------------------------------------------------
(* The nodes, and others that have access to the Addresses object.         *)

NodeEvent == nodeEvents < MaxNodeEvents /\ nodeEvents' = nodeEvents + 1

\* A node joins, leaves, gets or loses its address or its readiness.
ChangeNode(n) ==
  /\ NodeEvent
  /\ \E o \in (NodeObjects \cup {NoNode}) \ {node[n]} : node' = [node EXCEPT ![n] = o]
  /\ UNCHANGED <<addresses, nodeCaches, nodeQueued, nodeWorker>>

DeleteAddresses ==
  /\ NodeEvent /\ addresses # NoAddresses
  /\ addresses' = NoAddresses
  /\ UNCHANGED <<node, nodeCaches, nodeQueued, nodeWorker>>

-----------------------------------------------------------------------------
(* Informers.  The Addresses object is cached, not watched.                *)

SyncNode(n) ==
  /\ cNode[n] # node[n]
  /\ cNode' = [cNode EXCEPT ![n] = node[n]] /\ nodeQueued' = TRUE
  /\ UNCHANGED <<node, addresses, cAddresses, nodeWorker, nodeEvents>>

SyncAddresses ==
  /\ cAddresses # addresses
  /\ cAddresses' = addresses
  /\ UNCHANGED <<node, addresses, cNode, nodeQueued, nodeWorker, nodeEvents>>

Listed(view) == {n \in Nodes : view[n] # NoNode}

\* Every ten hours the informer delivers what it has.
ResyncNodes ==
  /\ Listed(cNode) # {} /\ ~nodeQueued
  /\ nodeQueued' = TRUE
  /\ UNCHANGED <<node, addresses, nodeCaches, nodeWorker, nodeEvents>>

-----------------------------------------------------------------------------
(* KubeLBNodeReconciler.                                                   *)

\* Mutated form: nodes that are not ready count too.
AnyNode(view) == Listed(view)

\* The nodes that are ready; a node may be ready before it has an address.
getEndpoints(view) == {n \in Listed(view) : view[n].ready}

WithIP(view) == {n \in getEndpoints(view) : view[n].hasIP}

\* Mutated form: in the order of the list, which is that of a map.
Unsorted(ns) == {s \in AddressLists : Range(s) = ns /\ IsInjective(s)}

\* The order of the list is lost in the sort.
Sorted(s) == \A i, j \in DOMAIN s : i < j => s[i] < s[j]
Ordered(ns) == {s \in AddressLists : Range(s) = ns /\ Sorted(s)}

validAddressFound(view) == WithIP(view) # {}

NodeIdle == nodePc' = "idle" /\ current' = <<>> /\ found' = <<>>
NodeRetry == NodeIdle /\ nodeQueued' = TRUE
NodeDone == NodeIdle /\ UNCHANGED nodeQueued

\* Without a valid address the request is retried and Addresses stays as it is.
ListNodes ==
  /\ nodePc = "idle" /\ nodeQueued
  /\ IF validAddressFound(cNode)
       THEN /\ \E s \in Ordered(WithIP(cNode)) : current' = s
            /\ nodePc' = "get" /\ nodeQueued' = FALSE /\ UNCHANGED found
       ELSE NodeRetry
  /\ UNCHANGED <<node, addresses, nodeCaches, nodeEvents>>

\* The object in the cache is compared with the desired one.
GetAddresses ==
  /\ nodePc = "get"
  /\ IF cAddresses = NoAddresses
       THEN IF addresses = NoAddresses THEN addresses' = current /\ NodeDone
            ELSE UNCHANGED addresses /\ NodeRetry
     ELSE IF cAddresses = current THEN UNCHANGED addresses /\ NodeDone
     ELSE /\ nodePc' = "update" /\ found' = cAddresses
          /\ UNCHANGED <<addresses, current, nodeQueued>>
  /\ UNCHANGED <<node, nodeCaches, nodeEvents>>

\* Fails when the object read is not the stored one.
UpdateAddresses ==
  /\ nodePc = "update"
  /\ IF addresses = found THEN addresses' = current /\ NodeDone
     ELSE UNCHANGED addresses /\ NodeRetry
  /\ UNCHANGED <<node, nodeCaches, nodeEvents>>

KubeLBNodeReconciler == ListNodes \/ GetAddresses \/ UpdateAddresses

NodeRestart ==
  /\ NodeEvent
  /\ cNode' = node /\ cAddresses' = addresses
  /\ nodeQueued' = (Listed(node) # {}) /\ NodeIdle
  /\ UNCHANGED <<node, addresses>>

-----------------------------------------------------------------------------
NodeInit ==
  /\ node = [n \in Nodes |-> NoNode] /\ addresses = NoAddresses
  /\ cNode = node /\ cAddresses = addresses
  /\ nodeQueued = FALSE /\ nodePc = "idle" /\ current = <<>> /\ found = <<>>
  /\ nodeEvents = 0

NodeNext ==
  \/ \E n \in Nodes : ChangeNode(n) \/ SyncNode(n)
  \/ DeleteAddresses \/ SyncAddresses \/ ResyncNodes \/ KubeLBNodeReconciler \/ NodeRestart

\* Informers and the worker run.
NodeFairness ==
  /\ \A n \in Nodes : WF_nodeVars(SyncNode(n))
  /\ WF_nodeVars(SyncAddresses) /\ WF_nodeVars(ResyncNodes) /\ WF_nodeVars(KubeLBNodeReconciler)

-----------------------------------------------------------------------------
Serving == {n \in Nodes : node[n] \in NodeObjects /\ node[n].ready /\ node[n].hasIP}

\* Addresses follows the nodes, also when others delete it, as long as there is a
\* ready node with an address.
AddressesConverge == <>[](Serving # {} => addresses \in Ordered(Serving))

\* A write changes the set of addresses: the order in which the nodes happen to be
\* listed causes no write, so none of the updates that would follow it.  And no write
\* empties it: a tenant whose nodes are all unready keeps its last endpoints.
NoIdleWrite ==
  [][addresses' # addresses /\ addresses' # NoAddresses
       => /\ addresses' # <<>>
          /\ addresses # NoAddresses => Range(addresses') # Range(addresses)]_nodeVars
==============================================================================
