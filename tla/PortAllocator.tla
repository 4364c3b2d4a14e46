---------------------------- MODULE PortAllocator ----------------------------
(***************************************************************************)
(* internal/port-lookup/allocator.go: the table that gives every upstream  *)
(* port of every load-balanced endpoint its own listener port on Envoy.    *)
(* It is shared by the LoadBalancer, Route and Envoy control plane         *)
(* reconcilers of one manager process and guarded by the mutex pa.mu.      *)
(* LoadState, which runs before the reconcilers start, is modelled where   *)
(* the objects it reads are (LoadBalancerManager).                         *)
(***************************************************************************)
EXTENDS FiniteSets

CONSTANTS EndpointKeys,  \* endpoint keys ("<namespace>-<name>-ep-<i>", ...)
          PortKeys,      \* port keys of an endpoint ("<port>-<protocol>")
          Ports,         \* the ports rand.Intn can draw, startPort .. endPort-1
          NoPort         \* the -1 of a failed Lookup

ASSUME NoPortAssumption == NoPort \notin Ports \cup PortKeys

VARIABLES portLookup,         \* LookupTable: endpoint key -> port key -> port
          portLookupReverse,  \* the ports recorded as taken
          mu                  \* "free", or "spinning": held by a draw that never ends

allocVars == <<portLookup, portLookupReverse, mu>>

PortMaps == UNION {[K -> Ports] : K \in SUBSET PortKeys}
LookupTables == UNION {[E -> PortMaps] : E \in SUBSET EndpointKeys}

-----------------------------------------------------------------------------
\* make(map[string]int)
EmptyMap == [k \in {} |-> NoPort]

Entry(table, e) == IF e \in DOMAIN table THEN table[e] ELSE EmptyMap

PortsOf(table, e) == {Entry(table, e)[k] : k \in DOMAIN Entry(table, e)}

TakenPorts(table) == UNION {PortsOf(table, e) : e \in DOMAIN table}

\* Lookup reads the table without the mutex.
Lookup(e, k) == IF k \in DOMAIN Entry(portLookup, e)
                  THEN portLookup[e][k] ELSE NoPort

-----------------------------------------------------------------------------
\* Mutated form: a draw that checks nothing.
DrawUnchecked == Ports

\* The ports a call of allocatePort can return: it draws until it meets a port
\* that is not in the reverse table.
allocatePort == Ports \ portLookupReverse

\* Mutated form: released ports stay in the table.
RecomputeOnlyAdds == portLookupReverse' = portLookupReverse \cup TakenPorts(portLookup')

\* The last step of every operation rebuilds the reverse table.
recomputeAvailablePorts == portLookupReverse' = TakenPorts(portLookup')

SetEntry(e, m) ==
  portLookup' = [x \in DOMAIN portLookup \cup {e} |-> IF x = e THEN m ELSE portLookup[x]]

\* Mutated form: every requested key is drawn again.
DrawEveryKey(e, portkeys) == portkeys

KeysToDraw(e, portkeys) == portkeys \ DOMAIN Entry(portLookup, e)

\* The entry of e becomes exactly portkeys: known keys keep their port, the
\* missing ones are drawn, the others are dropped.  The reverse table is only
\* rebuilt at the end, so the draws of one call do not see each other.
AllocatePorts(e, portkeys) ==
  /\ mu = "free"
  /\ \E drawn \in [KeysToDraw(e, portkeys) -> allocatePort] :
       SetEntry(e, [k \in portkeys |-> IF k \in DOMAIN drawn THEN drawn[k]
                                       ELSE Entry(portLookup, e)[k]])
  /\ recomputeAvailablePorts
  /\ UNCHANGED mu

\* The same call when every port is taken: the loop of allocatePort never
\* returns and the mutex is never released.  The keys before the first missing
\* one have not changed the table.
AllocatePortsSpins(e, portkeys) ==
  /\ mu = "free"
  /\ KeysToDraw(e, portkeys) # {}
  /\ allocatePort = {}
  /\ SetEntry(e, Entry(portLookup, e))
  /\ mu' = "spinning"
  /\ UNCHANGED portLookupReverse

DeallocatePorts(e, portkeys) ==
  /\ mu = "free"
  /\ IF e \in DOMAIN portLookup
       THEN SetEntry(e, [k \in DOMAIN portLookup[e] \ portkeys |-> portLookup[e][k]])
       ELSE UNCHANGED portLookup
  /\ recomputeAvailablePorts
  /\ UNCHANGED mu

DeallocateEndpoints(E) ==
  /\ mu = "free"
  /\ portLookup' = [x \in DOMAIN portLookup \ E |-> portLookup[x]]
  /\ recomputeAvailablePorts
  /\ UNCHANGED mu

-----------------------------------------------------------------------------
\* NewPortAllocator
AllocInit == /\ portLookup = [e \in {} |-> EmptyMap]
             /\ portLookupReverse = {}
             /\ mu = "free"

AllocNext ==
  \/ \E e \in EndpointKeys, K \in SUBSET PortKeys : AllocatePorts(e, K)
  \/ \E e \in EndpointKeys, K \in SUBSET PortKeys : AllocatePortsSpins(e, K)
  \/ \E e \in EndpointKeys, K \in SUBSET PortKeys : DeallocatePorts(e, K)
  \/ \E E \in SUBSET EndpointKeys : DeallocateEndpoints(E)

AllocSpec == AllocInit /\ [][AllocNext]_allocVars

-----------------------------------------------------------------------------
\* Every table the allocator builds maps known keys to ports of the range.
AllocTypeOK == /\ portLookup \in LookupTables
               /\ portLookupReverse \in SUBSET Ports
               /\ mu \in {"free", "spinning"}

\* The reverse table, which allocatePort trusts, is exactly the set of ports in
\* the lookup table: no taken port looks free (it would be handed out twice) and
\* no released port stays blocked.
ReverseExact == portLookupReverse = TakenPorts(portLookup)

\* Two endpoints never hold the same port, whatever sequence of allocations,
\* spec changes and deallocations led here.
NoSharedPort ==
  \A e, f \in DOMAIN portLookup :
    e # f => PortsOf(portLookup, e) \cap PortsOf(portLookup, f) = {}

\* "If a key already exists in the lookup table, it is ignored": a key that
\* stays in the table keeps its port, so a listener does not move while traffic
\* uses it.
KnownKeysKeepTheirPort ==
  [][\A e \in DOMAIN portLookup \cap DOMAIN portLookup' :
       \A k \in DOMAIN portLookup[e] \cap DOMAIN portLookup'[e] :
         portLookup'[e][k] = portLookup[e][k]]_allocVars

\* The mutex is lost to an endless draw only when the table holds every port
\* of the range.
SpinsOnlyWhenExhausted == mu = "spinning" => Ports \subseteq TakenPorts(portLookup)

\* The allocator implements the lease discipline of PortLease.
Lease == INSTANCE PortLease
           WITH held <- [e \in EndpointKeys |-> PortsOf(portLookup, e)]
LeaseSpec == Lease!Spec

\* Two listeners of one endpoint get the same port only when both were drawn in
\* the same call of AllocatePorts, whose draws do not see each other; a port that
\* is added later is never one the endpoint already has.
SharedOnlyIfDrawnTogether ==
  [][\A e \in DOMAIN portLookup' : \A j, k \in DOMAIN portLookup'[e] :
       portLookup'[e][j] = portLookup'[e][k] =>
         (j \in DOMAIN Entry(portLookup, e) <=> k \in DOMAIN Entry(portLookup, e))]_allocVars
==============================================================================
