----------------------------- MODULE ServicePorts -----------------------------
(***************************************************************************)
(* A LoadBalancer with several ports: MapLoadBalancer of the CCM writes its *)
(* spec, CreateServicePorts derives the ports of its Service,               *)
(* updateLoadBalancerStatus records them, and LoadState rebuilds the port   *)
(* table from that record after a restart.  LoadBalancerManager has the     *)
(* same reconciler with one port and all of its object life cycle; here     *)
(* the LoadBalancer stays and its ports change.                             *)
(*                                                                          *)
(* A port has a name, a number and the node port of the tenant's Service    *)
(* (its upstream port, which is its key in the port table).  Names are      *)
(* numbers, so that the Service can be sorted by name.  All ports have the  *)
(* same protocol.                                                           *)
(***************************************************************************)
EXTENDS Naturals, Sequences, FiniteSets

CONSTANTS PortNames,        \* names of ports, a set of numbers
          PortNumbers,      \* port numbers of a Service
          Upstreams,        \* node ports in the tenant cluster
          EnvoyPorts,       \* ports the allocator draws from
          NodePorts,        \* node ports the load balancing cluster assigns
          Unassigned,       \* node port 0
          MaxSpecChanges,   \* bound: changes of the LoadBalancer's ports
          MaxPortRestarts   \* bound: restarts of the manager

ASSUME PortNamesAssumption == PortNames \subseteq Nat /\ Unassigned \notin NodePorts

VARIABLES spec,        \* API server: ports of the LoadBalancer
          service,     \* API server: ports of its Service
          record,      \* API server: status.service.ports of the LoadBalancer
          cService,    \* the manager's cache of the Service
          table,       \* port table: upstream port -> Envoy port
          requested,   \* the LoadBalancer is in the work queue
          step, held,  \* worker: step and spec it read
          specChanges, portRestarts

portVars == <<spec, service, record, cService, table, requested, step, held,
              specChanges, portRestarts>>

\* A Service that does not exist has no ports.
NoService == <<>>

Distinct(s, f(_)) == \A i, j \in DOMAIN s : i # j => f(s[i]) # f(s[j])
PortLists(S) == UNION {[1..n -> S] : n \in 1..Cardinality(PortNames)}

\* MapLoadBalancer: port i of the spec and port i of its only endpoints entry have
\* the same name.  The API server has checked the names and the numbers.
MapLoadBalancer ==
  {s \in PortLists([name : PortNames, port : PortNumbers, up : Upstreams]) :
     /\ Distinct(s, LAMBDA p : p.name) /\ Distinct(s, LAMBDA p : p.port)
     /\ Distinct(s, LAMBDA p : p.up)}

Ascending(s) == \A i, j \in DOMAIN s : i < j => s[i].name < s[j].name
Permuted(s, t) == Len(s) = Len(t) /\ {s[i] : i \in DOMAIN s} = {t[i] : i \in DOMAIN t}
ByName(s) == CHOOSE t \in [DOMAIN s -> {s[i] : i \in DOMAIN s}] : Permuted(s, t) /\ Ascending(t)

-----------------------------------------------------------------------------
(* The tenant and the informer.                                            *)

\* The LoadBalancer appears.
CreatePorts ==
  /\ service = NoService /\ ~requested /\ step = "idle"
  /\ requested' = TRUE
  /\ UNCHANGED <<spec, service, record, cService, table, step, held, specChanges, portRestarts>>

ChangePorts(s) ==
  /\ specChanges < MaxSpecChanges /\ s # spec
  /\ spec' = s /\ specChanges' = specChanges + 1 /\ requested' = TRUE
  /\ UNCHANGED <<service, record, cService, table, step, held, portRestarts>>

\* Only the creation of a Service and changes of its status are events.
SyncPorts ==
  /\ cService # service
  /\ cService' = service /\ requested' = (requested \/ cService = NoService)
  /\ UNCHANGED <<spec, service, record, table, step, held, specChanges, portRestarts>>

\* The informer delivers every LoadBalancer again from time to time.
ResyncPorts ==
  /\ service # NoService /\ ~requested
  /\ requested' = TRUE
  /\ UNCHANGED <<spec, service, record, cService, table, step, held, specChanges, portRestarts>>

-----------------------------------------------------------------------------
(* LoadBalancerReconciler.Reconcile.                                       *)

Again == step' = "idle" /\ held' = <<>> /\ requested' = TRUE

\* AllocatePorts: keys that are not asked for go, known ones keep their port, and
\* every new one draws a port that no key had before the call.
Allocations(s) ==
  LET keys == {s[i].up : i \in DOMAIN s}
      taken == {table[k] : k \in DOMAIN table}
  IN {t \in [keys -> EnvoyPorts] :
        \A k \in keys : IF k \in DOMAIN table THEN t[k] = table[k] ELSE t[k] \notin taken}

AllocateForSpec ==
  /\ step = "idle" /\ requested
  /\ table' \in Allocations(spec)
  /\ step' = "service" /\ held' = spec /\ requested' = FALSE
  /\ UNCHANGED <<spec, service, record, cService, specChanges, portRestarts>>

\* The port of the existing Service that a port of the spec continues.
Matches(p, q) == q.name = p.name \/ q.port = p.port

Existing(p) == {i \in DOMAIN cService : Matches(p, cService[i])}

\* The node port is taken over from the first match.
KeptNodePort(p) ==
  IF Existing(p) = {} THEN Unassigned
  ELSE cService[CHOOSE i \in Existing(p) : \A j \in Existing(p) : i <= j].nodePort

\* Mutated form: the target port is the node port of the tenant's Service.
PortsUntranslated(s) ==
  ByName([i \in DOMAIN s |-> [name |-> s[i].name, port |-> s[i].port,
                              target |-> CHOOSE t \in EnvoyPorts : TRUE,
                              nodePort |-> KeptNodePort(s[i])]])

CreateServicePorts(s) ==
  ByName([i \in DOMAIN s |-> [name |-> s[i].name, port |-> s[i].port,
                              target |-> table[s[i].up], nodePort |-> KeptNodePort(s[i])]])

\* The API server fills in node ports that are not set, and refuses duplicates.
Assigned(s) ==
  {[i \in DOMAIN s |-> [s[i] EXCEPT !.nodePort = n[i]]] :
     n \in {m \in [DOMAIN s -> NodePorts] :
              /\ \A i \in DOMAIN s : s[i].nodePort \in {Unassigned, m[i]}
              /\ Distinct(m, LAMBDA p : p)}}

\* Create, Update when the ports differ, or nothing to do; an error is retried.
ReconcileServicePorts ==
  LET desired == CreateServicePorts(held) IN
  /\ step = "service"
  /\ IF cService = desired
       THEN UNCHANGED service /\ step' = "status" /\ UNCHANGED <<held, requested>>
     ELSE IF service = cService /\ Assigned(desired) # {}
       THEN service' \in Assigned(desired) /\ step' = "status" /\ UNCHANGED <<held, requested>>
     ELSE UNCHANGED service /\ Again
  /\ UNCHANGED <<spec, record, cService, table, specChanges, portRestarts>>

\* The i-th port of the Service is paired with the i-th port of the spec.
RecordOf(s) ==
  [i \in DOMAIN cService |-> [name |-> cService[i].name, up |-> s[i].up,
                              target |-> cService[i].target]]

\* The Service is read from the cache.  One that is not there yet is an error; one
\* with more ports than the spec is an index out of range, which controller-runtime
\* recovers from and turns into an error.  The new status is an event.
RecordPorts ==
  /\ step = "status"
  /\ IF cService = NoService \/ Len(cService) > Len(held)
       THEN UNCHANGED record /\ Again
       ELSE /\ record' = RecordOf(held)
            /\ step' = "idle" /\ held' = <<>> /\ requested' = (requested \/ record' # record)
  /\ UNCHANGED <<spec, service, cService, table, specChanges, portRestarts>>

\* Mutated form: the record is looked up by the number of the port.
LoadByNumber ==
  LET restored == {i \in DOMAIN spec : \E j \in DOMAIN record : record[j].up = spec[i].port}
  IN [k \in {spec[i].up : i \in restored} |->
        LET i == CHOOSE i \in restored : spec[i].up = k
        IN record[CHOOSE j \in DOMAIN record : record[j].up = spec[i].port].target]

\* LoadState: a port is restored from the first record with its upstream port and
\* its name.
LoadPorts ==
  LET recorded(p) == {i \in DOMAIN record : record[i].up = p.up /\ record[i].name = p.name}
      restored == {i \in DOMAIN spec : recorded(spec[i]) # {}}
      up(i) == spec[i].up
  IN [k \in {up(i) : i \in restored} |->
        LET p == spec[CHOOSE i \in restored : up(i) = k]
        IN record[CHOOSE i \in recorded(p) : \A j \in recorded(p) : i <= j].target]

RestartManager ==
  /\ portRestarts < MaxPortRestarts
  /\ portRestarts' = portRestarts + 1
  /\ table' = LoadPorts /\ cService' = service
  /\ step' = "idle" /\ held' = <<>> /\ requested' = TRUE
  /\ UNCHANGED <<spec, service, record, specChanges>>

PortsInit ==
  /\ spec \in MapLoadBalancer /\ service = NoService /\ record = <<>>
  /\ cService = NoService /\ table = [k \in {} |-> Unassigned]
  /\ requested = FALSE /\ step = "idle" /\ held = <<>>
  /\ specChanges = 0 /\ portRestarts = 0

PortsWorker == AllocateForSpec \/ ReconcileServicePorts \/ RecordPorts

PortsNext ==
  \/ CreatePorts \/ (\E s \in MapLoadBalancer : ChangePorts(s))
  \/ SyncPorts \/ ResyncPorts \/ PortsWorker \/ RestartManager

PortsSpec == PortsInit /\ [][PortsNext]_portVars

\* The informer delivers and resyncs, and the worker runs.
PortsFairness ==
  WF_portVars(SyncPorts) /\ WF_portVars(ResyncPorts) /\ WF_portVars(PortsWorker)

-----------------------------------------------------------------------------
\* Two ports of the spec continue the same port of the Service: both ask for its
\* node port and the API server refuses the update.
Clash == \E i, j \in DOMAIN spec : i # j /\ Unassigned # KeptNodePort(spec[i])
                                   /\ KeptNodePort(spec[i]) = KeptNodePort(spec[j])

\* Once the tenant stops, the Service has exactly the ports of the LoadBalancer, each
\* on the Envoy port of its upstream port, unless the change clashed.
PortsConverge ==
  <>[](\/ Clash
       \/ service = NoService /\ ~requested
       \/ {<<spec[i].name, spec[i].port, IF spec[i].up \in DOMAIN table
                                           THEN table[spec[i].up] ELSE Unassigned>> :
             i \in DOMAIN spec}
          = {<<service[i].name, service[i].port, service[i].target>> : i \in DOMAIN service})

\* The status records the Service as it is, port by port.
Recorded ==
  /\ service # NoService /\ Len(service) = Len(spec)
  /\ \A i \in DOMAIN spec : service[i].name = spec[i].name
  /\ record = [i \in DOMAIN spec |-> [name |-> spec[i].name, up |-> spec[i].up,
                                      target |-> service[i].target]]

\* Once its Service is recorded a LoadBalancer keeps its Envoy ports, also across a
\* restart, while its spec does not change and lists the ports in the order of
\* their names.
RecordedPortsStable ==
  [][specChanges = 0 /\ Ascending(spec) /\ Recorded
       => \A i \in DOMAIN spec : /\ spec[i].up \in DOMAIN table'
                                 /\ table'[spec[i].up] = service[i].target]_portVars
==============================================================================
