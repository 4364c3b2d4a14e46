--------------------------- MODULE MCPortAllocator ---------------------------
(* Small instances of the port allocator, and of two users of its ports: a    *)
(* behaviour is one of the allocator, one of a LoadBalancer with several      *)
(* ports, or one of the snapshot mapping.                                     *)
EXTENDS PortAllocator, ServicePorts, EnvoySnapshot
CONSTANTS e1, e2, k1, k2, p1, p2, p3
MCEndpointKeys == {e1, e2}
MCPortKeys == {k1, k2}
MCPorts == {p1, p2, p3}

\* Two tenants, each with two endpoints that share Addresses; one of them also has
\* a port with inline addresses.
MCItems ==
  {[ns |-> n, kind |-> k, protocol |-> "TCP", ref |-> TRUE] :
     n \in {"t1", "t2"}, k \in {"LoadBalancer", "GRPCRoute"}}
  \cup {[ns |-> "t1", kind |-> "LoadBalancer", protocol |-> "UDP", ref |-> FALSE]}

VARIABLE part
mcVars == <<allocVars, portVars, snapVars, part>>

\* Port numbers are interchangeable, and so are upstream ports: the first port of the
\* first spec has number 1 and upstream port 2.
MCInit == /\ part \in {"allocator", "service ports", "snapshot"}
          /\ AllocInit /\ PortsInit /\ SnapInit
          /\ spec[1].port = 1 /\ spec[1].up = 2
          /\ part # "service ports" => Len(spec) = 1 /\ spec[1].name = 1

MCNext ==
  \/ part = "allocator" /\ AllocNext /\ UNCHANGED <<portVars, snapVars, part>>
  \/ part = "service ports" /\ PortsNext /\ UNCHANGED <<allocVars, snapVars, part>>
  \/ part = "snapshot" /\ SnapNext /\ UNCHANGED <<allocVars, portVars, part>>

\* In the initial states nothing that is fair is enabled, so fairness demands
\* nothing of the parts that do not run.
MCSpec == MCInit /\ [][MCNext]_mcVars /\ PortsFairness /\ SnapFairness
==============================================================================
