------------------------------ MODULE PortLease ------------------------------
(***************************************************************************)
(* What the port allocator promises its callers, without the tables it is  *)
(* built from: every endpoint key holds a set of Envoy listener ports, and *)
(* a port is handed out only while nobody holds it.                        *)
(***************************************************************************)
CONSTANTS EndpointKeys,  \* the endpoints ports are leased to
          Ports          \* the ports that can be leased

VARIABLE held            \* held[e]: the ports endpoint e holds

Leased == UNION {held[e] : e \in EndpointKeys}

Init == held = [e \in EndpointKeys |-> {}]

\* Endpoint e gives up some of its ports and receives some nobody holds.
Relet(e) ==
  \E P \in SUBSET (held[e] \cup (Ports \ Leased)) :
    held' = [held EXCEPT ![e] = P]

\* The endpoints in E give up everything they hold.
Return(E) == held' = [e \in EndpointKeys |-> IF e \in E THEN {} ELSE held[e]]

Next == \/ \E e \in EndpointKeys : Relet(e)
        \/ \E E \in SUBSET EndpointKeys : Return(E)

Spec == Init /\ [][Next]_held

TypeOK == held \in [EndpointKeys -> SUBSET Ports]

\* No port is leased to two endpoints: the Envoy listeners of two endpoints
\* never compete for the same port.
Exclusive == \A e, f \in EndpointKeys : e # f => held[e] \cap held[f] = {}
==============================================================================
