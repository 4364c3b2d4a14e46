--------------------------- MODULE MCRouteManager ---------------------------
(* Instances of RouteManager, BridgeService and RouteReferences: a behaviour *)
(* is one of the Route reconciler, one of the BridgeService reconciler, or   *)
(* the rewriting of one object.                                              *)
EXTENDS RouteManager, BridgeService, RouteReferences

CONSTANTS r1, r2,   \* the Routes
          s1, s2    \* a Service with a replica, and one that is used as it is
VARIABLE part

TwoRoutes == {r1, r2}
TwoServices == {s1, s2}
MCEndpointKeys == Svcs \X Routes

\* Services w, a-w and b-w of the namespaces a and a-b; the objects are in a.
Ref(name, ns) == [name |-> name, ns |-> ns]
Own == {Ref(<<"w">>, OwnNamespace), Ref(<<"a", "w">>, OwnNamespace),
        Ref(<<"b", "w">>, OwnNamespace)}
Seqs(S, m, n) == UNION {[1..k -> S] : k \in m..n}

MCIngresses ==
  {[kind |-> "Ingress", ns |-> <<"a">>, mirrors |-> <<>>, backends |-> b] :
     b \in Seqs({[ref |-> r, mirrors |-> <<>>] : r \in Own}, 1, 3)}

MCHTTPRoutes ==
  LET refs == {Ref(<<"w">>, OwnNamespace), Ref(<<"w">>, <<"a", "b">>), Ref(<<"b", "w">>, <<"a">>)}
      filters == refs \cup {OtherFilter}
  IN {[kind |-> "HTTPRoute", ns |-> <<"a">>, mirrors |-> m, backends |-> b] :
        m \in Seqs(filters, 0, 1),
        b \in Seqs({[ref |-> r, mirrors |-> f] :
                      r \in refs, f \in {<<>>, <<Ref(<<"w">>, OwnNamespace)>>}}, 1, 2)}

MCRouteObjects == MCIngresses \cup MCHTTPRoutes

\* UIDs differ.
MCUIDSuffix(ref) == <<ref.ns, ref.name>>

Deleted(o) == o = Gone \/ (IsObject(o) /\ o.deleting)

\* Ports are interchangeable: while there is none in any variable, a draw has one
\* outcome.
Recorded(o) == IF IsObject(o) THEN DOMAIN o.status ELSE {}
NoPorts == /\ portLookupReverse = {} /\ \A g \in Generated : {svc[g], cSvc[g]} = {Absent}
           /\ \A r \in Routes : \A o \in {route[r], cRoute[r], obj} : Recorded(o) = {}
OneDraw == NoPorts => portLookupReverse' \subseteq {CHOOSE p \in Ports : TRUE}

\* The first Route alone, in the global topology, with one of the Services.
RefersTo(x) == \A r \in Routes : IsObject(route'[r]) => route'[r].services \subseteq {x}
FirstAlone(x) == route'[r2] = Absent /\ RefersTo(x) /\ OneDraw

\* A second Route of the shared topology refers to the Service of the first one.  It
\* is created when all is quiet, and stays; the first one may be deleted then.
FirstServed == /\ DOMAIN route[r1].status # {} /\ cRoute = route /\ cSvc = svc /\ cL7 = l7
               /\ eRoute[r1] = route[r1].services /\ rq = <<>> /\ pc = "idle"
SecondJoins ==
  /\ UNCHANGED bounds /\ RefersTo(s1) /\ OneDraw /\ ~Deleted(route'[r2])
  /\ route[r2] = Absent => ~Deleted(route'[r1])
  /\ route[r2] # route'[r2] /\ route[r2] = Absent => Live(route[r1]) /\ FirstServed

mcVars == <<vars, topology, bridgeVars, refVars, part>>

\* The part that does not run has one initial state.
MCInit ==
  /\ part \in {"one route", "as is", "two routes", "bridge", "references"}
  /\ topology = IF part \in {"one route", "as is"} THEN "global" ELSE "shared"
  /\ \/ part = "references"
     \/ /\ object = CHOOSE o \in RouteObjects : TRUE
        /\ clusterIPs = {} /\ missing = {} /\ uidNames = TRUE
  /\ Init /\ BridgeInit /\ RefInit

MCNext ==
  /\ \/ part = "one route" /\ Next /\ FirstAlone(s1) /\ UNCHANGED <<bridgeVars, refVars>>
     \/ part = "as is" /\ Next /\ FirstAlone(s2) /\ UNCHANGED <<bridgeVars, refVars>>
     \/ part = "two routes" /\ Next /\ SecondJoins /\ UNCHANGED <<bridgeVars, refVars>>
     \/ part = "bridge" /\ BridgeNext /\ UNCHANGED <<vars, refVars>>
     \/ part = "references" /\ RefNext /\ UNCHANGED <<vars, bridgeVars>>
  /\ UNCHANGED <<topology, part>>

\* In the initial states nothing that is fair is enabled, so fairness demands
\* nothing of the reconciler that is not running.
MCSpec == MCInit /\ [][MCNext]_mcVars /\ Fairness /\ BridgeFairness
==============================================================================
