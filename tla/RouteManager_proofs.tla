------------------------- MODULE RouteManager_proofs -------------------------
(***************************************************************************)
(* Theorems about the port allocator, for any sets of endpoints, port keys *)
(* and ports, and about the Route reconciler, which uses it, for any       *)
(* number of Routes, Services, ports and events, and both topologies.      *)
(*                                                                         *)
(* The invariant of the allocator is AllocTypeOK with ReverseExact: the    *)
(* free ports of a draw are those outside the reverse table, so nothing    *)
(* can be said about what a draw returns until the reverse table is known  *)
(* to be the set of ports in use.                                          *)
(***************************************************************************)
EXTENDS RouteManager, TLAPS

AllocInv == AllocTypeOK /\ ReverseExact

-----------------------------------------------------------------------------
\* What membership in LookupTables gives: the entry of any key is a finite map
\* from port keys to ports of the range.
LEMMA EntryType ==
  ASSUME NEW t \in LookupTables, NEW e
  PROVE  /\ DOMAIN Entry(t, e) \subseteq PortKeys
         /\ \A k \in DOMAIN Entry(t, e) : Entry(t, e)[k] \in Ports
         /\ PortsOf(t, e) \subseteq Ports
<1>1. CASE e \in DOMAIN t
  <2>1. PICK E \in SUBSET EndpointKeys : t \in [E -> PortMaps]
    BY DEF LookupTables
  <2>2. t[e] \in PortMaps
    BY <1>1, <2>1
  <2>3. PICK K \in SUBSET PortKeys : t[e] \in [K -> Ports]
    BY <2>2 DEF PortMaps
  <2> QED
    BY <1>1, <2>3 DEF Entry, PortsOf
<1>2. CASE e \notin DOMAIN t
  BY <1>2 DEF Entry, PortsOf, EmptyMap
<1> QED
  BY <1>1, <1>2

\* Replacing one entry of a table by a map to ports gives a table again.
LEMMA SetEntryType ==
  ASSUME NEW t \in LookupTables, NEW e \in EndpointKeys, NEW m \in PortMaps
  PROVE  [x \in DOMAIN t \cup {e} |-> IF x = e THEN m ELSE t[x]] \in LookupTables
<1>1. PICK E \in SUBSET EndpointKeys : t \in [E -> PortMaps]
  BY DEF LookupTables
<1>2. [x \in DOMAIN t \cup {e} |-> IF x = e THEN m ELSE t[x]] \in [E \cup {e} -> PortMaps]
  BY <1>1
<1> QED
  BY <1>1, <1>2, Zenon DEF LookupTables

\* An endpoint's ports are among the taken ones.
LEMMA PortsOfTaken ==
  ASSUME NEW t, NEW e
  PROVE  PortsOf(t, e) \subseteq TakenPorts(t)
BY DEF PortsOf, TakenPorts, Entry, EmptyMap

\* The taken ports of a table are ports of the range.
LEMMA TakenType ==
  ASSUME NEW t \in LookupTables
  PROVE  TakenPorts(t) \subseteq Ports
BY EntryType DEF TakenPorts

-----------------------------------------------------------------------------
\* The map AllocatePorts stores is a map from the requested keys to ports.
LEMMA AllocatedMap ==
  ASSUME AllocTypeOK, NEW e \in EndpointKeys, NEW K \in SUBSET PortKeys,
         NEW drawn \in [KeysToDraw(e, K) -> allocatePort]
  PROVE  [k \in K |-> IF k \in DOMAIN drawn THEN drawn[k]
                      ELSE Entry(portLookup, e)[k]] \in [K -> Ports]
<1>1. \A k \in DOMAIN Entry(portLookup, e) : Entry(portLookup, e)[k] \in Ports
  BY EntryType DEF AllocTypeOK
<1>2. \A k \in K : k \in DOMAIN drawn \/ k \in DOMAIN Entry(portLookup, e)
  BY DEF KeysToDraw
<1>3. \A k \in DOMAIN drawn : drawn[k] \in Ports
  BY DEF allocatePort
<1> QED
  BY <1>1, <1>2, <1>3

-----------------------------------------------------------------------------
\* AllocatePorts keeps the table well formed and the reverse table exact.
LEMMA AllocatePortsInv ==
  ASSUME AllocInv, NEW e \in EndpointKeys, NEW K \in SUBSET PortKeys,
         AllocatePorts(e, K)
  PROVE  AllocInv'
<1>1. PICK drawn \in [KeysToDraw(e, K) -> allocatePort] :
        SetEntry(e, [k \in K |-> IF k \in DOMAIN drawn THEN drawn[k]
                                 ELSE Entry(portLookup, e)[k]])
  BY DEF AllocatePorts
<1> DEFINE m == [k \in K |-> IF k \in DOMAIN drawn THEN drawn[k]
                             ELSE Entry(portLookup, e)[k]]
<1>2. m \in PortMaps
  BY AllocatedMap DEF AllocInv, PortMaps
<1>3. portLookup' \in LookupTables
  <2> HIDE DEF m
  <2>1. SetEntry(e, m)
    BY <1>1 DEF m
  <2> QED
    BY <1>2, <2>1, SetEntryType DEF SetEntry, AllocInv, AllocTypeOK
<1>4. portLookupReverse' = TakenPorts(portLookup') /\ mu' = mu
  BY DEF AllocatePorts, recomputeAvailablePorts
<1>5. TakenPorts(portLookup') \subseteq Ports
  BY <1>3, TakenType
<1> QED
  BY <1>3, <1>4, <1>5 DEF AllocInv, AllocTypeOK, ReverseExact

\* A call that spins only makes sure the (possibly empty) entry exists.
LEMMA SpinKeepsPorts ==
  ASSUME NEW e, NEW K, AllocatePortsSpins(e, K)
  PROVE  \A f : PortsOf(portLookup', f) = PortsOf(portLookup, f)
BY DEF AllocatePortsSpins, SetEntry, PortsOf, Entry

\* ... and so does a call that never returns.
LEMMA SpinInv ==
  ASSUME AllocInv, NEW e \in EndpointKeys, NEW K, AllocatePortsSpins(e, K)
  PROVE  AllocInv'
<1>1. Entry(portLookup, e) \in PortMaps
  <2>1. CASE e \in DOMAIN portLookup
    BY <2>1 DEF AllocInv, AllocTypeOK, LookupTables, Entry
  <2>2. CASE e \notin DOMAIN portLookup
    <3>1. EmptyMap \in [{} -> Ports]
      BY DEF EmptyMap
    <3> QED
      BY <2>2, <3>1 DEF Entry, PortMaps
  <2> QED
    BY <2>1, <2>2
<1>2. portLookup' \in LookupTables
  BY <1>1, SetEntryType DEF AllocatePortsSpins, SetEntry, AllocInv, AllocTypeOK
<1>3. DOMAIN portLookup' = DOMAIN portLookup \cup {e}
  BY DEF AllocatePortsSpins, SetEntry
<1>4. TakenPorts(portLookup') = TakenPorts(portLookup)
  <2>1. e \notin DOMAIN portLookup => PortsOf(portLookup, e) = {}
    BY DEF PortsOf, Entry, EmptyMap
  <2> QED
    BY <1>3, <2>1, SpinKeepsPorts DEF TakenPorts
<1> QED
  BY <1>2, <1>4 DEF AllocInv, AllocTypeOK, ReverseExact, AllocatePortsSpins

\* DeallocatePorts keeps the table well formed and the reverse table exact.
LEMMA DeallocatePortsInv ==
  ASSUME AllocInv, NEW e \in EndpointKeys, NEW K, DeallocatePorts(e, K)
  PROVE  AllocInv'
<1>1. portLookup' \in LookupTables
  <2>1. CASE e \in DOMAIN portLookup
    <3>1. portLookup[e] \in PortMaps
      BY <2>1 DEF AllocInv, AllocTypeOK, LookupTables
    <3>2. PICK D \in SUBSET PortKeys : portLookup[e] \in [D -> Ports]
      BY <3>1 DEF PortMaps
    <3> DEFINE m == [k \in DOMAIN portLookup[e] \ K |-> portLookup[e][k]]
    <3>3. m \in [D \ K -> Ports]
      BY <3>2
    <3>4. m \in PortMaps
      BY <3>3, Zenon DEF PortMaps
    <3>5. SetEntry(e, m)
      BY <2>1 DEF DeallocatePorts
    <3> HIDE DEF m
    <3> QED
      BY <3>4, <3>5, SetEntryType DEF SetEntry, AllocInv, AllocTypeOK
  <2>2. CASE e \notin DOMAIN portLookup
    BY <2>2 DEF DeallocatePorts, AllocInv, AllocTypeOK
  <2> QED
    BY <2>1, <2>2
<1>2. portLookupReverse' = TakenPorts(portLookup') /\ mu' = mu
  BY DEF DeallocatePorts, recomputeAvailablePorts
<1> QED
  BY <1>1, <1>2, TakenType DEF AllocInv, AllocTypeOK, ReverseExact

\* DeallocateEndpoints keeps the table well formed and the reverse table exact.
LEMMA DeallocateEndpointsInv ==
  ASSUME AllocInv, NEW E, DeallocateEndpoints(E)
  PROVE  AllocInv'
<1>1. portLookup' \in LookupTables
  <2>1. PICK D \in SUBSET EndpointKeys : portLookup \in [D -> PortMaps]
    BY DEF AllocInv, AllocTypeOK, LookupTables
  <2>2. portLookup' \in [D \ E -> PortMaps]
    BY <2>1 DEF DeallocateEndpoints
  <2> QED
    BY <2>2 DEF LookupTables
<1>2. portLookupReverse' = TakenPorts(portLookup') /\ mu' = mu
  BY DEF DeallocateEndpoints, recomputeAvailablePorts
<1> QED
  BY <1>1, <1>2, TakenType DEF AllocInv, AllocTypeOK, ReverseExact

-----------------------------------------------------------------------------
\* In every reachable state the table is well formed and the reverse table that
\* allocatePort consults is exact (recomputeAvailablePorts runs often enough).
THEOREM AllocInvariant == AllocSpec => [](AllocTypeOK /\ ReverseExact)
<1>1. AllocInit => AllocInv
  <2> SUFFICES ASSUME AllocInit PROVE AllocInv
    OBVIOUS
  <2>1. portLookup \in [{} -> PortMaps]
    BY DEF AllocInit
  <2>2. TakenPorts(portLookup) = {}
    BY DEF AllocInit, TakenPorts
  <2> QED
    BY <2>1, <2>2 DEF AllocInit, AllocInv, AllocTypeOK, ReverseExact, LookupTables
<1>2. AllocInv /\ [AllocNext]_allocVars => AllocInv'
  <2> SUFFICES ASSUME AllocInv, [AllocNext]_allocVars PROVE AllocInv'
    OBVIOUS
  <2>1. CASE AllocNext
    BY <2>1, AllocatePortsInv, SpinInv, DeallocatePortsInv, DeallocateEndpointsInv
       DEF AllocNext
  <2>2. CASE UNCHANGED allocVars
    BY <2>2 DEF allocVars, AllocInv, AllocTypeOK, ReverseExact
  <2> QED
    BY <2>1, <2>2
<1>3. AllocInv <=> AllocTypeOK /\ ReverseExact
  BY DEF AllocInv
<1> QED
  BY <1>1, <1>2, <1>3, PTL DEF AllocSpec

\* An endless draw keeps the mutex for ever, and it happens only in a state in
\* which every port of the range is in the table.
THEOREM SpinMeansExhausted == AllocSpec => []SpinsOnlyWhenExhausted
<1>1. AllocInit => SpinsOnlyWhenExhausted
  BY DEF AllocInit, SpinsOnlyWhenExhausted
<1>2. AllocInv /\ SpinsOnlyWhenExhausted /\ [AllocNext]_allocVars => SpinsOnlyWhenExhausted'
  <2> SUFFICES ASSUME AllocInv, SpinsOnlyWhenExhausted, [AllocNext]_allocVars
               PROVE  SpinsOnlyWhenExhausted'
    OBVIOUS
  <2>1. ASSUME NEW e \in EndpointKeys, NEW K \in SUBSET PortKeys, AllocatePortsSpins(e, K)
        PROVE  SpinsOnlyWhenExhausted'
    <3>1. Ports \subseteq TakenPorts(portLookup)
      BY <2>1 DEF AllocatePortsSpins, allocatePort, AllocInv, ReverseExact
    <3>2. AllocInv' /\ portLookupReverse' = portLookupReverse
      BY <2>1, SpinInv DEF AllocatePortsSpins
    <3> QED
      BY <3>1, <3>2 DEF AllocInv, ReverseExact, SpinsOnlyWhenExhausted
  <2>2. ASSUME mu = "free", mu' = mu
        PROVE  SpinsOnlyWhenExhausted'
    BY <2>2 DEF SpinsOnlyWhenExhausted
  <2>3. CASE UNCHANGED allocVars
    BY <2>3 DEF allocVars, SpinsOnlyWhenExhausted
  <2> QED
    BY <2>1, <2>2, <2>3, Zenon DEF AllocNext, AllocatePorts, DeallocatePorts, DeallocateEndpoints
<1>3. AllocInv <=> AllocTypeOK /\ ReverseExact
  BY DEF AllocInv
<1> QED
  BY <1>1, <1>2, <1>3, AllocInvariant, PTL DEF AllocSpec

\* AllocatePorts, DeallocatePorts and DeallocateEndpoints never move a port key
\* that stays in the table to another port.
THEOREM PortsAreStable == AllocSpec => KnownKeysKeepTheirPort
<1> DEFINE Keep == \A e \in DOMAIN portLookup \cap DOMAIN portLookup' :
                     \A k \in DOMAIN portLookup[e] \cap DOMAIN portLookup'[e] :
                       portLookup'[e][k] = portLookup[e][k]
<1>1. [AllocNext]_allocVars => [Keep]_allocVars
  <2> SUFFICES ASSUME AllocNext PROVE Keep
    OBVIOUS
  <2>1. ASSUME NEW e \in EndpointKeys, NEW K \in SUBSET PortKeys, AllocatePorts(e, K)
        PROVE  Keep
    BY <2>1 DEF AllocatePorts, SetEntry, KeysToDraw, Entry
  <2>2. ASSUME NEW e \in EndpointKeys, NEW K \in SUBSET PortKeys, AllocatePortsSpins(e, K)
        PROVE  Keep
    BY <2>2 DEF AllocatePortsSpins, SetEntry, Entry
  <2>3. ASSUME NEW e \in EndpointKeys, NEW K \in SUBSET PortKeys, DeallocatePorts(e, K)
        PROVE  Keep
    BY <2>3 DEF DeallocatePorts, SetEntry
  <2>4. ASSUME NEW E \in SUBSET EndpointKeys, DeallocateEndpoints(E)
        PROVE  Keep
    BY <2>4 DEF DeallocateEndpoints
  <2> QED
    BY <2>1, <2>2, <2>3, <2>4 DEF AllocNext
<1> QED
  BY <1>1, PTL DEF AllocSpec, KnownKeysKeepTheirPort

\* A port AllocatePorts adds to an endpoint is none that the endpoint already has:
\* equal ports within an endpoint were drawn together.
THEOREM EqualPortsDrawnTogether == AllocSpec => SharedOnlyIfDrawnTogether
<1> DEFINE Known(e) == DOMAIN Entry(portLookup, e)
           Together == \A e \in DOMAIN portLookup' : \A j, k \in DOMAIN portLookup'[e] :
                         portLookup'[e][j] = portLookup'[e][k] => (j \in Known(e) <=> k \in Known(e))
<1>1. ASSUME AllocInv, [AllocNext]_allocVars
      PROVE  [Together]_allocVars
  <2> SUFFICES ASSUME AllocNext PROVE Together
    BY <1>1
  <2>1. ASSUME NEW e \in EndpointKeys, NEW K \in SUBSET PortKeys, AllocatePorts(e, K)
        PROVE  Together
    <3>1. PICK drawn \in [KeysToDraw(e, K) -> allocatePort] :
            SetEntry(e, [k \in K |-> IF k \in DOMAIN drawn THEN drawn[k]
                                     ELSE Entry(portLookup, e)[k]])
      BY <2>1 DEF AllocatePorts
    <3>2. ASSUME NEW k \in K
          PROVE  IF k \in Known(e) THEN portLookup'[e][k] \in portLookupReverse
                                   ELSE portLookup'[e][k] \notin portLookupReverse
      <4>1. CASE k \in Known(e)
        <5>1. portLookup'[e][k] \in PortsOf(portLookup, e)
          BY <3>1, <4>1 DEF SetEntry, KeysToDraw, PortsOf
        <5> QED BY <1>1, <4>1, <5>1, PortsOfTaken DEF AllocInv, ReverseExact
      <4>2. CASE k \notin Known(e)
        BY <3>1, <4>2 DEF SetEntry, KeysToDraw, allocatePort
      <4> QED BY <4>1, <4>2
    <3>3. DOMAIN portLookup'[e] = K
      BY <3>1 DEF SetEntry
    <3>4. ASSUME NEW f \in DOMAIN portLookup', f # e
          PROVE  DOMAIN portLookup'[f] = Known(f)
      BY <3>1, <3>4 DEF SetEntry, Entry
    <3> HIDE DEF Known
    <3> QED BY <3>2, <3>3, <3>4
  <2>2. ASSUME NEW e \in EndpointKeys, NEW K \in SUBSET PortKeys, AllocatePortsSpins(e, K)
        PROVE  Together
    BY <2>2 DEF AllocatePortsSpins, SetEntry, Entry
  <2>3. ASSUME NEW e \in EndpointKeys, NEW K \in SUBSET PortKeys, DeallocatePorts(e, K)
        PROVE  Together
    BY <2>3 DEF DeallocatePorts, SetEntry, Entry
  <2>4. ASSUME NEW E \in SUBSET EndpointKeys, DeallocateEndpoints(E)
        PROVE  Together
    BY <2>4 DEF DeallocateEndpoints, Entry
  <2> QED BY <2>1, <2>2, <2>3, <2>4 DEF AllocNext
<1>2. AllocInv <=> AllocTypeOK /\ ReverseExact
  BY DEF AllocInv
<1> QED BY <1>1, <1>2, AllocInvariant, PTL DEF AllocSpec, SharedOnlyIfDrawnTogether

-----------------------------------------------------------------------------
(* Refinement: the lease view of the table.                                *)

Held == [e \in EndpointKeys |-> PortsOf(portLookup, e)]

\* What an allocation does to the ports of every endpoint: e ends with ports it
\* had or ports nobody had, the others are untouched.
LEMMA AllocatePortsLease ==
  ASSUME AllocInv, NEW e \in EndpointKeys, NEW K \in SUBSET PortKeys,
         AllocatePorts(e, K)
  PROVE  /\ PortsOf(portLookup', e)
              \subseteq PortsOf(portLookup, e) \cup (Ports \ TakenPorts(portLookup))
         /\ \A f : f # e => PortsOf(portLookup', f) = PortsOf(portLookup, f)
<1>1. PICK drawn \in [KeysToDraw(e, K) -> allocatePort] :
        SetEntry(e, [k \in K |-> IF k \in DOMAIN drawn THEN drawn[k]
                                 ELSE Entry(portLookup, e)[k]])
  BY DEF AllocatePorts
<1>2. \A k \in DOMAIN drawn : drawn[k] \in Ports \ TakenPorts(portLookup)
  BY DEF allocatePort, AllocInv, ReverseExact
<1>3. \A k \in K : k \in DOMAIN drawn \/ k \in DOMAIN Entry(portLookup, e)
  BY DEF KeysToDraw
<1>4. PortsOf(portLookup', e)
        = {IF k \in DOMAIN drawn THEN drawn[k] ELSE Entry(portLookup, e)[k] : k \in K}
  BY <1>1 DEF SetEntry, PortsOf, Entry
<1>5. PortsOf(portLookup', e)
        \subseteq PortsOf(portLookup, e) \cup (Ports \ TakenPorts(portLookup))
  BY <1>2, <1>3, <1>4 DEF PortsOf
<1>6. ASSUME NEW f, f # e
      PROVE  PortsOf(portLookup', f) = PortsOf(portLookup, f)
  BY <1>1, <1>6, Zenon DEF SetEntry, PortsOf, Entry
<1> QED
  BY <1>5, <1>6

\* DeallocatePorts can only take ports from e.
LEMMA DeallocatePortsLease ==
  ASSUME NEW e \in EndpointKeys, NEW K, DeallocatePorts(e, K)
  PROVE  /\ PortsOf(portLookup', e) \subseteq PortsOf(portLookup, e)
         /\ \A f : f # e => PortsOf(portLookup', f) = PortsOf(portLookup, f)
BY DEF DeallocatePorts, SetEntry, PortsOf, Entry

\* DeallocateEndpoints takes every port from the endpoints of E.
LEMMA DeallocateEndpointsLease ==
  ASSUME NEW E, DeallocateEndpoints(E)
  PROVE  \A f : PortsOf(portLookup', f) = IF f \in E THEN {} ELSE PortsOf(portLookup, f)
BY DEF DeallocateEndpoints, PortsOf, Entry, EmptyMap

\* The union of the leases is the set of taken ports.
LEMMA LeasedIsTaken ==
  ASSUME AllocInv
  PROVE  Lease!Leased = TakenPorts(portLookup)
<1>1. DOMAIN portLookup \subseteq EndpointKeys
  BY DEF AllocInv, AllocTypeOK, LookupTables
<1>2. \A e \in EndpointKeys : PortsOf(portLookup, e) \subseteq TakenPorts(portLookup)
  BY PortsOfTaken
<1> QED
  BY <1>1, <1>2 DEF Lease!Leased, TakenPorts

\* The allocator implements the lease discipline: every operation of
\* allocator.go is a Relet, a Return or invisible.
THEOREM AllocatorImplementsLease == AllocSpec => LeaseSpec
<1>1. AllocInit => Lease!Init
  BY DEF AllocInit, Lease!Init, PortsOf, Entry, EmptyMap
<1>2. AllocInv /\ [AllocNext]_allocVars => [Lease!Next]_Held
  <2> SUFFICES ASSUME AllocInv, [AllocNext]_allocVars PROVE [Lease!Next]_Held
    OBVIOUS
  <2>1. ASSUME NEW e \in EndpointKeys,
               PortsOf(portLookup', e)
                 \subseteq PortsOf(portLookup, e) \cup (Ports \ TakenPorts(portLookup)),
               \A f : f # e => PortsOf(portLookup', f) = PortsOf(portLookup, f)
        PROVE  Lease!Relet(e)
    <3>1. PortsOf(portLookup', e) \in SUBSET (Held[e] \cup (Ports \ Lease!Leased))
      BY <2>1, LeasedIsTaken DEF Held
    <3>2. Held' = [Held EXCEPT ![e] = PortsOf(portLookup', e)]
      BY <2>1, Zenon DEF Held
    <3> QED
      BY <3>1, <3>2, Zenon DEF Lease!Relet, Held
  <2>2. ASSUME NEW e \in EndpointKeys, NEW K \in SUBSET PortKeys, AllocatePorts(e, K)
        PROVE  Lease!Next
    BY <2>1, <2>2, AllocatePortsLease DEF Lease!Next
  <2>3. ASSUME NEW e \in EndpointKeys, NEW K \in SUBSET PortKeys, AllocatePortsSpins(e, K)
        PROVE  UNCHANGED Held
    BY <2>3, SpinKeepsPorts DEF Held
  <2>4. ASSUME NEW e \in EndpointKeys, NEW K \in SUBSET PortKeys, DeallocatePorts(e, K)
        PROVE  Lease!Next
    BY <2>1, <2>4, DeallocatePortsLease DEF Lease!Next
  <2>5. ASSUME NEW E \in SUBSET EndpointKeys, DeallocateEndpoints(E)
        PROVE  Lease!Next
    <3>1. Lease!Return(E)
      BY <2>5, DeallocateEndpointsLease DEF Lease!Return
    <3> QED
      BY <3>1 DEF Lease!Next
  <2>6. CASE UNCHANGED allocVars
    BY <2>6 DEF allocVars, Held
  <2> QED
    BY <2>2, <2>3, <2>4, <2>5, <2>6 DEF AllocNext
<1>3. AllocInv <=> AllocTypeOK /\ ReverseExact
  BY DEF AllocInv
<1> QED
  BY <1>1, <1>2, <1>3, AllocInvariant, PTL DEF AllocSpec, LeaseSpec, Lease!Spec, Held

\* A port that is leased stays with one endpoint: no sequence of leases and
\* returns gives one port to two endpoints.
THEOREM LeaseExclusive == LeaseSpec => [](Lease!TypeOK /\ Lease!Exclusive)
<1>1. /\ Lease!Leased = UNION {Held[e] : e \in EndpointKeys}
      /\ Lease!TypeOK <=> Held \in [EndpointKeys -> SUBSET Ports]
      /\ Lease!Exclusive <=>
           \A e, f \in EndpointKeys : e # f => Held[e] \cap Held[f] = {}
  BY DEF Held, Lease!Leased, Lease!TypeOK, Lease!Exclusive
<1>2. /\ Lease!TypeOK' <=> Held' \in [EndpointKeys -> SUBSET Ports]
      /\ Lease!Exclusive' <=>
           \A e, f \in EndpointKeys : e # f => Held'[e] \cap Held'[f] = {}
  BY DEF Held, Lease!TypeOK, Lease!Exclusive
<1>3. Lease!Init => Lease!TypeOK /\ Lease!Exclusive
  <2> SUFFICES ASSUME Held = [e \in EndpointKeys |-> {}]
               PROVE  Lease!TypeOK /\ Lease!Exclusive
    BY DEF Lease!Init, Held
  <2> QED BY <1>1
<1>4. Lease!TypeOK /\ Lease!Exclusive /\ [Lease!Next]_Held
        => (Lease!TypeOK /\ Lease!Exclusive)'
  <2> SUFFICES ASSUME Lease!TypeOK, Lease!Exclusive, [Lease!Next]_Held
               PROVE  Lease!TypeOK' /\ Lease!Exclusive'
    OBVIOUS
  <2>1. ASSUME NEW e \in EndpointKeys, Lease!Relet(e)
        PROVE  Lease!TypeOK' /\ Lease!Exclusive'
    <3>1. PICK P \in SUBSET (Held[e] \cup (Ports \ Lease!Leased)) :
            Held' = [Held EXCEPT ![e] = P]
      BY <2>1, Zenon DEF Lease!Relet, Held
    <3>2. Lease!TypeOK'
      BY <1>1, <1>2, <3>1
    <3>3. ASSUME NEW f \in EndpointKeys, f # e
          PROVE  P \cap Held[f] = {}
      <4>1. Held[f] \subseteq Lease!Leased
        BY <1>1
      <4>2. Held[e] \cap Held[f] = {}
        BY <1>1, <3>3
      <4> QED
        BY <4>1, <4>2
    <3>4. Lease!Exclusive'
      BY <1>1, <1>2, <3>1, <3>3
    <3> QED
      BY <3>2, <3>4
  <2>2. ASSUME NEW E \in SUBSET EndpointKeys, Lease!Return(E)
        PROVE  Lease!TypeOK' /\ Lease!Exclusive'
    <3>1. Held' = [e \in EndpointKeys |-> IF e \in E THEN {} ELSE Held[e]]
      BY <2>2 DEF Lease!Return, Held
    <3> QED
      BY <1>1, <1>2, <3>1
  <2>3. CASE UNCHANGED Held
    BY <1>1, <1>2, <2>3
  <2> QED
    BY <2>1, <2>2, <2>3 DEF Lease!Next
<1> QED
  BY <1>3, <1>4, PTL DEF LeaseSpec, Lease!Spec, Held

\* No reachable table gives one port to two endpoints.
THEOREM EndpointsNeverShare == AllocSpec => []NoSharedPort
<1>1. AllocInv /\ Lease!Exclusive => NoSharedPort
  <2> SUFFICES ASSUME AllocInv, Lease!Exclusive PROVE NoSharedPort
    OBVIOUS
  <2>1. DOMAIN portLookup \subseteq EndpointKeys
    BY DEF AllocInv, AllocTypeOK, LookupTables
  <2> QED
    BY <2>1 DEF Lease!Exclusive, NoSharedPort
<1>2. AllocInv <=> AllocTypeOK /\ ReverseExact
  BY DEF AllocInv
<1> QED
  BY <1>1, <1>2, AllocInvariant, AllocatorImplementsLease, LeaseExclusive, PTL

-----------------------------------------------------------------------------
(* The Route reconciler: types.                                            *)

\* Service s of Route r has a port in the table.
HasPort(s, r) == PortKey \in DOMAIN Entry(portLookup, endpointKey(s, r))

ClusterTypes ==
  /\ route \in [Routes -> Objects \cup {Absent, Gone}]
  /\ svc \in [Generated -> Ports \cup {Absent}]
  /\ l7 \in [Routes -> Resources \cup {Absent}]
  /\ disabled \in BOOLEAN

CacheTypes ==
  /\ cRoute \in [Routes -> Objects \cup {Absent, Gone}]
  /\ cSvc \in [Generated -> Ports \cup {Absent}]
  /\ cL7 \in [Routes -> Resources \cup {Absent}]
  /\ eRoute \in [Routes -> SUBSET Svcs]

BusySteps == {"orphans", "allocate", "apply", "route", "cleanup", "unfinal"}

\* The worker has a Route in hand unless it is idle, and what is left of a loop is
\* part of what the loop goes over.
WorkerTypes ==
  /\ rq \in Seq(Routes) /\ pc \in BusySteps \cup {"idle"}
  /\ pc = "idle" => cur = Absent /\ obj = Absent /\ todo = {}
  /\ pc # "idle" => cur \in Routes /\ obj \in Objects
  /\ pc \in {"orphans", "cleanup"} => todo \subseteq StatusKeys
  /\ pc = "allocate" => todo \subseteq obj.services
  /\ pc = "apply" => todo \subseteq obj.services \X Parts
  /\ pc \in {"route", "unfinal"} => todo = {}

\* From the allocation on, the Services that are done have a port: nobody else takes
\* it from the table before the worker has applied them.
PortsReady ==
  /\ pc = "allocate" => \A s \in obj.services \ todo : HasPort(s, cur)
  /\ pc = "apply" => \A s \in obj.services : HasPort(s, cur)

TypeInv ==
  /\ AllocInv /\ topology \in {"shared", "global"}
  /\ ClusterTypes /\ CacheTypes /\ WorkerTypes /\ PortsReady

-----------------------------------------------------------------------------
(* The queue.                                                              *)

\* A list of the elements of a set of Routes.
LEMMA InOrderType ==
  ASSUME NEW R \in SUBSET Routes, NEW s \in InOrder(R)
  PROVE  s \in Seq(Routes)
<1>1. Cardinality(R) \in Nat /\ s \in [1..Cardinality(R) -> R]
  BY RoutesAssumption DEF InOrder, Injection
<1> QED BY <1>1

\* A queue with Routes added.
LEMMA EnqueuedType ==
  ASSUME NEW q \in Seq(Routes), NEW R \in SUBSET Routes, NEW s \in Enqueued(q, R)
  PROVE  s \in Seq(Routes)
<1>1. PICK o \in InOrder(R \ Range(q)) : s = q \o o
  BY Zenon DEF Enqueued
<1>2. o \in Seq(Routes)
  BY InOrderType
<1> QED BY <1>1, <1>2

\* Generated Services have different keys, and a key names a generated Service.
LEMMA KeysOfServices ==
  /\ \A g \in Generated : StatusKey(g) \in StatusKeys /\ StatusKey(g)[1] = g[1]
  /\ \A g, h \in Generated : StatusKey(g) = StatusKey(h) => g = h
  /\ \A k \in StatusKeys : GeneratedName(k) \in Generated
BY DEF Generated, StatusKeys, StatusKey, GeneratedName

\* A status maps keys to ports.
LEMMA StatusIs ==
  ASSUME NEW m \in Statuses
  PROVE  DOMAIN m \subseteq StatusKeys /\ m \in [DOMAIN m -> Ports]
BY DEF Statuses

\* ... and any such map is one.
LEMMA StatusOf ==
  ASSUME NEW D \in SUBSET StatusKeys, NEW m \in [D -> Ports]
  PROVE  m \in Statuses
BY DEF Statuses

\* An entry less and an entry more give a status again.
LEMMA StatusUpdates ==
  ASSUME NEW m \in Statuses, NEW g \in StatusKeys, NEW p \in Ports
  PROVE  Without(m, g) \in Statuses /\ With(m, g, p) \in Statuses
<1>1. Without(m, g) \in [DOMAIN m \ {g} -> Ports]
  BY StatusIs DEF Without
<1>2. With(m, g, p) \in [DOMAIN m \cup {g} -> Ports]
  BY StatusIs DEF With
<1> QED BY <1>1, <1>2, StatusIs, StatusOf

\* A patch of one status with the difference of two others gives a status.
LEMMA PatchType ==
  ASSUME NEW a \in Statuses, NEW b \in Statuses, NEW c \in Statuses
  PROVE  MergePatch(a, b, c) \in Statuses
<1> DEFINE dropped == DOMAIN b \ DOMAIN c
           changed == {g \in DOMAIN c : g \in DOMAIN b => b[g] # c[g]}
           D == (DOMAIN a \ dropped) \cup changed
<1>1. D \subseteq StatusKeys
  BY StatusIs
<1>2. MergePatch(a, b, c) \in [D -> Ports]
  BY StatusIs DEF MergePatch
<1> QED BY <1>1, <1>2, StatusOf

\* The fields of a Route.
LEMMA ObjectIs ==
  ASSUME NEW o \in Objects
  PROVE  /\ o.services \subseteq Svcs /\ o.status \in Statuses
         /\ o.fin \in BOOLEAN /\ o.deleting \in BOOLEAN
BY DEF Objects

\* A Route in which one field is replaced.
LEMMA ObjectUpdates ==
  ASSUME NEW o \in Objects
  PROVE  /\ [o EXCEPT !.fin = TRUE] \in Objects /\ [o EXCEPT !.fin = FALSE] \in Objects
         /\ [o EXCEPT !.deleting = TRUE] \in Objects
         /\ \A S \in SUBSET Svcs : [o EXCEPT !.services = S] \in Objects
         /\ \A m \in Statuses : [o EXCEPT !.status = m] \in Objects
BY Zenon DEF Objects

\* Objects are told from the marks of missing ones.
LEMMA ObjectsExist ==
  /\ \A o \in Objects : IsObject(o)
  /\ \A o \in Objects \cup {Absent, Gone} : IsObject(o) => o \in Objects
  /\ ~IsObject(Absent) /\ ~IsObject(Gone) /\ Absent # Gone
BY MarkersAssumption DEF IsObject

-----------------------------------------------------------------------------
(* The port table.                                                         *)

\* The keys of the table are the ones the reconcilers use.
LEMMA KeyTypes ==
  /\ \A s \in Svcs, r \in Routes : endpointKey(s, r) \in EndpointKeys
  /\ {PortKey} \in SUBSET PortKeys
  /\ \A s, t, q, r : endpointKey(s, r) = endpointKey(t, q) => s = t /\ r = q
BY KeysAssumption DEF endpointKey

\* The port of a Service that has one is a port of the range.
LEMMA TargetType ==
  ASSUME AllocInv, NEW s, NEW r, HasPort(s, r)
  PROVE  Target(s, r) \in Ports /\ Target(s, r) = Entry(portLookup, endpointKey(s, r))[PortKey]
<1> DEFINE e == endpointKey(s, r)
<1>1. e \in DOMAIN portLookup /\ PortKey \in DOMAIN Entry(portLookup, e)
  BY DEF HasPort, Entry, EmptyMap
<1>2. Target(s, r) = Entry(portLookup, e)[PortKey]
  BY <1>1 DEF Target, Lookup, Entry
<1>3. Entry(portLookup, e)[PortKey] \in Ports
  BY <1>1, EntryType DEF AllocInv, AllocTypeOK
<1> QED BY <1>2, <1>3

\* An allocation gives the Service a port and leaves the ports there are.
LEMMA AllocateServes ==
  ASSUME AllocInv, NEW s \in Svcs, NEW r \in Routes,
         AllocatePorts(endpointKey(s, r), {PortKey})
  PROVE  /\ AllocInv' /\ HasPort(s, r)'
         /\ \A t, q : HasPort(t, q) => HasPort(t, q)' /\ Target(t, q)' = Target(t, q)
<1> DEFINE e == endpointKey(s, r)
<1>1. AllocInv'
  BY AllocatePortsInv, KeyTypes
<1>2. PICK drawn \in [KeysToDraw(e, {PortKey}) -> allocatePort] :
        SetEntry(e, [k \in {PortKey} |-> IF k \in DOMAIN drawn THEN drawn[k]
                                         ELSE Entry(portLookup, e)[k]])
  BY DEF AllocatePorts
<1>3. /\ DOMAIN Entry(portLookup', e) = {PortKey}
      /\ PortKey \in DOMAIN Entry(portLookup, e) =>
           Entry(portLookup', e)[PortKey] = Entry(portLookup, e)[PortKey]
      /\ \A f : f # e => Entry(portLookup', f) = Entry(portLookup, f)
  BY <1>2 DEF SetEntry, Entry, KeysToDraw
<1>4. \A t, q : HasPort(t, q)' <=> PortKey \in DOMAIN Entry(portLookup', endpointKey(t, q))
  BY DEF HasPort, endpointKey
<1>5. HasPort(s, r)'
  BY <1>3, <1>4
<1>6. ASSUME NEW t, NEW q, HasPort(t, q)
      PROVE  HasPort(t, q)' /\ Target(t, q)' = Target(t, q)
  <2> DEFINE f == endpointKey(t, q)
  <2>1. PortKey \in DOMAIN Entry(portLookup, f)
    BY <1>6 DEF HasPort
  <2>2. PortKey \in DOMAIN Entry(portLookup', f)
        /\ Entry(portLookup', f)[PortKey] = Entry(portLookup, f)[PortKey]
    BY <1>3, <2>1
  <2>3. HasPort(t, q)'
    BY <1>4, <2>2
  <2>4. Target(t, q) = Entry(portLookup, f)[PortKey]
    BY <2>1 DEF Target, Lookup, Entry, EmptyMap
  <2>5. Target(t, q)' = Entry(portLookup', f)[PortKey]
    BY <2>2 DEF Target, Lookup, Entry, EmptyMap, endpointKey
  <2> QED BY <2>2, <2>3, <2>4, <2>5
<1> QED BY <1>1, <1>5, <1>6

\* A deallocation leaves the ports of the other Routes.
LEMMA DeallocateLeaves ==
  ASSUME AllocInv, NEW r, NEW S, DeallocateEndpoints({endpointKey(s, r) : s \in S})
  PROVE  /\ AllocInv'
         /\ \A t, q : q # r /\ HasPort(t, q) =>
              HasPort(t, q)' /\ Target(t, q)' = Target(t, q)
<1>1. AllocInv'
  BY DeallocateEndpointsInv
<1>2. ASSUME NEW t, NEW q, q # r, HasPort(t, q)
      PROVE  HasPort(t, q)' /\ Target(t, q)' = Target(t, q)
  <2> DEFINE f == endpointKey(t, q)
  <2>1. f \notin {endpointKey(s, r) : s \in S}
    BY <1>2, KeyTypes
  <2>2. Entry(portLookup', f) = Entry(portLookup, f)
    BY <2>1 DEF DeallocateEndpoints, Entry
  <2>3. PortKey \in DOMAIN Entry(portLookup, f)
    BY <1>2 DEF HasPort
  <2>4. HasPort(t, q)'
    BY <2>2, <2>3 DEF HasPort, endpointKey
  <2>5. Target(t, q) = Entry(portLookup, f)[PortKey]
    BY <2>3 DEF Target, Lookup, Entry, EmptyMap
  <2>6. Target(t, q)' = Entry(portLookup', f)[PortKey]
    BY <2>2, <2>3 DEF Target, Lookup, Entry, EmptyMap, endpointKey
  <2> QED BY <2>2, <2>4, <2>5, <2>6
<1> QED BY <1>1, <1>2

\* A restart fills the table with the recorded port of each Service.
LEMMA LoadServes ==
  ASSUME AllocInv, ClusterTypes, LoadState, recomputeAvailablePorts, UNCHANGED mu
  PROVE  /\ AllocInv'
         /\ \A r \in Routes : IsObject(route[r]) =>
              \A s \in route[r].services : <<s, "service">> \in DOMAIN route[r].status =>
                HasPort(s, r)' /\ Target(s, r)' = route[r].status[<<s, "service">>]
<1> DEFINE E == {x \in EndpointKeys : IsObject(route[x[2]]) /\ x[1] \in route[x[2]].services}
           recorded(e) == <<e[1], "service">>
           loaded(e) == [k \in {p \in PortKeys : recorded(e) \in DOMAIN route[e[2]].status} |->
                           route[e[2]].status[recorded(e)]]
<1>1. portLookup' = [e \in E |-> loaded(e)]
  BY DEF LoadState
<1>2. ASSUME NEW e \in E
      PROVE  /\ route[e[2]].status \in Statuses /\ loaded(e) \in PortMaps
  <2>1. e[2] \in Routes
    BY KeysAssumption
  <2>2. route[e[2]] \in Objects
    BY <2>1, ObjectsExist DEF ClusterTypes
  <2>3. route[e[2]].status \in Statuses
    BY <2>2, ObjectIs
  <2>4. recorded(e) \in DOMAIN route[e[2]].status => route[e[2]].status[recorded(e)] \in Ports
    BY <2>3, StatusIs
  <2>5. loaded(e) \in [{p \in PortKeys : recorded(e) \in DOMAIN route[e[2]].status} -> Ports]
    BY <2>4
  <2> QED BY <2>3, <2>5, Zenon DEF PortMaps
<1>3. portLookup' \in LookupTables
  <2> HIDE DEF loaded, E
  <2>1. portLookup' \in [E -> PortMaps]
    BY <1>1, <1>2
  <2>2. E \subseteq EndpointKeys
    BY DEF E
  <2> QED BY <2>1, <2>2 DEF LookupTables
<1>4. AllocInv'
  BY <1>3, TakenType DEF AllocInv, AllocTypeOK, ReverseExact, recomputeAvailablePorts
<1>5. ASSUME NEW r \in Routes, IsObject(route[r]), NEW s \in route[r].services,
             <<s, "service">> \in DOMAIN route[r].status
      PROVE  HasPort(s, r)' /\ Target(s, r)' = route[r].status[<<s, "service">>]
  <2>1. s \in Svcs
    BY <1>5, ObjectsExist, ObjectIs DEF ClusterTypes
  <2>2. <<s, r>> \in E
    BY <1>5, <2>1, KeysAssumption
  <2>3. PortKey \in DOMAIN loaded(<<s, r>>)
        /\ loaded(<<s, r>>)[PortKey] = route[r].status[<<s, "service">>]
    BY <1>5, KeysAssumption
  <2> HIDE DEF loaded, E
  <2>4. portLookup'[<<s, r>>] = loaded(<<s, r>>) /\ <<s, r>> \in DOMAIN portLookup'
    BY <1>1, <2>2
  <2> QED BY <2>3, <2>4 DEF HasPort, Target, Lookup, Entry, endpointKey
<1> QED BY <1>4, <1>5
-----------------------------------------------------------------------------
(* Types.  A step that leaves table and worker alone need only keep the    *)
(* types of the objects, of the caches and of the queue.                   *)

\* What is left after a step that leaves table and worker alone.
LEMMA WorkerRests ==
  ASSUME TypeInv, UNCHANGED <<allocVars, topology, pc, cur, obj, todo>>,
         ClusterTypes', CacheTypes', rq' \in Seq(Routes)
  PROVE  TypeInv'
<1>1. AllocInv'
  BY DEF TypeInv, AllocInv, AllocTypeOK, ReverseExact, TakenPorts, PortsOf, Entry, allocVars
<1>2. WorkerTypes'
  BY DEF TypeInv, WorkerTypes, Parts
<1>3. PortsReady'
  BY DEF TypeInv, PortsReady, HasPort, Entry, allocVars
<1> QED BY <1>1, <1>2, <1>3 DEF TypeInv

\* The CCM and administrators.
LEMMA EnvironmentTypes ==
  ASSUME TypeInv, UNCHANGED topology, Environment, ~Restart
  PROVE  TypeInv'
<1>0. ClusterTypes /\ CacheTypes /\ rq \in Seq(Routes)
  BY DEF TypeInv, WorkerTypes
<1>1. ASSUME NEW r \in Routes, CreateRoute(r) PROVE TypeInv'
  <2>1. PICK S \in SUBSET Svcs :
          route' = [route EXCEPT ![r] = [services |-> S, status |-> [g \in {} |-> NoPort],
                                         fin |-> FALSE, deleting |-> FALSE]]
    BY <1>1, Zenon DEF CreateRoute
  <2>2. [g \in {} |-> NoPort] \in Statuses
    <3>1. [g \in {} |-> NoPort] \in [{} -> Ports]
      OBVIOUS
    <3> QED BY <3>1, StatusOf, Zenon
  <2>3. [services |-> S, status |-> [g \in {} |-> NoPort], fin |-> FALSE, deleting |-> FALSE]
          \in Objects
    BY <2>2 DEF Objects
  <2>4. ClusterTypes'
    BY <1>0, <1>1, <2>1, <2>3, Zenon DEF ClusterTypes, CreateRoute
  <2> QED BY <1>0, <1>1, <2>4, WorkerRests DEF CreateRoute, caches, worker, CacheTypes
<1>2. ASSUME NEW r \in Routes, UpdateRoute(r) PROVE TypeInv'
  <2>1. route[r] \in Objects
    BY <1>0, <1>2, ObjectsExist DEF UpdateRoute, Live, ClusterTypes
  <2>2. PICK S \in SUBSET Svcs : route' = [route EXCEPT ![r].services = S]
    BY <1>2, Zenon DEF UpdateRoute
  <2>3. route' = [route EXCEPT ![r] = [route[r] EXCEPT !.services = S]]
    BY <2>2
  <2>4. [route[r] EXCEPT !.services = S] \in Objects
    BY <2>1, ObjectUpdates, Zenon
  <2>5. ClusterTypes'
    BY <1>0, <1>2, <2>3, <2>4 DEF ClusterTypes, UpdateRoute
  <2> QED BY <1>0, <1>2, <2>5, WorkerRests DEF UpdateRoute, caches, worker, CacheTypes
<1>3. ASSUME NEW r \in Routes, DeleteRoute(r) PROVE TypeInv'
  <2>1. route[r] \in Objects
    BY <1>0, <1>3, ObjectsExist DEF DeleteRoute, Live, ClusterTypes
  <2>2. [route[r] EXCEPT !.deleting = TRUE] \in Objects
    BY <2>1, ObjectUpdates, Zenon
  <2>3. PICK o \in Objects \cup {Absent, Gone} : route' = [route EXCEPT ![r] = o]
    BY <1>3, <2>2, Zenon DEF DeleteRoute
  <2>4. ClusterTypes'
    BY <1>0, <1>3, <2>3, Zenon DEF ClusterTypes, DeleteRoute
  <2> QED BY <1>0, <1>3, <2>4, WorkerRests DEF DeleteRoute, caches, worker, CacheTypes
<1>4. CASE ToggleDisable
  <2>1. ClusterTypes'
    BY <1>0, <1>4 DEF ClusterTypes, ToggleDisable
  <2>2. rq' \in Seq(Routes)
    BY <1>0, <1>4, EnqueuedType DEF ToggleDisable, CachedRoutes
  <2> QED BY <1>0, <1>4, <2>1, <2>2, WorkerRests DEF ToggleDisable, caches, worker, CacheTypes
<1> QED BY <1>1, <1>2, <1>3, <1>4 DEF Environment

\* Informers and the garbage collector.
LEMMA InformerTypes ==
  ASSUME TypeInv, UNCHANGED topology, Informers
  PROVE  TypeInv'
<1>0. ClusterTypes /\ CacheTypes /\ rq \in Seq(Routes)
  BY DEF TypeInv, WorkerTypes
<1>1. CASE Resync
  <2>1. rq' \in Seq(Routes)
    BY <1>0, <1>1, EnqueuedType DEF Resync, CachedRoutes
  <2> QED BY <1>0, <1>1, <2>1, WorkerRests DEF Resync, caches, worker, CacheTypes, ClusterTypes
<1>2. ASSUME NEW g \in Generated, SyncService(g) PROVE TypeInv'
  <2>1. CacheTypes'
    BY <1>0, <1>2 DEF SyncService, CacheTypes, ClusterTypes
  <2> QED BY <1>0, <1>2, <2>1, WorkerRests DEF SyncService, worker, ClusterTypes
<1>3. ASSUME NEW r \in Routes, SyncRoute(r) PROVE TypeInv'
  <2>1. CacheTypes'
    BY <1>0, <1>3 DEF SyncRoute, CacheTypes, ClusterTypes
  <2>2. rq' \in Seq(Routes)
    BY <1>0, <1>3, EnqueuedType DEF SyncRoute
  <2> QED BY <1>0, <1>3, <2>1, <2>2, WorkerRests DEF SyncRoute, worker, ClusterTypes
<1>4. ASSUME NEW r \in Routes, SyncResource(r) PROVE TypeInv'
  <2>1. CacheTypes'
    BY <1>0, <1>4, Zenon DEF SyncResource, CacheTypes, ClusterTypes
  <2>2. rq' \in Seq(Routes)
    BY <1>0, <1>4, EnqueuedType DEF SyncResource
  <2> QED BY <1>0, <1>4, <2>1, <2>2, WorkerRests DEF SyncResource, worker, ClusterTypes
<1>5. ASSUME NEW r \in Routes, SyncEnvoy(r) PROVE TypeInv'
  <2>1. Listed(r) \in SUBSET Svcs
    BY <1>0, ObjectsExist, ObjectIs DEF Listed, Live, ClusterTypes
  <2>2. CacheTypes'
    BY <1>0, <1>5, <2>1 DEF SyncEnvoy, CacheTypes
  <2> QED BY <1>0, <1>5, <2>2, WorkerRests DEF SyncEnvoy, worker, ClusterTypes
<1>6. ASSUME NEW r \in Routes, CollectGarbage(r) PROVE TypeInv'
  <2>1. ClusterTypes'
    BY <1>0, <1>6 DEF CollectGarbage, ClusterTypes
  <2> QED BY <1>0, <1>6, <2>1, WorkerRests DEF CollectGarbage, caches, worker, CacheTypes
<1> QED BY <1>1, <1>2, <1>3, <1>4, <1>5, <1>6 DEF Informers
\* The Envoy reconciler only adds ports.
LEMMA EnvoyTypes ==
  ASSUME TypeInv, UNCHANGED topology, NEW r \in Routes, NEW s \in Svcs, EnvoyAllocate(r, s)
  PROVE  TypeInv'
<1>1. AllocInv' /\ \A t, q : HasPort(t, q) => HasPort(t, q)'
  BY AllocateServes DEF EnvoyAllocate, TypeInv
<1>2. UNCHANGED <<route, svc, l7, disabled, caches, rq, worker>>
  BY DEF EnvoyAllocate
<1>3. ClusterTypes' /\ CacheTypes'
  BY <1>2 DEF TypeInv, ClusterTypes, CacheTypes, caches
<1>4. WorkerTypes'
  BY <1>2 DEF TypeInv, WorkerTypes, worker, Parts
<1>5. \A t : HasPort(t, cur)' <=> PortKey \in DOMAIN Entry(portLookup', endpointKey(t, cur))
  BY <1>2 DEF HasPort, endpointKey, worker
<1>6. \A t : HasPort(t, cur) => HasPort(t, cur)'
  <2> TAKE t
  <2>1. HasPort(t, cur) => PortKey \in DOMAIN Entry(portLookup', endpointKey(t, cur))
    <3>1. PICK q : q = cur
      OBVIOUS
    <3>2. HasPort(t, q) => PortKey \in DOMAIN Entry(portLookup', endpointKey(t, q))
      BY <1>1, ZenonT(30) DEF HasPort, endpointKey
    <3> QED BY <3>1, <3>2 DEF HasPort, endpointKey
  <2> QED BY <1>5, <2>1
<1>7. PortsReady'
  BY <1>2, <1>6 DEF TypeInv, PortsReady, worker
<1> QED BY <1>1, <1>3, <1>4, <1>7 DEF TypeInv

\* A restart loads the table and leaves the worker idle.
LEMMA RestartTypes ==
  ASSUME TypeInv, UNCHANGED topology, Restart
  PROVE  TypeInv'
<1>0. ClusterTypes
  BY DEF TypeInv
<1>1. AllocInv'
  BY LoadServes DEF TypeInv, Restart
<1>2. ClusterTypes'
  BY <1>0 DEF Restart, ClusterTypes
<1>3. \A r \in Routes : Listed(r) \in SUBSET Svcs
  BY <1>0, ObjectsExist, ObjectIs DEF Listed, Live, ClusterTypes
<1>4. CacheTypes'
  BY <1>0, <1>3 DEF Restart, CacheTypes, ClusterTypes
<1>5. rq' \in Seq(Routes)
  BY InOrderType DEF Restart
<1>6. pc' = "idle" /\ cur' = Absent /\ obj' = Absent /\ todo' = {}
  BY DEF Restart, Idle, Read
<1>7. WorkerTypes' /\ PortsReady'
  BY <1>5, <1>6 DEF WorkerTypes, PortsReady
<1> QED BY <1>1, <1>2, <1>4, <1>7 DEF TypeInv

\* A step of the worker that leaves table and caches alone.
LEMMA TableRests ==
  ASSUME TypeInv, UNCHANGED <<allocVars, caches, topology>>,
         ClusterTypes', WorkerTypes', PortsReady'
  PROVE  TypeInv'
<1>1. AllocInv'
  BY DEF TypeInv, AllocInv, AllocTypeOK, ReverseExact, TakenPorts, PortsOf, Entry, allocVars
<1>2. CacheTypes'
  BY DEF TypeInv, CacheTypes, caches
<1> QED BY <1>1, <1>2 DEF TypeInv

\* The worker drops its Route, for good or to try again.
LEMMA IdleTypes ==
  ASSUME TypeInv, pc # "idle", Done \/ Retry
  PROVE  WorkerTypes' /\ PortsReady'
<1>1. pc' = "idle" /\ cur' = Absent /\ obj' = Absent /\ todo' = {}
  BY DEF Done, Retry, Idle, Read
<1>2. rq' \in Seq(Routes)
  <2>1. CASE Done
    BY <2>1 DEF TypeInv, WorkerTypes, Done
  <2>2. CASE Retry
    BY <2>2, EnqueuedType DEF TypeInv, WorkerTypes, Retry
  <2> QED BY <2>1, <2>2
<1> QED BY <1>1, <1>2 DEF WorkerTypes, PortsReady

\* The first item of the queue is a Route.
LEMMA HeadType ==
  ASSUME TypeInv, rq # <<>>
  PROVE  Head(rq) \in Routes /\ Tail(rq) \in Seq(Routes)
BY DEF TypeInv, WorkerTypes

\* A reconciliation starts, or is skipped.
LEMMA StartTypes ==
  ASSUME TypeInv, UNCHANGED topology, Skip \/ Begin \/ CleanupBegin
  PROVE  TypeInv'
<1> DEFINE r == Head(rq)
           o == cRoute[r]
<1>0. /\ rq # <<>> /\ pc = "idle" /\ UNCHANGED <<allocVars, svc, l7, disabled, caches>>
  BY DEF Skip, Begin, CleanupBegin
<1>1. r \in Routes /\ Tail(rq) \in Seq(Routes)
  BY <1>0, HeadType
<1>2. IsObject(o) => o \in Objects
  BY <1>1, ObjectsExist DEF TypeInv, CacheTypes
<1>3. CASE Skip
  <2>1. UNCHANGED <<route, worker>> /\ rq' = Tail(rq)
    BY <1>3 DEF Skip
  <2>2. ClusterTypes' /\ CacheTypes'
    BY <1>0, <2>1 DEF TypeInv, ClusterTypes, CacheTypes, caches
  <2> QED BY <1>0, <1>1, <2>1, <2>2, WorkerRests DEF worker
<1>4. CASE Begin
  <2> DEFINE f == [o EXCEPT !.fin = TRUE]
  <2>1. o \in Objects /\ f \in Objects /\ NotDesired(o) \subseteq StatusKeys
    <3>1. o \in Objects
      BY <1>2, <1>4 DEF Begin, Live
    <3> QED BY <3>1, ObjectUpdates, ObjectIs, StatusIs, Zenon DEF NotDesired
  <2>2. CASE o.fin \/ route[r] = o
    <3>1. /\ route' = IF o.fin THEN route ELSE [route EXCEPT ![r] = f]
          /\ cur' = r /\ obj' = f /\ pc' = "orphans" /\ todo' = NotDesired(o) /\ rq' = Tail(rq)
      BY <1>4, <2>2 DEF Begin, Read
    <3> HIDE DEF f, r, o
    <3>2. ClusterTypes'
      BY <1>0, <1>1, <2>1, <3>1 DEF TypeInv, ClusterTypes
    <3>3. WorkerTypes' /\ PortsReady'
      BY <1>1, <2>1, <3>1 DEF WorkerTypes, PortsReady, BusySteps
    <3> QED BY <1>0, <3>2, <3>3, TableRests
  <2>3. CASE ~(o.fin \/ route[r] = o)
    <3>1. UNCHANGED <<route, worker>> /\ rq' \in Enqueued(Tail(rq), {r})
      BY <1>4, <2>3 DEF Begin
    <3>2. rq' \in Seq(Routes)
      BY <1>1, <3>1, EnqueuedType, Zenon
    <3>3. ClusterTypes' /\ CacheTypes'
      BY <1>0, <3>1 DEF TypeInv, ClusterTypes, CacheTypes, caches
    <3> QED BY <1>0, <3>1, <3>2, <3>3, WorkerRests DEF worker
  <2> QED BY <2>2, <2>3
<1>5. CASE CleanupBegin
  <2>1. /\ o \in Objects /\ route' = route
        /\ cur' = r /\ obj' = o /\ pc' = "cleanup" /\ todo' = DOMAIN o.status /\ rq' = Tail(rq)
    BY <1>2, <1>5 DEF CleanupBegin, Read
  <2>2. DOMAIN o.status \subseteq StatusKeys
    BY <2>1, ObjectIs, StatusIs
  <2> HIDE DEF r, o
  <2>3. ClusterTypes'
    BY <1>0, <2>1 DEF TypeInv, ClusterTypes
  <2>4. WorkerTypes' /\ PortsReady'
    BY <1>1, <2>1, <2>2 DEF WorkerTypes, PortsReady, BusySteps
  <2> QED BY <1>0, <2>3, <2>4, TableRests
<1> QED BY <1>3, <1>4, <1>5
\* Orphans are removed, and the loop over the Services starts.
LEMMA OrphansTypes ==
  ASSUME TypeInv, UNCHANGED topology, cleanupOrphanedServices \/ ManageServices
  PROVE  TypeInv'
<1>0. /\ pc = "orphans" /\ cur \in Routes /\ obj \in Objects /\ rq \in Seq(Routes)
      /\ todo \subseteq StatusKeys /\ UNCHANGED <<allocVars, route, l7, disabled, caches, rq, cur>>
  BY DEF TypeInv, WorkerTypes, cleanupOrphanedServices, ManageServices, Goto
<1>1. CASE cleanupOrphanedServices
  <2>1. PICK g \in todo :
          /\ IF BridgeInUse(g) THEN UNCHANGED <<svc, obj>>
             ELSE /\ svc' = [svc EXCEPT ![GeneratedName(g)] = Absent]
                  /\ obj' = [obj EXCEPT !.status = Without(@, g)]
          /\ pc' = "orphans" /\ todo' = todo \ {g}
    BY <1>1 DEF cleanupOrphanedServices, Goto
  <2>2. [obj EXCEPT !.status = Without(obj.status, g)] \in Objects
    <3>1. Without(obj.status, g) \in Statuses
      <4>1. Without(obj.status, g) \in [DOMAIN obj.status \ {g} -> Ports]
        BY <1>0, ObjectIs, StatusIs DEF Without
      <4> QED BY <1>0, <4>1, ObjectIs, StatusIs, StatusOf
    <3> QED BY <1>0, <3>1, ObjectUpdates, Zenon
  <2>3. obj' \in Objects
    <3>1. CASE BridgeInUse(g)
      BY <1>0, <2>1, <3>1
    <3>2. CASE ~BridgeInUse(g)
      BY <2>1, <2>2, <3>2
    <3> QED BY <3>1, <3>2
  <2>4. ClusterTypes'
    <3>1. GeneratedName(g) \in Generated
      BY <1>0, KeysOfServices
    <3> QED BY <1>0, <2>1, <3>1 DEF TypeInv, ClusterTypes
  <2>5. WorkerTypes' /\ PortsReady'
    BY <1>0, <2>1, <2>3 DEF WorkerTypes, PortsReady, BusySteps
  <2> QED BY <1>0, <2>4, <2>5, TableRests
<1>2. CASE ManageServices
  <2>1. pc' = "allocate" /\ todo' = obj.services /\ obj' = obj /\ svc' = svc
    BY <1>2 DEF ManageServices, Goto
  <2>2. ClusterTypes'
    BY <1>0, <2>1 DEF TypeInv, ClusterTypes
  <2>3. WorkerTypes' /\ PortsReady'
    BY <1>0, <2>1 DEF WorkerTypes, PortsReady, BusySteps
  <2> QED BY <1>0, <2>2, <2>3, TableRests
<1> QED BY <1>1, <1>2

\* Every Service of the Route gets a port.
LEMMA AllocateTypes ==
  ASSUME TypeInv, UNCHANGED topology, AllocatePortsForRoutes
  PROVE  TypeInv'
<1>0. /\ pc = "allocate" /\ cur \in Routes /\ obj \in Objects /\ rq \in Seq(Routes)
      /\ todo \subseteq obj.services
      /\ UNCHANGED <<route, svc, l7, disabled, caches, rq, obj, cur>>
  BY DEF TypeInv, WorkerTypes, AllocatePortsForRoutes, Goto
<1>1. ClusterTypes'
  BY <1>0 DEF TypeInv, ClusterTypes
<1>2. CASE todo = {}
  <2>1. pc' = "apply" /\ todo' = obj.services \X Parts /\ UNCHANGED allocVars
    BY <1>2 DEF AllocatePortsForRoutes, Goto
  <2>2. WorkerTypes'
    BY <1>0, <2>1, Zenon DEF WorkerTypes, BusySteps, Parts
  <2>3. PortsReady'
    BY <1>0, <1>2, <2>1 DEF TypeInv, PortsReady, HasPort, Entry, allocVars, endpointKey
  <2> QED BY <1>0, <1>1, <2>1, <2>2, <2>3, TableRests
<1>3. CASE todo # {}
  <2>1. PICK s \in todo : /\ AllocatePorts(endpointKey(s, cur), {PortKey})
                          /\ pc' = "allocate" /\ todo' = todo \ {s}
    BY <1>3 DEF AllocatePortsForRoutes, Goto
  <2>2. s \in Svcs
    BY <1>0, ObjectIs
  <2>3. /\ AllocInv' /\ PortKey \in DOMAIN Entry(portLookup', endpointKey(s, cur))
        /\ \A t : HasPort(t, cur) => PortKey \in DOMAIN Entry(portLookup', endpointKey(t, cur))
    BY <1>0, <2>1, <2>2, AllocateServes, Zenon DEF TypeInv, HasPort, endpointKey
  <2>4. WorkerTypes'
    BY <1>0, <2>1 DEF WorkerTypes, BusySteps
  <2>5. PortsReady'
    BY <1>0, <2>1, <2>3, Zenon DEF TypeInv, PortsReady, HasPort, endpointKey
  <2>6. CacheTypes'
    BY <1>0, Zenon DEF TypeInv, CacheTypes, caches
  <2> QED BY <1>1, <2>3, <2>4, <2>5, <2>6, Zenon DEF TypeInv
<1> QED BY <1>2, <1>3, Zenon

\* A Service is applied with the port the table has for it, and recorded.
LEMMA ApplyTypes ==
  ASSUME TypeInv, UNCHANGED topology, ApplyService
  PROVE  TypeInv'
<1>0. /\ pc = "apply" /\ cur \in Routes /\ obj \in Objects /\ rq \in Seq(Routes)
      /\ todo \subseteq obj.services \X Parts
      /\ UNCHANGED <<allocVars, route, l7, disabled, caches, rq, cur>>
  BY DEF TypeInv, WorkerTypes, ApplyService, Goto
<1>1. PICK g \in todo :
        /\ CreateOrUpdateService(g, Target(g[1], cur))
        /\ obj' = [obj EXCEPT !.status = With(obj.status, StatusKey(g), Target(g[1], cur))]
        /\ pc' = "apply" /\ todo' = todo \ {g}
  BY DEF ApplyService, Goto, updateServiceStatus
<1>2. g[1] \in obj.services /\ g \in Generated
  BY <1>0, ObjectIs DEF Generated, Parts
<1>3. Target(g[1], cur) \in Ports
  BY <1>0, <1>2, TargetType, Zenon DEF TypeInv, PortsReady
<1>4. With(obj.status, StatusKey(g), Target(g[1], cur)) \in Statuses
  BY <1>0, <1>2, <1>3, KeysOfServices, ObjectIs, StatusUpdates
<1>5. obj' \in Objects
  BY <1>0, <1>1, <1>4, ObjectUpdates, Zenon
<1>6. obj'.services = obj.services
  BY <1>0, <1>1 DEF Objects
<1>7. ClusterTypes'
  BY <1>0, <1>1, <1>2, <1>3 DEF TypeInv, ClusterTypes, CreateOrUpdateService
<1>8. WorkerTypes'
  BY <1>0, <1>1, <1>5, <1>6 DEF WorkerTypes, BusySteps, Parts
<1>9. PortsReady'
  BY <1>0, <1>1, <1>6 DEF TypeInv, PortsReady, HasPort, Entry, allocVars, endpointKey
<1> QED BY <1>0, <1>7, <1>8, <1>9, TableRests

\* The status is patched, and the resource generated.
LEMMA StatusTypes ==
  ASSUME TypeInv, UNCHANGED topology, UpdateRouteStatus \/ manageRoutes
  PROVE  TypeInv'
<1>0. /\ pc \in {"apply", "route"} /\ cur \in Routes /\ obj \in Objects /\ rq \in Seq(Routes)
      /\ UNCHANGED <<allocVars, svc, disabled, caches>>
  BY DEF TypeInv, WorkerTypes, UpdateRouteStatus, manageRoutes
<1>1. CASE UpdateRouteStatus
  <2> DEFINE status == MergePatch(route[cur].status, cRoute[cur].status, obj.status)
             n == [route[cur] EXCEPT !.status = status]
  <2>0. l7' = l7
    BY <1>1 DEF UpdateRouteStatus
  <2>1. CASE IsObject(cRoute[cur]) /\ IsObject(route[cur])
    <3>1. route[cur] \in Objects /\ cRoute[cur] \in Objects
      BY <1>0, <2>1, ObjectsExist DEF TypeInv, ClusterTypes, CacheTypes
    <3>2. status \in Statuses
      BY <1>0, <3>1, ObjectIs, PatchType, Zenon
    <3>3. n \in Objects
      BY <3>1, <3>2, ObjectUpdates, Zenon
    <3>4. /\ route' = [route EXCEPT ![cur] = n] /\ obj' = route'[cur]
          /\ pc' = "route" /\ todo' = {} /\ cur' = cur /\ rq' = rq
      BY <1>1, <2>1, Zenon DEF UpdateRouteStatus, Goto
    <3> HIDE DEF n
    <3>5. obj' = n
      BY <1>0, <3>4 DEF TypeInv, ClusterTypes
    <3>6. ClusterTypes'
      BY <1>0, <2>0, <3>3, <3>4 DEF TypeInv, ClusterTypes
    <3>7. WorkerTypes' /\ PortsReady'
      BY <1>0, <3>3, <3>4, <3>5 DEF WorkerTypes, PortsReady, BusySteps
    <3> QED BY <1>0, <3>6, <3>7, TableRests
  <2>2. CASE ~(IsObject(cRoute[cur]) /\ IsObject(route[cur]))
    <3>1. route' = route /\ Retry
      BY <1>1, <2>2 DEF UpdateRouteStatus
    <3>2. ClusterTypes'
      BY <1>0, <2>0, <3>1 DEF TypeInv, ClusterTypes
    <3> QED BY <1>0, <3>1, <3>2, IdleTypes, TableRests
  <2> QED BY <2>1, <2>2
<1>2. CASE manageRoutes
  <2>1. route' = route /\ (Done \/ Retry) /\ CreateOrUpdateResource(cur, obj.services)
    BY <1>2 DEF manageRoutes
  <2>2. [services |-> obj.services] \in Resources
    BY <1>0, ObjectIs DEF Resources
  <2>3. ClusterTypes'
    BY <1>0, <2>1, <2>2, ZenonT(30) DEF TypeInv, ClusterTypes, CreateOrUpdateResource
  <2> QED BY <1>0, <2>1, <2>3, IdleTypes, TableRests
<1> QED BY <1>1, <1>2

\* The Services of a Route that goes are deleted, its ports released and its
\* finalizer removed.
LEMMA CleanupTypes ==
  ASSUME TypeInv, UNCHANGED topology,
         CleanupService \/ DeallocatePortsForRoute \/ RemoveFinalizer
  PROVE  TypeInv'
<1>0. /\ pc \in {"cleanup", "unfinal"} /\ cur \in Routes /\ obj \in Objects /\ rq \in Seq(Routes)
      /\ pc = "cleanup" => todo \subseteq StatusKeys
      /\ UNCHANGED <<l7, disabled, caches>>
  BY DEF TypeInv, WorkerTypes, CleanupService, DeallocatePortsForRoute, RemoveFinalizer
<1>1. CASE CleanupService
  <2>1. PICK g \in todo : /\ svc' = [svc EXCEPT ![GeneratedName(g)] = Absent]
                         /\ pc' = "cleanup" /\ todo' = todo \ {g}
    BY <1>1, Zenon DEF CleanupService, Goto
  <2>2. pc = "cleanup" /\ UNCHANGED <<allocVars, route, rq, obj, cur>>
    BY <1>1 DEF CleanupService, Goto
  <2>3. ClusterTypes'
    <3>1. GeneratedName(g) \in Generated
      BY <1>0, <2>2, KeysOfServices
    <3> QED BY <1>0, <2>1, <2>2, <3>1 DEF TypeInv, ClusterTypes
  <2>4. WorkerTypes' /\ PortsReady'
    BY <1>0, <2>1, <2>2 DEF WorkerTypes, PortsReady, BusySteps
  <2> QED BY <1>0, <2>2, <2>3, <2>4, TableRests
<1>2. CASE DeallocatePortsForRoute
  <2>1. /\ pc' = "unfinal" /\ todo' = {} /\ UNCHANGED <<route, svc, rq, obj, cur>>
        /\ DeallocateEndpoints({endpointKey(s, cur) : s \in obj.services})
    BY <1>2 DEF DeallocatePortsForRoute, Goto
  <2>2. AllocInv'
    BY <2>1, DeallocateEndpointsInv, Zenon DEF TypeInv
  <2>3. ClusterTypes' /\ CacheTypes'
    BY <1>0, <2>1, Zenon DEF TypeInv, ClusterTypes, CacheTypes, caches
  <2>4. WorkerTypes' /\ PortsReady'
    BY <1>0, <2>1, Zenon DEF WorkerTypes, PortsReady, BusySteps
  <2> QED BY <2>2, <2>3, <2>4 DEF TypeInv
<1>3. CASE RemoveFinalizer
  <2>1. /\ UNCHANGED <<allocVars, svc>> /\ (Done \/ Retry)
        /\ \/ route' = route
           \/ route[cur] = obj /\ route' = [route EXCEPT ![cur] = WithoutFinalizer(obj)]
    BY <1>3 DEF RemoveFinalizer
  <2>2. WithoutFinalizer(obj) \in Objects \cup {Absent, Gone}
    BY <1>0, ObjectUpdates, Zenon DEF WithoutFinalizer
  <2>3. ClusterTypes'
    BY <1>0, <2>1, <2>2 DEF TypeInv, ClusterTypes
  <2> QED BY <1>0, <2>1, <2>3, IdleTypes, TableRests
<1> QED BY <1>1, <1>2, <1>3

\* The invariant holds in every reachable state.
LEMMA TypeInvStep ==
  ASSUME TypeInv, [Next /\ UNCHANGED topology]_<<vars, topology>>
  PROVE  TypeInv'
<1>1. CASE UNCHANGED <<vars, topology>>
  <2>1. ClusterTypes' /\ CacheTypes' /\ rq' \in Seq(Routes)
    BY <1>1 DEF TypeInv, ClusterTypes, CacheTypes, WorkerTypes, vars, caches
  <2> QED BY <1>1, <2>1, WorkerRests, ZenonT(30) DEF vars, worker
<1>2. CASE UNCHANGED topology /\ Environment
  BY <1>2, EnvironmentTypes, RestartTypes
<1>3. CASE UNCHANGED topology /\ Informers
  BY <1>3, InformerTypes
<1>4. CASE UNCHANGED topology /\ EnvoyReconciler
  BY <1>4, EnvoyTypes DEF EnvoyReconciler
<1>5. CASE UNCHANGED topology /\ RouteReconciler
  BY <1>5, StartTypes, OrphansTypes, AllocateTypes, ApplyTypes, StatusTypes, CleanupTypes
     DEF RouteReconciler
<1> QED BY <1>1, <1>2, <1>3, <1>4, <1>5 DEF Next

\* The initial state.
LEMMA TypeInvInit == Init => TypeInv
<1> SUFFICES ASSUME Init PROVE TypeInv
  OBVIOUS
<1>1. AllocInv
  <2>1. portLookup \in [{} -> PortMaps]
    BY DEF Init, AllocInit
  <2>2. TakenPorts(portLookup) = {}
    BY DEF Init, AllocInit, TakenPorts
  <2> QED
    BY <2>1, <2>2, Zenon DEF Init, AllocInit, AllocInv, AllocTypeOK, ReverseExact, LookupTables
<1>2. ClusterTypes /\ CacheTypes
  BY Zenon DEF Init, ClusterTypes, CacheTypes
<1>3. WorkerTypes /\ PortsReady
  <2>1. /\ rq = <<>> /\ pc = "idle" /\ cur = Absent /\ obj = Absent /\ todo = {}
    BY Zenon DEF Init
  <2>2. rq \in Seq(Routes)
    BY <2>1
  <2> QED BY <2>1, <2>2 DEF WorkerTypes, PortsReady
<1> QED BY <1>1, <1>2, <1>3 DEF Init, TypeInv

\* The objects, caches, queue and worker keep their types: in particular the worker
\* never applies or records a Service without a port, and the table is exact.
THEOREM RouteTypes == Spec => [](TypeOK /\ ReverseExact)
<1>1. TypeInv => TypeOK /\ ReverseExact
  <2> SUFFICES ASSUME TypeInv PROVE TypeOK /\ ReverseExact
    OBVIOUS
  <2>1. todo \subseteq Svcs \cup StatusKeys
    BY ObjectIs DEF TypeInv, WorkerTypes, BusySteps, StatusKeys, Parts
  <2> QED BY <2>1 DEF TypeInv, AllocInv, ClusterTypes, CacheTypes, WorkerTypes, BusySteps, TypeOK
<1> QED BY <1>1, TypeInvInit, TypeInvStep, PTL DEF Spec
==============================================================================
