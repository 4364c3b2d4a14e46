------------------------- MODULE RouteRecords_proofs -------------------------
(***************************************************************************)
(* What the status of a Route records stays, for any number of Routes,     *)
(* Services and ports, and both topologies.  While no spec changes and     *)
(* nothing is switched off, a status is empty or has every generated       *)
(* Service of the spec, and all parts of a Service have one port.  That    *)
(* port is also in the table, for as long as the Route may be reconciled:  *)
(* a restart loads it from the record, and only the cleanup of a Route     *)
(* seen as deleted releases it.  Of a Service used as it is, which a       *)
(* restart does not find in the record, only the entry stays, and the port *)
(* until the first restart.                                                *)
(***************************************************************************)
EXTENDS RouteManager_proofs

Quiet == updates = 0 /\ toggles = 0

\* The reconciler's cache does not show the Route as deleted.
Undeleted(r) == cRoute[r] = Absent \/ Live(cRoute[r])

Ended(o) == o = Gone \/ (IsObject(o) /\ o.deleting)

Working == {"orphans", "allocate", "apply"}

InHand(r) == pc \in Working /\ cur = r

\* The keys of what is generated, in parts P, for the Services of S.
Keys(S, P) == {StatusKey(g) : g \in S \X P}

\* A status is written as a whole.
Whole(o) ==
  /\ DOMAIN o.status \in {{}, Keys(o.services, Parts)}
  /\ \A k \in DOMAIN o.status :
       k[1] \notin AsIs => o.status[k] = o.status[<<k[1], "service">>]

TableKnows(r) ==
  \A k \in DOMAIN route[r].status :
    Remembered(k[1]) => HasPort(k[1], r) /\ Target(k[1], r) = route[r].status[k]

\* The cache shows an earlier state of the Route.
CacheOlder(r) ==
  /\ route[r] = Absent => cRoute[r] = Absent
  /\ ~Undeleted(r) => Ended(route[r])
  /\ IsObject(cRoute[r]) => Whole(cRoute[r])
  /\ IsObject(cRoute[r]) /\ IsObject(route[r]) =>
       /\ cRoute[r].services = route[r].services
       /\ DOMAIN cRoute[r].status \subseteq DOMAIN route[r].status

RouteKnown(r) ==
  /\ IsObject(route[r]) => Whole(route[r])
  /\ CacheOlder(r)
  /\ IsObject(route[r]) /\ (Undeleted(r) \/ InHand(r)) => TableKnows(r)

WorkerKnows ==
  /\ pc \in Working =>
       /\ route[cur] # Absent
       /\ IsObject(route[cur]) => obj.services = route[cur].services
       /\ DOMAIN obj.status \subseteq Keys(obj.services, Parts)
  /\ pc = "apply" => \A g \in (obj.services \X Parts) \ todo :
       StatusKey(g) \in DOMAIN obj.status /\ obj.status[StatusKey(g)] = Target(g[1], cur)
  /\ pc \in {"cleanup", "unfinal"} => ~Undeleted(cur)

Calm == ~disabled /\ WorkerKnows /\ \A r \in Routes : RouteKnown(r)

KeptInv == updates \in Nat /\ toggles \in Nat /\ restarts \in Nat /\ (Quiet => Calm)

\* A step that leaves the table leaves every port.
LEMMA SamePorts ==
  ASSUME UNCHANGED allocVars
  PROVE  \A s, r : (HasPort(s, r)' <=> HasPort(s, r)) /\ Target(s, r)' = Target(s, r)
BY DEF allocVars, HasPort, Target, Lookup, Entry, endpointKey

\* The parts of a Service.
LEMMA PartsAre ==
  /\ "service" \in Parts
  /\ Parts \subseteq {"service", "bridge"}
  /\ topology' = topology => Parts' = Parts
BY DEF Parts

\* The keys are different, and only a Service used as it is lacks the one by which
\* LoadState looks it up.
LEMMA KeysAre ==
  ASSUME NEW S \in SUBSET Svcs
  PROVE  /\ \A g \in S \X Parts : StatusKey(g)[1] = g[1] /\ StatusKey(g) \in Keys(S, Parts)
         /\ \A g, h \in S \X Parts : StatusKey(g) = StatusKey(h) => g = h
         /\ \A k \in Keys(S, Parts) : k[1] \in S
         /\ \A x \in S : x \notin AsIs => <<x, "service">> \in Keys(S, Parts)
<1>1. \A g \in S \X Parts : g \in Generated
  BY PartsAre DEF Generated
<1>2. \A g \in S \X Parts : StatusKey(g)[1] = g[1] /\ StatusKey(g) \in Keys(S, Parts)
  BY <1>1, KeysOfServices DEF Keys
<1>3. \A g, h \in S \X Parts : StatusKey(g) = StatusKey(h) => g = h
  BY <1>1, KeysOfServices
<1>4. \A k \in Keys(S, Parts) : k[1] \in S
  BY <1>2 DEF Keys
<1>5. \A x \in S : x \notin AsIs => <<x, "service">> \in Keys(S, Parts)
  <2> SUFFICES ASSUME NEW x \in S, x \notin AsIs PROVE <<x, "service">> \in Keys(S, Parts)
    OBVIOUS
  <2>1. <<x, "service">> \in S \X Parts /\ StatusKey(<<x, "service">>) = <<x, "service">>
    BY PartsAre DEF StatusKey
  <2> QED BY <1>2, <2>1
<1> QED BY <1>2, <1>3, <1>4, <1>5

\* What is known of a Route stays when neither it nor what the cache shows of it
\* changes, and its ports stay if it may be reconciled.
LEMMA KnownRests ==
  ASSUME NEW r, RouteKnown(r), topology' = topology, restarts' = restarts,
         route'[r] = route[r], cRoute'[r] = cRoute[r],
         InHand(r)' => InHand(r) \/ Undeleted(r),
         Undeleted(r) \/ InHand(r) =>
           \A s : HasPort(s, r) => HasPort(s, r)' /\ Target(s, r)' = Target(s, r)
  PROVE  RouteKnown(r)'
<1>1. Undeleted(r)' <=> Undeleted(r)
  BY DEF Undeleted
<1>2. Parts' = Parts
  BY PartsAre
<1>3. IsObject(route[r]) => Whole(route[r])'
  BY <1>2 DEF RouteKnown, Whole
<1>4. CacheOlder(r)'
  BY <1>1, <1>2, Zenon DEF RouteKnown, CacheOlder, Whole
<1>5. IsObject(route[r]) /\ (Undeleted(r) \/ InHand(r)') => TableKnows(r)'
  <2> SUFFICES ASSUME IsObject(route[r]), Undeleted(r) \/ InHand(r)' PROVE TableKnows(r)'
    OBVIOUS
  <2>1. TableKnows(r) /\ \A s : HasPort(s, r) => HasPort(s, r)' /\ Target(s, r)' = Target(s, r)
    BY DEF RouteKnown
  <2>2. \A k \in DOMAIN route[r].status :
          Remembered(k[1]) => HasPort(k[1], r)' /\ Target(k[1], r)' = route[r].status[k]
    BY <2>1 DEF TableKnows
  <2> QED BY <2>2, Zenon DEF TableKnows, Remembered
<1> QED BY <1>1, <1>3, <1>4, <1>5 DEF RouteKnown
\* The same of the worker, when its Route stays as it is or goes away.
LEMMA WorkerKnowsRests ==
  ASSUME WorkerKnows, TypeInv, UNCHANGED <<topology, pc, cur, obj, todo>>,
         pc \in Working => route'[cur] # Absent,
         pc \in Working /\ IsObject(route'[cur]) =>
           IsObject(route[cur]) /\ route'[cur].services = route[cur].services,
         pc \in {"cleanup", "unfinal"} => ~Undeleted(cur)',
         \A s, r : HasPort(s, r) => Target(s, r)' = Target(s, r)
  PROVE  WorkerKnows'
<1>1. Parts' = Parts
  BY PartsAre
<1>2. (pc \in Working =>
         /\ route[cur] # Absent
         /\ IsObject(route[cur]) => obj.services = route[cur].services
         /\ DOMAIN obj.status \subseteq Keys(obj.services, Parts))'
  BY <1>1 DEF WorkerKnows
<1>3. (pc = "apply" => \A g \in (obj.services \X Parts) \ todo :
         StatusKey(g) \in DOMAIN obj.status /\ obj.status[StatusKey(g)] = Target(g[1], cur))'
  <2> SUFFICES ASSUME pc = "apply", NEW g \in (obj.services \X Parts) \ todo
               PROVE  /\ StatusKey(g) \in DOMAIN obj.status
                      /\ obj.status[StatusKey(g)] = Target(g[1], cur)'
    BY <1>1
  <2>1. StatusKey(g) \in DOMAIN obj.status /\ obj.status[StatusKey(g)] = Target(g[1], cur)
    BY DEF WorkerKnows
  <2>2. HasPort(g[1], cur)
    BY DEF TypeInv, PortsReady
  <2>3. PICK s, r : s = g[1] /\ r = cur
    OBVIOUS
  <2>4. Target(s, r)' = Target(s, r)
    BY <2>2, <2>3
  <2>5. Target(g[1], cur)' = Target(s, r)'
    BY <2>3 DEF Target, Lookup, endpointKey
  <2> QED BY <2>1, <2>3, <2>4, <2>5
<1> QED BY <1>2, <1>3, Zenon DEF WorkerKnows

\* A step that changes neither a Route, nor what the cache shows of one, nor the
\* table, nor the worker.
LEMMA CalmRests ==
  ASSUME TypeInv, Calm,
         UNCHANGED <<topology, restarts, allocVars, route, disabled, cRoute, worker>>
  PROVE  Calm'
<1>1. \A s, r : (HasPort(s, r)' <=> HasPort(s, r)) /\ Target(s, r)' = Target(s, r)
  BY SamePorts
<1>2. ASSUME NEW r \in Routes PROVE RouteKnown(r)'
  <2>1. InHand(r)' => InHand(r)
    BY DEF InHand, worker
  <2> QED BY <1>1, <2>1, KnownRests DEF Calm
<1>3. WorkerKnows'
  BY <1>1, WorkerKnowsRests, Zenon DEF Calm, WorkerKnows, worker, Undeleted
<1> QED BY <1>2, <1>3 DEF Calm
\* What a step may not do to the recorded Services.
KeepsRecords ==
  \A r \in Routes : IsObject(route[r]) /\ IsObject(route'[r]) =>
    \A k \in DOMAIN route[r].status :
      /\ k \in DOMAIN route'[r].status
      /\ Remembered(k[1])' => route'[r].status[k] = route[r].status[k]

\* A Route is created.
LEMMA CreateCalm ==
  ASSUME TypeInv, Calm, UNCHANGED <<topology, restarts>>, NEW r \in Routes, CreateRoute(r)
  PROVE  Calm' /\ KeepsRecords
<1>1. PICK S \in SUBSET Svcs :
        route' = [route EXCEPT ![r] = [services |-> S, status |-> [g \in {} |-> NoPort],
                                       fin |-> FALSE, deleting |-> FALSE]]
  BY Zenon DEF CreateRoute
<1> DEFINE n == [services |-> S, status |-> [g \in {} |-> NoPort],
                 fin |-> FALSE, deleting |-> FALSE]
<1>2. /\ route[r] = Absent /\ route'[r] = n /\ DOMAIN n.status = {}
      /\ \A q \in Routes \ {r} : route'[q] = route[q]
  BY <1>1, Zenon DEF CreateRoute, TypeInv, ClusterTypes
<1> HIDE DEF n
<1>3. cRoute[r] = Absent /\ UNCHANGED <<allocVars, disabled, cRoute, pc, cur, obj, todo>>
  BY <1>2, Zenon DEF Calm, RouteKnown, CacheOlder, CreateRoute, caches, worker
<1>4. \A s, q : (HasPort(s, q)' <=> HasPort(s, q)) /\ Target(s, q)' = Target(s, q)
  BY <1>3, SamePorts
<1>5. ~InHand(r)
  BY <1>2 DEF Calm, WorkerKnows, InHand
<1>6. RouteKnown(r)'
  <2>1. Whole(route[r])'
    BY <1>2 DEF Whole
  <2>2. CacheOlder(r)'
    BY <1>2, <1>3, ObjectsExist DEF CacheOlder, Undeleted
  <2>3. TableKnows(r)'
    BY <1>2 DEF TableKnows
  <2> QED BY <2>1, <2>2, <2>3 DEF RouteKnown
<1>7. ASSUME NEW q \in Routes \ {r} PROVE RouteKnown(q)'
  <2>1. InHand(q)' => InHand(q)
    BY <1>3 DEF InHand
  <2> QED BY <1>2, <1>3, <1>4, <2>1, KnownRests, Zenon DEF Calm
<1>8. WorkerKnows'
  <2>1. pc # "idle" => cur \in Routes
    BY DEF TypeInv, WorkerTypes
  <2>2. pc \in Working => route'[cur] = route[cur] /\ route[cur] # Absent
    BY <1>2, <1>5, <2>1 DEF InHand, Working, Calm, WorkerKnows
  <2>3. pc \in {"cleanup", "unfinal"} => ~Undeleted(cur)'
    BY <1>3 DEF Calm, WorkerKnows, Undeleted
  <2> QED BY <1>3, <1>4, <2>2, <2>3, WorkerKnowsRests DEF Calm
<1>9. KeepsRecords
  BY <1>2, ObjectsExist DEF KeepsRecords
<1> QED BY <1>3, <1>6, <1>7, <1>8, <1>9 DEF Calm

\* A Route is deleted, or marked.
LEMMA DeleteCalm ==
  ASSUME TypeInv, Calm, UNCHANGED <<topology, restarts>>, NEW r \in Routes, DeleteRoute(r)
  PROVE  Calm' /\ KeepsRecords
<1> DEFINE n == IF route[r].fin THEN [route[r] EXCEPT !.deleting = TRUE] ELSE Gone
<1>1. route[r] \in Objects /\ Live(route[r]) /\ IsObject(route[r])
  BY ObjectsExist DEF DeleteRoute, Live, TypeInv, ClusterTypes
<1>2. /\ route'[r] = n /\ \A q \in Routes \ {r} : route'[q] = route[q]
  BY DEF DeleteRoute, TypeInv, ClusterTypes
<1>3. /\ n # Absent /\ Ended(n)
      /\ IsObject(n) => n.services = route[r].services /\ n.status = route[r].status
  <2>1. CASE route[r].fin
    <3>1. n \in Objects
      BY <1>1, <2>1, ObjectUpdates, Zenon
    <3>2. n.deleting /\ n.services = route[r].services /\ n.status = route[r].status
      BY <1>1, <2>1 DEF Objects
    <3> QED BY <3>1, <3>2, ObjectsExist, Zenon DEF Ended
  <2>2. CASE ~route[r].fin
    BY <2>2, ObjectsExist DEF Ended
  <2> QED BY <2>1, <2>2
<1> HIDE DEF n
<1>4. UNCHANGED <<allocVars, disabled, cRoute, pc, cur, obj, todo>>
  BY DEF DeleteRoute, caches, worker
<1>5. \A s, q : (HasPort(s, q)' <=> HasPort(s, q)) /\ Target(s, q)' = Target(s, q)
  BY <1>4, SamePorts
<1>6. RouteKnown(r)'
  <2>0. RouteKnown(r) /\ Parts' = Parts
    BY PartsAre DEF Calm
  <2>1. IsObject(route'[r]) => Whole(route[r])'
    BY <1>1, <1>2, <1>3, <2>0, Zenon DEF Whole, RouteKnown
  <2>2. CacheOlder(r)'
    <3>1. IsObject(cRoute[r]) => Whole(cRoute[r])'
      BY <1>4, <2>0, Zenon DEF Whole, RouteKnown, CacheOlder
    <3> QED BY <1>1, <1>2, <1>3, <1>4, <2>0, <3>1, Zenon DEF RouteKnown, CacheOlder
  <2>3. Undeleted(r)' \/ InHand(r)' => Undeleted(r) \/ InHand(r)
    BY <1>4 DEF Undeleted, InHand
  <2>4. IsObject(route'[r]) /\ TableKnows(r) => TableKnows(r)'
    BY <1>2, <1>3, <1>5 DEF TableKnows, Remembered
  <2> QED BY <1>1, <2>0, <2>1, <2>2, <2>3, <2>4, Zenon DEF RouteKnown
<1>7. ASSUME NEW q \in Routes \ {r} PROVE RouteKnown(q)'
  <2>1. InHand(q)' => InHand(q)
    BY <1>4 DEF InHand
  <2> QED BY <1>2, <1>4, <1>5, <2>1, KnownRests, Zenon DEF Calm
<1>8. WorkerKnows'
  <2>1. pc # "idle" => cur \in Routes
    BY DEF TypeInv, WorkerTypes
  <2>2. pc \in Working => /\ route'[cur] # Absent
                          /\ IsObject(route'[cur]) => IsObject(route[cur])
                                                      /\ route'[cur].services = route[cur].services
    BY <1>1, <1>2, <1>3, <2>1 DEF Working, Calm, WorkerKnows
  <2>3. pc \in {"cleanup", "unfinal"} => ~Undeleted(cur)'
    BY <1>4, Zenon DEF Calm, WorkerKnows, Undeleted
  <2> QED BY <1>4, <1>5, <2>2, <2>3, WorkerKnowsRests, Zenon DEF Calm
<1>9. KeepsRecords
  BY <1>2, <1>3 DEF KeepsRecords
<1> QED BY <1>4, <1>6, <1>7, <1>8, <1>9 DEF Calm
\* The cache catches up: a Route that is live now was not shown as deleted before.
LEMMA SyncCalm ==
  ASSUME TypeInv, Calm, UNCHANGED <<topology, restarts>>, NEW r \in Routes, SyncRoute(r)
  PROVE  Calm' /\ KeepsRecords
<1>1. /\ cRoute'[r] = route[r] /\ \A q \in Routes \ {r} : cRoute'[q] = cRoute[q]
      /\ UNCHANGED <<allocVars, disabled, route, pc, cur, obj, todo>>
  BY DEF SyncRoute, TypeInv, CacheTypes, worker
<1>2. \A s, q : (HasPort(s, q)' <=> HasPort(s, q)) /\ Target(s, q)' = Target(s, q)
  BY <1>1, SamePorts
<1>3. RouteKnown(r) /\ Parts' = Parts
  BY PartsAre DEF Calm
<1>4. /\ ~Undeleted(r)' => Ended(route[r])
      /\ Undeleted(r)' /\ IsObject(route[r]) => Undeleted(r)
      /\ Ended(route[r]) => ~Undeleted(r)'
  BY <1>1, <1>3, ObjectsExist, Zenon DEF Undeleted, RouteKnown, CacheOlder, Ended, Live, IsObject
<1>5. RouteKnown(r)'
  <2>1. IsObject(route[r]) => Whole(route[r])'
    BY <1>1, <1>3, Zenon DEF Whole, RouteKnown
  <2>2. IsObject(route[r]) => Whole(cRoute[r])'
    BY <1>1, <1>3, Zenon DEF Whole, RouteKnown
  <2>3. CacheOlder(r)'
    BY <1>1, <1>4, <2>2 DEF CacheOlder
  <2>4. Undeleted(r)' \/ InHand(r)' => Undeleted(r) \/ InHand(r) \/ ~IsObject(route[r])
    BY <1>1, <1>4 DEF InHand
  <2>5. TableKnows(r) => TableKnows(r)'
    BY <1>1, <1>2 DEF TableKnows, Remembered
  <2> QED BY <1>1, <1>3, <2>1, <2>3, <2>4, <2>5, Zenon DEF RouteKnown
<1>6. ASSUME NEW q \in Routes \ {r} PROVE RouteKnown(q)'
  <2>1. InHand(q)' => InHand(q)
    BY <1>1 DEF InHand
  <2> QED BY <1>1, <1>2, <2>1, KnownRests, Zenon DEF Calm
<1>7. WorkerKnows'
  <2>1. pc # "idle" => cur \in Routes
    BY DEF TypeInv, WorkerTypes
  <2>2. pc \in {"cleanup", "unfinal"} => ~Undeleted(cur)'
    <3> SUFFICES ASSUME pc \in {"cleanup", "unfinal"} PROVE ~Undeleted(cur)'
      OBVIOUS
    <3>1. ~Undeleted(cur) /\ cur \in Routes
      BY <2>1 DEF Calm, WorkerKnows
    <3>2. CASE cur = r
      <4>1. Ended(route[r])
        BY <1>3, <3>1, <3>2, Zenon DEF RouteKnown, CacheOlder
      <4> QED BY <1>1, <1>4, <3>2, <4>1, Zenon DEF Undeleted
    <3>3. CASE cur # r
      BY <1>1, <3>1, <3>3 DEF Undeleted
    <3> QED BY <3>2, <3>3
  <2> QED BY <1>1, <1>2, <2>2, WorkerKnowsRests, Zenon DEF Calm, WorkerKnows
<1>8. KeepsRecords
  BY <1>1 DEF KeepsRecords
<1> QED BY <1>1, <1>5, <1>6, <1>7, <1>8 DEF Calm

\* An allocation, by either reconciler, leaves the ports there are.
LEMMA AllocationKnown ==
  ASSUME TypeInv, Calm, UNCHANGED <<topology, restarts, route, cRoute, cur>>,
         pc \in Working => pc' \in Working, pc' \in Working => pc \in Working,
         NEW s \in Svcs, NEW r \in Routes, AllocatePorts(endpointKey(s, r), {PortKey})
  PROVE  /\ \A q \in Routes : RouteKnown(q)'
         /\ \A t, q : HasPort(t, q) => Target(t, q)' = Target(t, q)
<1>1. \A t, q : HasPort(t, q) => HasPort(t, q)' /\ Target(t, q)' = Target(t, q)
  BY AllocateServes DEF TypeInv
<1>2. ASSUME NEW q \in Routes PROVE RouteKnown(q)'
  <2>1. InHand(q)' => InHand(q)
    BY DEF InHand
  <2>2. \A t : HasPort(t, q) => HasPort(t, q)' /\ Target(t, q)' = Target(t, q)
    BY <1>1
  <2> QED BY <2>1, <2>2, KnownRests, Zenon DEF Calm
<1> QED BY <1>1, <1>2

\* The Envoy reconciler allocates.
LEMMA EnvoyCalm ==
  ASSUME TypeInv, Calm, UNCHANGED <<topology, restarts>>, NEW r \in Routes,
         NEW s \in Svcs, EnvoyAllocate(r, s)
  PROVE  Calm' /\ KeepsRecords
<1>1. UNCHANGED <<route, disabled, cRoute, pc, cur, obj, todo>>
      /\ AllocatePorts(endpointKey(s, r), {PortKey})
  BY Zenon DEF EnvoyAllocate, caches, worker
<1>2. /\ \A q \in Routes : RouteKnown(q)'
      /\ \A t, q : HasPort(t, q) => Target(t, q)' = Target(t, q)
  BY <1>1, AllocationKnown
<1>3. WorkerKnows'
  <2>1. pc \in {"cleanup", "unfinal"} => ~Undeleted(cur)'
    BY <1>1, Zenon DEF Calm, WorkerKnows, Undeleted
  <2> QED BY <1>1, <1>2, <2>1, WorkerKnowsRests, Zenon DEF Calm, WorkerKnows
<1>4. KeepsRecords
  BY <1>1 DEF KeepsRecords
<1> QED BY <1>1, <1>2, <1>3, <1>4 DEF Calm

\* A restart loads the ports of every recorded Service.
LEMMA RestartCalm ==
  ASSUME TypeInv, Calm, UNCHANGED topology, Restart, restarts \in Nat
  PROVE  Calm' /\ KeepsRecords
<1>1. /\ UNCHANGED <<route, disabled>> /\ cRoute' = route /\ pc' = "idle"
      /\ LoadState /\ recomputeAvailablePorts /\ UNCHANGED mu
      /\ restarts' # 0
  BY DEF Restart, Idle, Read
<1>2. \A r \in Routes : IsObject(route[r]) =>
        \A s \in route[r].services : <<s, "service">> \in DOMAIN route[r].status =>
          HasPort(s, r)' /\ Target(s, r)' = route[r].status[<<s, "service">>]
  BY <1>1, LoadServes DEF TypeInv
<1>3. ASSUME NEW r \in Routes PROVE RouteKnown(r)'
  <2>0. RouteKnown(r) /\ Parts' = Parts /\ "service" \in Parts
    BY PartsAre DEF Calm
  <2>1. IsObject(route[r]) => Whole(route[r])'
    BY <1>1, <2>0, Zenon DEF Whole, RouteKnown
  <2>2. IsObject(route[r]) => Whole(cRoute[r])'
    BY <1>1, <2>0 DEF Whole, RouteKnown
  <2>3. ~Undeleted(r)' => Ended(route[r])
    BY <1>1 DEF Undeleted, Ended, Live, IsObject
  <2>4. CacheOlder(r)'
    BY <1>1, <2>2, <2>3 DEF CacheOlder
  <2>5. IsObject(route[r]) => TableKnows(r)'
    <3> SUFFICES ASSUME IsObject(route[r]), NEW k \in DOMAIN route[r].status, k[1] \notin AsIs
                 PROVE  HasPort(k[1], r)' /\ Target(k[1], r)' = route[r].status[k]
      BY <1>1 DEF TableKnows, Remembered
    <3>1. /\ DOMAIN route[r].status = Keys(route[r].services, Parts)
          /\ route[r].status[k] = route[r].status[<<k[1], "service">>]
      BY <2>0 DEF RouteKnown, Whole
    <3>2. route[r].services \in SUBSET Svcs
      BY ObjectIs, ObjectsExist DEF TypeInv, ClusterTypes
    <3>3. k[1] \in route[r].services /\ <<k[1], "service">> \in DOMAIN route[r].status
      BY <3>1, <3>2, KeysAre
    <3> QED BY <1>2, <3>1, <3>3
  <2> QED BY <1>1, <2>1, <2>4, <2>5 DEF RouteKnown
<1>4. WorkerKnows'
  BY <1>1 DEF WorkerKnows, Working
<1>5. KeepsRecords
  BY <1>1 DEF KeepsRecords
<1> QED BY <1>1, <1>3, <1>4, <1>5 DEF Calm
\* The worker takes a Route that its cache shows as live, or as deleted.
LEMMA StartCalm ==
  ASSUME TypeInv, Calm, UNCHANGED <<topology, restarts>>, Skip \/ Begin \/ CleanupBegin
  PROVE  Calm' /\ KeepsRecords
<1> PICK r, o : r = Head(rq) /\ o = cRoute[r]
  OBVIOUS
<1> DEFINE f == [o EXCEPT !.fin = TRUE]
<1>0. /\ r \in Routes /\ pc = "idle"
      /\ UNCHANGED <<allocVars, disabled, cRoute>> /\ ~disabled
  BY HeadType DEF Skip, Begin, CleanupBegin, caches, Calm
<1>1. IsObject(o) => o \in Objects
  BY <1>0, ObjectsExist DEF TypeInv, CacheTypes
<1>2. RouteKnown(r) /\ Parts' = Parts
  BY <1>0, PartsAre DEF Calm
<1>3. \A s, q : (HasPort(s, q)' <=> HasPort(s, q)) /\ Target(s, q)' = Target(s, q)
  BY <1>0, SamePorts
<1>4. ASSUME UNCHANGED <<route, worker>> PROVE Calm' /\ KeepsRecords
  BY <1>0, <1>4, CalmRests DEF KeepsRecords
<1>5. CASE Begin /\ (o.fin \/ route[r] = o)
  <2>1. /\ route' = IF o.fin THEN route ELSE [route EXCEPT ![r] = f]
        /\ cur' = r /\ obj' = f /\ pc' = "orphans" /\ Live(o)
    BY <1>5 DEF Begin, Read
  <2>2. /\ o \in Objects /\ f.services = o.services /\ f.status = o.status
        /\ f.deleting = o.deleting /\ IsObject(o) /\ f \in Objects
    <3>1. o \in Objects
      BY <1>1, <2>1 DEF Live
    <3> QED BY <3>1, ObjectsExist, ObjectUpdates, Zenon DEF Objects
  <2>3. /\ \A q \in Routes \ {r} : route'[q] = route[q]
        /\ route'[r] # Absent /\ (IsObject(route'[r]) <=> IsObject(route[r]))
        /\ route'[r] = Gone <=> route[r] = Gone
        /\ IsObject(route[r]) => /\ route'[r].services = route[r].services
                                 /\ route'[r].status = route[r].status
                                 /\ route'[r].deleting = route[r].deleting
    <3>1. route[r] # Absent
      BY <1>2, <2>2 DEF RouteKnown, CacheOlder, IsObject
    <3>2. CASE o.fin
      BY <2>1, <3>1, <3>2
    <3>3. CASE ~o.fin
      <4>1. route[r] = o /\ route' = [route EXCEPT ![r] = f]
        BY <1>5, <2>1, <3>3
      <4>2. route'[r] = f /\ \A q \in Routes \ {r} : route'[q] = route[q]
        BY <1>0, <4>1 DEF TypeInv, ClusterTypes
      <4> QED BY <2>2, <4>1, <4>2, ObjectsExist, Zenon DEF IsObject
    <3> QED BY <3>2, <3>3
  <2>4. Undeleted(r)
    BY <2>1 DEF Undeleted
  <2> HIDE DEF f
  <2>5. RouteKnown(r)'
    <3>1. IsObject(route'[r]) => Whole(route[r])'
      BY <1>2, <2>3, Zenon DEF Whole, RouteKnown
    <3>2. IsObject(cRoute[r]) => Whole(cRoute[r])'
      BY <1>0, <1>2, Zenon DEF Whole, RouteKnown, CacheOlder
    <3>3. Undeleted(r)'
      BY <1>0, <2>4 DEF Undeleted
    <3>4. CacheOlder(r)'
      BY <1>0, <1>2, <2>3, <3>2, <3>3, Zenon DEF RouteKnown, CacheOlder
    <3>5. IsObject(route'[r]) => TableKnows(r)'
      BY <1>2, <1>3, <2>3, <2>4, Zenon DEF RouteKnown, TableKnows, Remembered
    <3> QED BY <3>1, <3>4, <3>5, Zenon DEF RouteKnown
  <2>6. ASSUME NEW q \in Routes \ {r} PROVE RouteKnown(q)'
    <3>1. ~InHand(q)'
      BY <2>1 DEF InHand
    <3> QED BY <1>0, <1>3, <2>3, <3>1, KnownRests, Zenon DEF Calm
  <2>7. WorkerKnows'
    <3>1. Whole(o) /\ (IsObject(route[r]) => o.services = route[r].services)
      BY <1>2, <2>2, Zenon DEF RouteKnown, CacheOlder
    <3>2. DOMAIN f.status \subseteq Keys(f.services, Parts)
      BY <2>2, <3>1 DEF Whole
    <3>3. IsObject(route'[r]) => f.services = route'[r].services
      BY <2>2, <2>3, <3>1
    <3> QED BY <1>2, <2>1, <2>3, <3>2, <3>3, Zenon DEF WorkerKnows, Working
  <2>8. KeepsRecords
    BY <2>3 DEF KeepsRecords
  <2> QED BY <1>0, <2>5, <2>6, <2>7, <2>8 DEF Calm
<1>6. CASE CleanupBegin
  <2>1. /\ route' = route /\ cur' = r /\ pc' = "cleanup" /\ IsObject(o) /\ o.deleting
    BY <1>0, <1>6 DEF CleanupBegin, Read, CleanupNeeded
  <2>2. ~Undeleted(r)'
    BY <1>0, <2>1 DEF Undeleted, Live, IsObject
  <2> HIDE DEF f
  <2>3. ASSUME NEW q \in Routes PROVE RouteKnown(q)'
    <3>1. ~InHand(q)'
      BY <2>1 DEF InHand, Working
    <3> QED BY <1>0, <1>3, <2>1, <3>1, KnownRests, Zenon DEF Calm
  <2>4. WorkerKnows'
    BY <1>0, <2>1, <2>2 DEF WorkerKnows, Working, Undeleted
  <2> QED BY <1>0, <2>1, <2>3, <2>4 DEF Calm, KeepsRecords
<1> QED BY <1>4, <1>5, <1>6 DEF Skip, Begin

\* Orphans are dropped from the copy; the Services get their ports.
LEMMA PrepareCalm ==
  ASSUME TypeInv, Calm, UNCHANGED <<topology, restarts>>,
         cleanupOrphanedServices \/ ManageServices \/ AllocatePortsForRoutes
  PROVE  Calm' /\ KeepsRecords
<1>0. /\ pc \in {"orphans", "allocate"} /\ cur \in Routes /\ obj \in Objects
      /\ UNCHANGED <<route, disabled, cRoute, cur>> /\ Parts' = Parts
      /\ pc' \in Working /\ KeepsRecords
  BY PartsAre DEF TypeInv, WorkerTypes, cleanupOrphanedServices, ManageServices,
                  AllocatePortsForRoutes, Goto, Working, caches, KeepsRecords
<1>1. /\ obj'.services = obj.services /\ DOMAIN obj'.status \subseteq DOMAIN obj.status
      /\ pc' = "apply" => todo' = obj.services \X Parts
  <2>1. CASE cleanupOrphanedServices
    <3>1. PICK g \in todo : \/ obj' = obj
                            \/ obj' = [obj EXCEPT !.status = Without(obj.status, g)]
      BY <2>1 DEF cleanupOrphanedServices
    <3>2. pc' = "orphans"
      BY <2>1 DEF cleanupOrphanedServices, Goto
    <3>3. DOMAIN Without(obj.status, g) \subseteq DOMAIN obj.status
      BY DEF Without
    <3>4. LET n == [obj EXCEPT !.status = Without(obj.status, g)]
          IN  n.services = obj.services /\ n.status = Without(obj.status, g)
      BY <1>0 DEF Objects
    <3> QED BY <3>1, <3>2, <3>3, <3>4, Zenon
  <2>2. CASE ManageServices
    BY <2>2 DEF ManageServices, Goto
  <2>3. CASE AllocatePortsForRoutes
    BY <2>3 DEF AllocatePortsForRoutes, Goto
  <2> QED BY <2>1, <2>2, <2>3
<1>2. WorkerKnows'
  BY <1>0, <1>1, Zenon DEF Calm, WorkerKnows, Working
<1>3. ASSUME NEW q \in Routes PROVE RouteKnown(q)'
  <2>1. CASE UNCHANGED allocVars
    <3>1. InHand(q)' => InHand(q)
      BY <1>0 DEF InHand, Working
    <3>2. \A s, r : (HasPort(s, r)' <=> HasPort(s, r)) /\ Target(s, r)' = Target(s, r)
      BY <2>1, SamePorts
    <3> QED BY <1>0, <3>1, <3>2, KnownRests, Zenon DEF Calm
  <2>2. CASE AllocatePortsForRoutes /\ todo # {}
    <3>1. PICK s \in todo : AllocatePorts(endpointKey(s, cur), {PortKey})
      BY <2>2, Zenon DEF AllocatePortsForRoutes
    <3>2. s \in Svcs
      BY <1>0, <2>2, ObjectIs, Zenon DEF TypeInv, WorkerTypes, AllocatePortsForRoutes
    <3>3. pc \in Working
      BY <1>0 DEF Working
    <3> QED BY <1>0, <3>1, <3>2, <3>3, AllocationKnown
  <2> QED BY <2>1, <2>2, Zenon DEF cleanupOrphanedServices, ManageServices, AllocatePortsForRoutes
<1> QED BY <1>0, <1>2, <1>3 DEF Calm
\* A Service is recorded in the copy with the port of the table.
LEMMA ApplyCalm ==
  ASSUME TypeInv, Calm, UNCHANGED <<topology, restarts>>, ApplyService
  PROVE  Calm' /\ KeepsRecords
<1>0. /\ pc = "apply" /\ pc' = "apply" /\ cur \in Routes /\ obj \in Objects
      /\ todo \subseteq obj.services \X Parts /\ Parts' = Parts
      /\ UNCHANGED <<allocVars, route, disabled, cRoute, cur>> /\ KeepsRecords
  BY PartsAre DEF TypeInv, WorkerTypes, ApplyService, Goto, caches, KeepsRecords
<1>1. PICK g \in todo :
        /\ obj' = [obj EXCEPT !.status = With(obj.status, StatusKey(g), Target(g[1], cur))]
        /\ todo' = todo \ {g}
  BY DEF ApplyService, Goto, updateServiceStatus
<1>2. /\ obj'.services = obj.services
      /\ obj'.status = With(obj.status, StatusKey(g), Target(g[1], cur))
  BY <1>0, <1>1 DEF Objects
<1>3. /\ DOMAIN obj'.status = DOMAIN obj.status \cup {StatusKey(g)}
      /\ \A k \in DOMAIN obj'.status :
           obj'.status[k] = IF k = StatusKey(g) THEN Target(g[1], cur) ELSE obj.status[k]
  BY <1>2 DEF With
<1>4. \A s, q : (HasPort(s, q)' <=> HasPort(s, q)) /\ Target(s, q)' = Target(s, q)
  BY <1>0, SamePorts
<1>5. \A s : Target(s, cur)' = Target(s, cur)
  BY <1>0 DEF Target, Lookup, Entry, endpointKey, allocVars
<1>6. WorkerKnows'
  <2>0. /\ StatusKey(g) \in Keys(obj.services, Parts)
        /\ \A h \in obj.services \X Parts : StatusKey(h) = StatusKey(g) => h = g
    BY <1>0, ObjectIs, KeysAre
  <2>1. (pc \in Working =>
           /\ route[cur] # Absent
           /\ IsObject(route[cur]) => obj.services = route[cur].services
           /\ DOMAIN obj.status \subseteq Keys(obj.services, Parts))'
    BY <1>0, <1>2, <1>3, <2>0, Zenon DEF Calm, WorkerKnows, Working
  <2>2. \A h \in (obj.services \X Parts) \ todo' :
          StatusKey(h) \in DOMAIN obj'.status /\ obj'.status[StatusKey(h)] = Target(h[1], cur)
    BY <1>0, <1>1, <1>3, <2>0 DEF Calm, WorkerKnows
  <2> QED BY <1>0, <1>2, <1>5, <2>1, <2>2, Zenon DEF WorkerKnows
<1>7. ASSUME NEW q \in Routes PROVE RouteKnown(q)'
  <2>1. InHand(q)' => InHand(q)
    BY <1>0 DEF InHand
  <2> QED BY <1>0, <1>4, <2>1, KnownRests, Zenon DEF Calm
<1> QED BY <1>0, <1>6, <1>7 DEF Calm

\* The status the patch stores, when every Service of the spec has been applied: it
\* is whole, and each entry is the worker's or the one there was.
LEMMA PatchKeeps ==
  ASSUME NEW D, NEW a, NEW b, NEW c,
         DOMAIN a \in {{}, D}, DOMAIN b \in {{}, D}, DOMAIN b \subseteq DOMAIN a, DOMAIN c = D
  PROVE  /\ DOMAIN MergePatch(a, b, c) = D
         /\ \A k \in D : \/ MergePatch(a, b, c)[k] = c[k]
                         \/ k \in DOMAIN a /\ MergePatch(a, b, c)[k] = a[k]
<1> DEFINE dropped == DOMAIN b \ DOMAIN c
           changed == {g \in DOMAIN c : g \in DOMAIN b => b[g] # c[g]}
<1>1. MergePatch(a, b, c) = [g \in (DOMAIN a \ dropped) \cup changed |->
                               IF g \in changed THEN c[g] ELSE a[g]]
  BY DEF MergePatch
<1>2. (DOMAIN a \ dropped) \cup changed = D
  BY Zenon
<1>3. \A g \in D : g \notin changed => g \in DOMAIN a
  BY <1>2
<1> QED BY <1>1, <1>2, <1>3
\* The patch: every entry of the stored status has the port of the table, which is
\* the one the worker has recorded again.
LEMMA PatchCalm ==
  ASSUME TypeInv, Calm, UNCHANGED <<topology, restarts>>, UpdateRouteStatus,
         IsObject(cRoute[cur]) /\ IsObject(route[cur])
  PROVE  Calm' /\ KeepsRecords
<1> PICK r, o : r = cur /\ o = route[cur]
  OBVIOUS
<1> DEFINE a == o.status
           b == cRoute[r].status
           m == MergePatch(a, b, obj.status)
           n == [o EXCEPT !.status = m]
           D == Keys(o.services, Parts)
           R == {k \in D : Remembered(k[1])}
           t == [k \in D |-> Target(k[1], r)]
<1>0. /\ pc = "apply" /\ todo = {} /\ pc' = "route" /\ r \in Routes /\ obj \in Objects
      /\ route[r] = o /\ o \in Objects /\ cRoute[r] \in Objects /\ Parts' = Parts
      /\ UNCHANGED <<allocVars, disabled, cRoute>>
  BY PartsAre, ObjectsExist
     DEF TypeInv, WorkerTypes, ClusterTypes, CacheTypes, UpdateRouteStatus, Goto, caches
<1>1. route' = [route EXCEPT ![r] = n]
  BY DEF UpdateRouteStatus
<1>2. /\ route'[r] = n /\ \A q \in Routes \ {r} : route'[q] = route[q]
  BY <1>0, <1>1 DEF TypeInv, ClusterTypes
<1>3. n.status = m /\ n.services = o.services /\ n.deleting = o.deleting
  BY <1>0 DEF Objects
<1>4. n \in Objects
  BY <1>0, ObjectIs, PatchType, ObjectUpdates, Zenon
<1>5. RouteKnown(r) /\ Undeleted(r)' = Undeleted(r)
  BY <1>0 DEF Calm, Undeleted
<1>6. /\ Whole(o) /\ Whole(cRoute[r]) /\ cRoute[r].services = o.services
      /\ DOMAIN b \subseteq DOMAIN a
  BY <1>0, <1>5, ObjectsExist, Zenon DEF RouteKnown, CacheOlder
<1>7. DOMAIN a \in {{}, D} /\ DOMAIN b \in {{}, D}
  BY <1>6, Zenon DEF Whole
<1>8. \A k \in R : k \in DOMAIN a => a[k] = t[k]
  <2>1. TableKnows(r)
    BY <1>0, <1>5, ObjectsExist DEF RouteKnown, InHand, Working
  <2> QED BY <1>0, <1>7, <2>1 DEF TableKnows
<1>9. obj.services = o.services /\ DOMAIN obj.status = D /\ \A k \in D : obj.status[k] = t[k]
  <2>1. obj.services = o.services /\ DOMAIN obj.status \subseteq D
    BY <1>0 DEF Calm, WorkerKnows, Working
  <2>2. \A g \in o.services \X Parts :
          StatusKey(g) \in DOMAIN obj.status /\ obj.status[StatusKey(g)] = Target(g[1], cur)
    BY <1>0, <2>1, Zenon DEF Calm, WorkerKnows
  <2>3. \A g \in o.services \X Parts : StatusKey(g)[1] = g[1]
    BY <1>0, ObjectIs, KeysAre
  <2>4. \A k \in D : k \in DOMAIN obj.status /\ obj.status[k] = Target(k[1], cur)
    <3> SUFFICES ASSUME NEW k \in D
                 PROVE  k \in DOMAIN obj.status /\ obj.status[k] = Target(k[1], cur)
      OBVIOUS
    <3>1. PICK g \in o.services \X Parts : k = StatusKey(g)
      BY Zenon DEF Keys
    <3> QED BY <2>2, <2>3, <3>1, Zenon
  <2> QED BY <2>1, <2>4
<1>10. DOMAIN m = D /\ \A k \in R : m[k] = t[k]
  <2>0. R \subseteq D
    OBVIOUS
  <2> HIDE DEF a, b, m, D, t, R
  <2>1. PICK c : c = obj.status
    OBVIOUS
  <2>2. DOMAIN c = D /\ \A g \in D : c[g] = t[g]
    BY <1>9, <2>1
  <2>3. /\ DOMAIN MergePatch(a, b, c) = D
        /\ \A k \in D : \/ MergePatch(a, b, c)[k] = c[k]
                        \/ k \in DOMAIN a /\ MergePatch(a, b, c)[k] = a[k]
    BY <1>6, <1>7, <2>2, PatchKeeps, SMTT(30)
  <2>4. m = MergePatch(a, b, c)
    BY <2>1 DEF m
  <2> QED BY <1>8, <2>0, <2>2, <2>3, <2>4, Zenon
<1>11. \A s \in o.services : HasPort(s, r)
  BY <1>0, <1>9, Zenon DEF TypeInv, PortsReady
<1>12. \A s, q : (HasPort(s, q)' <=> HasPort(s, q)) /\ Target(s, q)' = Target(s, q)
  BY <1>0, SamePorts
<1>13. \A k \in R : HasPort(k[1], r)' /\ m[k] = Target(k[1], r)'
  <2>1. \A k \in R : k[1] \in o.services /\ t[k] = Target(k[1], r)
    BY <1>0, ObjectIs, KeysAre
  <2> HIDE DEF m, D, t, R
  <2> QED BY <1>10, <1>11, <1>12, <2>1, Zenon
<1>14. \A k \in D : k[1] \notin AsIs => m[k] = m[<<k[1], "service">>]
  <2>1. \A k \in D : k[1] \notin AsIs => <<k[1], "service">> \in D
    BY <1>0, ObjectIs, KeysAre
  <2>2. \A k \in D : k[1] \notin AsIs =>
          k \in R /\ <<k[1], "service">> \in R /\ t[k] = t[<<k[1], "service">>]
    BY <2>1 DEF Remembered
  <2> HIDE DEF m, D, t, R
  <2> QED BY <1>10, <2>2
<1> HIDE DEF n, m, t
<1>15. RouteKnown(r)'
  <2>1. Whole(route[r])'
    BY <1>0, <1>2, <1>3, <1>10, <1>14, Zenon DEF Whole
  <2>2. Whole(cRoute[r])'
    BY <1>0, <1>6 DEF Whole
  <2>3. IsObject(n) /\ (~Undeleted(r) => Ended(n))
    BY <1>0, <1>3, <1>4, <1>5, ObjectsExist, Zenon DEF RouteKnown, CacheOlder, Ended
  <2>4. DOMAIN b \subseteq DOMAIN n.status
    BY <1>3, <1>7, <1>10
  <2>5. CacheOlder(r)'
    BY <1>0, <1>2, <1>3, <1>5, <1>6, <2>2, <2>3, <2>4, Zenon DEF CacheOlder, IsObject
  <2>6. TableKnows(r)'
    BY <1>2, <1>3, <1>10, <1>13, Zenon DEF TableKnows, Remembered
  <2> QED BY <2>1, <2>5, <2>6 DEF RouteKnown
<1>16. ASSUME NEW q \in Routes \ {r} PROVE RouteKnown(q)'
  <2>1. ~InHand(q)'
    BY <1>0 DEF InHand, Working
  <2> QED BY <1>0, <1>2, <1>12, <2>1, KnownRests, Zenon DEF Calm
<1>17. WorkerKnows'
  BY <1>0, Zenon DEF WorkerKnows, Working
<1>18. KeepsRecords
  <2>1. \A k \in DOMAIN o.status :
          k \in DOMAIN n.status /\ (Remembered(k[1]) => n.status[k] = o.status[k])
    BY <1>3, <1>7, <1>8, <1>10
  <2> QED BY <1>0, <1>2, <2>1 DEF KeepsRecords, Remembered
<1> QED BY <1>0, <1>15, <1>16, <1>17, <1>18 DEF Calm

\* The worker drops its Route without having written it.
LEMMA DropCalm ==
  ASSUME TypeInv, Calm, UNCHANGED <<topology, restarts, allocVars, route, disabled, caches>>,
         Done \/ Retry
  PROVE  Calm' /\ KeepsRecords
<1>1. pc' = "idle" /\ cRoute' = cRoute
  BY DEF Done, Retry, Idle, Read, caches
<1>2. \A s, q : (HasPort(s, q)' <=> HasPort(s, q)) /\ Target(s, q)' = Target(s, q)
  BY SamePorts
<1>3. ASSUME NEW q \in Routes PROVE RouteKnown(q)'
  <2>1. ~InHand(q)'
    BY <1>1 DEF InHand, Working
  <2> QED BY <1>1, <1>2, <2>1, KnownRests, Zenon DEF Calm
<1>4. WorkerKnows'
  BY <1>1 DEF WorkerKnows, Working
<1> QED BY <1>3, <1>4 DEF Calm, KeepsRecords
\* The cleanup of a Route that the cache shows as deleted: its ports go, and the
\* Route itself, which is not live any more.
LEMMA CleanupCalm ==
  ASSUME TypeInv, Calm, UNCHANGED <<topology, restarts>>,
         CleanupService \/ DeallocatePortsForRoute \/ RemoveFinalizer
  PROVE  Calm' /\ KeepsRecords
<1> PICK r : r = cur
  OBVIOUS
<1>0. /\ pc \in {"cleanup", "unfinal"} /\ r \in Routes /\ obj \in Objects
      /\ UNCHANGED <<disabled, caches, cRoute>> /\ ~Undeleted(r) /\ RouteKnown(r)
  BY Zenon DEF TypeInv, WorkerTypes, CleanupService, DeallocatePortsForRoute, RemoveFinalizer,
         Calm, WorkerKnows, caches, Undeleted
<1>1. ASSUME pc' \in {"cleanup", "unfinal"}, route' = route, cur' = cur,
             \A q \in Routes \ {r} : \A s :
               HasPort(s, q) => HasPort(s, q)' /\ Target(s, q)' = Target(s, q)
      PROVE  Calm' /\ KeepsRecords
  <2>1. ASSUME NEW q \in Routes PROVE RouteKnown(q)'
    <3>1. ~InHand(q)' /\ ~InHand(q)
      BY <1>0, <1>1 DEF InHand, Working
    <3>2. RouteKnown(q) /\ (Undeleted(q) => q # r)
      BY <1>0 DEF Calm
    <3>3. Undeleted(q) => \A s : HasPort(s, q) => HasPort(s, q)' /\ Target(s, q)' = Target(s, q)
      BY <1>1, <3>2
    <3> QED BY <1>0, <1>1, <3>1, <3>2, <3>3, KnownRests, Zenon
  <2>2. WorkerKnows'
    BY <1>0, <1>1 DEF WorkerKnows, Working, Undeleted
  <2> QED BY <1>0, <1>1, <2>1, <2>2 DEF Calm, KeepsRecords
<1>2. CASE CleanupService
  <2>1. pc' = "cleanup" /\ UNCHANGED <<allocVars, route, cur>>
    BY <1>2 DEF CleanupService, Goto
  <2>2. \A s, q : (HasPort(s, q)' <=> HasPort(s, q)) /\ Target(s, q)' = Target(s, q)
    BY <2>1, SamePorts
  <2> QED BY <1>1, <2>1, <2>2
<1>3. CASE DeallocatePortsForRoute
  <2>1. /\ pc' = "unfinal" /\ UNCHANGED <<route, cur>>
        /\ DeallocateEndpoints({endpointKey(s, r) : s \in obj.services})
    BY <1>3 DEF DeallocatePortsForRoute, Goto
  <2>2. \A t, q : q # r /\ HasPort(t, q) => HasPort(t, q)' /\ Target(t, q)' = Target(t, q)
    BY <2>1, DeallocateLeaves DEF TypeInv
  <2> QED BY <1>1, <2>1, <2>2
<1>4. CASE RemoveFinalizer /\ route[r] # obj
  <2>1. UNCHANGED <<allocVars, route>> /\ Retry
    BY <1>4 DEF RemoveFinalizer
  <2> QED BY <1>0, <2>1, DropCalm
<1>5. CASE RemoveFinalizer /\ route[r] = obj
  <2>1. UNCHANGED allocVars /\ pc' = "idle" /\ route' = [route EXCEPT ![r] = WithoutFinalizer(@)]
    BY <1>5, Zenon DEF RemoveFinalizer, Done, Idle, Read
  <2>2. route[r].deleting
    BY <1>0, <1>5, ObjectsExist DEF RouteKnown, CacheOlder, Ended
  <2>3. route'[r] = Gone /\ \A q \in Routes \ {r} : route'[q] = route[q]
    BY <1>0, <2>1, <2>2 DEF WithoutFinalizer, TypeInv, ClusterTypes
  <2>4. \A s, q : (HasPort(s, q)' <=> HasPort(s, q)) /\ Target(s, q)' = Target(s, q)
    BY <2>1, SamePorts
  <2>5. RouteKnown(r)'
    <3>1. IsObject(cRoute[r]) => Whole(cRoute[r])'
      BY <1>0, PartsAre, Zenon DEF RouteKnown, CacheOlder, Whole
    <3> QED BY <1>0, <2>3, <3>1, ObjectsExist, Zenon DEF RouteKnown, CacheOlder, Ended
  <2>6. ASSUME NEW q \in Routes \ {r} PROVE RouteKnown(q)'
    <3>1. ~InHand(q)'
      BY <2>1 DEF InHand, Working
    <3> QED BY <1>0, <2>3, <2>4, <3>1, KnownRests, Zenon DEF Calm
  <2>7. WorkerKnows'
    BY <2>1, Zenon DEF WorkerKnows, Working
  <2>8. KeepsRecords
    BY <2>3, ObjectsExist DEF KeepsRecords
  <2> QED BY <1>0, <2>5, <2>6, <2>7, <2>8 DEF Calm
<1> QED BY <1>2, <1>3, <1>4, <1>5

\* The counters only grow, and only a restart is counted as one.
LEMMA CountersGrow ==
  ASSUME Next, updates \in Nat, toggles \in Nat
  PROVE  /\ updates' \in {updates, updates + 1} /\ toggles' \in {toggles, toggles + 1}
         /\ restarts' = restarts \/ (Restart /\ restarts' = restarts + 1)
<1>1. CASE Environment
  BY <1>1 DEF Environment, CreateRoute, UpdateRoute, DeleteRoute, ToggleDisable, Restart, bounds
<1>2. CASE Informers
  BY <1>2, Zenon DEF Informers, Resync, SyncService, SyncRoute, SyncResource, SyncEnvoy,
              CollectGarbage, bounds
<1>3. CASE EnvoyReconciler
  BY <1>3, ZenonT(30) DEF EnvoyReconciler, EnvoyAllocate, bounds
<1>4. CASE RouteReconciler
  BY <1>4 DEF RouteReconciler, Skip, Begin, cleanupOrphanedServices, ManageServices,
     AllocatePortsForRoutes, ApplyService, UpdateRouteStatus, manageRoutes, CleanupBegin,
     CleanupService, DeallocatePortsForRoute, RemoveFinalizer, bounds
<1> QED BY <1>1, <1>2, <1>3, <1>4 DEF Next

\* Every step in which no spec changes and nothing is switched off.
LEMMA CalmStep ==
  ASSUME TypeInv, Calm, Next, UNCHANGED topology, updates' = updates, toggles' = toggles,
         updates \in Nat, toggles \in Nat, restarts \in Nat
  PROVE  Calm' /\ KeepsRecords
<1> SUFFICES ASSUME restarts' = restarts PROVE Calm' /\ KeepsRecords
  BY CountersGrow, RestartCalm
<1>1. CASE Environment
  <2>1. \A r \in Routes : ~UpdateRoute(r)
    BY DEF UpdateRoute
  <2>2. ~ToggleDisable
    BY DEF ToggleDisable
  <2> QED BY <1>1, <2>1, <2>2, CreateCalm, DeleteCalm, RestartCalm DEF Environment
<1>2. CASE Informers
  <2>1. ASSUME UNCHANGED <<allocVars, route, disabled, cRoute, worker>>
        PROVE  Calm' /\ KeepsRecords
    BY <2>1, CalmRests DEF KeepsRecords
  <2>2. CASE Resync
    BY <2>1, <2>2 DEF Resync, caches
  <2>3. CASE \E g \in Generated : SyncService(g)
    BY <2>1, <2>3, Zenon DEF SyncService
  <2>4. ASSUME NEW r \in Routes, SyncResource(r) \/ SyncEnvoy(r) \/ CollectGarbage(r)
        PROVE  Calm' /\ KeepsRecords
    BY <2>1, <2>4, Zenon DEF SyncResource, SyncEnvoy, CollectGarbage, caches
  <2> QED BY <1>2, <2>2, <2>3, <2>4, SyncCalm DEF Informers
<1>3. CASE EnvoyReconciler
  BY <1>3, EnvoyCalm DEF EnvoyReconciler
<1>4. CASE RouteReconciler
  <2>1. CASE UpdateRouteStatus /\ ~(IsObject(cRoute[cur]) /\ IsObject(route[cur]))
    <3>1. UNCHANGED <<allocVars, route, disabled, caches>> /\ Retry
      BY <2>1 DEF UpdateRouteStatus
    <3> QED BY <3>1, DropCalm
  <2>2. CASE manageRoutes
    <3>1. UNCHANGED <<allocVars, route, disabled, caches>> /\ (Done \/ Retry)
      BY <2>2 DEF manageRoutes
    <3> QED BY <3>1, DropCalm
  <2> QED BY <1>4, <2>1, <2>2, StartCalm, PrepareCalm, ApplyCalm, PatchCalm, CleanupCalm, Zenon
          DEF RouteReconciler
<1> QED BY <1>1, <1>2, <1>3, <1>4 DEF Next

\* A Service recorded in a Route's status stays recorded as long as no spec changes
\* and nothing is switched off: with its port, restarts or not, when the entry is
\* the one LoadState looks up, and until the first restart when it is not.
THEOREM RecordedServicesStay == Spec => RecordedServiceStable
<1> DEFINE Step == [Next /\ UNCHANGED topology]_<<vars, topology>>
<1>1. Init => TypeInv /\ KeptInv
  <2> SUFFICES ASSUME Init PROVE TypeInv /\ KeptInv
    OBVIOUS
  <2>1. \A r \in Routes : RouteKnown(r)
    <3>1. \A r \in Routes : route[r] = Absent /\ cRoute[r] = Absent
      BY DEF Init
    <3> QED BY <3>1, ObjectsExist, Zenon DEF RouteKnown, CacheOlder, Undeleted
  <2>2. WorkerKnows
    BY DEF Init, WorkerKnows, Working
  <2>3. ~disabled /\ updates \in Nat /\ toggles \in Nat /\ restarts \in Nat
    BY DEF Init
  <2> QED BY <2>1, <2>2, <2>3, TypeInvInit DEF KeptInv, Calm
<1>2. ASSUME TypeInv, KeptInv, Step
      PROVE  TypeInv' /\ KeptInv' /\ [RecordedServicesKept]_vars
  <2>1. TypeInv'
    BY <1>2, TypeInvStep
  <2>2. CASE UNCHANGED <<vars, topology>>
    <3>1. UNCHANGED <<topology, allocVars, route, disabled, cRoute, worker,
                    updates, toggles, restarts>>
      BY <2>2 DEF vars, caches, bounds
    <3>2. Calm => Calm'
      BY <1>2, <3>1, CalmRests
    <3> QED BY <1>2, <2>1, <2>2, <3>1, <3>2 DEF KeptInv, Quiet
  <2>3. CASE Next /\ UNCHANGED topology
    <3>1. /\ updates \in Nat /\ toggles \in Nat /\ restarts \in Nat /\ restarts' \in Nat
          /\ updates' \in {updates, updates + 1} /\ toggles' \in {toggles, toggles + 1}
      BY <1>2, <2>3, CountersGrow DEF KeptInv
    <3>2. ASSUME Quiet' PROVE Calm' /\ KeepsRecords
      <4>1. Quiet /\ updates' = updates /\ toggles' = toggles
        BY <3>1, <3>2 DEF Quiet
      <4> QED BY <1>2, <2>3, <3>1, <4>1, CalmStep DEF KeptInv
    <3>3. KeptInv'
      BY <3>1, <3>2 DEF KeptInv
    <3>4. RecordedServicesKept
      BY <3>2 DEF RecordedServicesKept, KeepsRecords, Quiet
    <3> QED BY <2>1, <3>3, <3>4
  <2> QED BY <1>2, <2>2, <2>3
<1> QED BY <1>1, <1>2, PTL DEF Spec, RecordedServiceStable
==============================================================================
