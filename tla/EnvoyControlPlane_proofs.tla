----------------------- MODULE EnvoyControlPlane_proofs -----------------------
(***************************************************************************)
(* A snapshot is never offered without a proxy, for any set of tenants, in *)
(* both topologies, whatever is changed and however often; and when the    *)
(* reconciler has nothing left to do, proxies and snapshots are the wanted *)
(* ones.  And a tenant's annotations win over defaults.                    *)
(***************************************************************************)
EXTENDS EnvoyControlPlane, PropagatedAnnotations, TLAPS

\* Between its steps the worker relies on the snapshot it has cleared and on the
\* proxy it has written.
ProxyInv ==
  /\ TypeOK
  /\ ServedByProxy
  /\ pc = "cleanup" => snapshot[NameOf(cur)] = {}
  /\ pc = "snapshot" => proxy[<<KindOf(conf), NameOf(cur)>>] # Absent

\* The proxy a configuration asks for is one of the keys.
LEMMA ProxyKey ==
  ASSUME NEW n \in Tenants, NEW c
  PROVE  NameOf(n) \in Names /\ <<KindOf(c), NameOf(n)>> \in Proxies /\ KindOf(c) \in Kinds
BY DEF Names, Proxies, KindOf, Kinds, NameOf, NameIn

\* What is written is a template the API server has completed.
LEMMA WrittenTemplate ==
  ASSUME NEW c \in Configs
  PROVE  /\ getEnvoyProxyPodSpec(c) \in Templates
         /\ Defaulted(getEnvoyProxyPodSpec(c)) \in Stored
         /\ Defaulted(getEnvoyProxyPodSpec(c)) # Absent
         /\ getEnvoyProxyPodSpec(c) \notin Stored
<1>1. getEnvoyProxyPodSpec(c) \in Templates
  BY DEF getEnvoyProxyPodSpec, Templates, Configs
<1>2. \A t \in Templates : Defaulted(t) \in Templates /\ Defaulted(t).defaulted = TRUE
  BY Zenon DEF Templates, Defaulted
<1>3. ~getEnvoyProxyPodSpec(c).defaulted
  BY DEF getEnvoyProxyPodSpec
<1> QED BY <1>1, <1>2, <1>3, EnvoyAssumption DEF Stored

\* The initial state.
LEMMA ProxyInit == Init => ProxyInv
<1> SUFFICES ASSUME Init PROVE ProxyInv
  OBVIOUS
<1>1. config \in Configs
  BY EnvoyAssumption DEF Init, Configs
<1>2. TypeOK
  BY <1>1 DEF Init, TypeOK
<1> QED BY <1>2 DEF ProxyInv, ServedByProxy, Init

\* Steps that touch neither proxies nor snapshots.
LEMMA QuietStep ==
  ASSUME ProxyInv, TypeOK', UNCHANGED <<topology, proxy, snapshot>>,
         UNCHANGED <<pc, cur, conf>> \/ pc' \in {"idle", "proxy"}
  PROVE  ProxyInv'
BY DEF ProxyInv, ServedByProxy, NameOf

\* The environment and the informers never touch a proxy or a snapshot.
LEMMA OutsideInv ==
  ASSUME ProxyInv,
         \/ \E n \in Tenants : \/ ChangeTenant(n) \/ CreateAddresses(n) \/ OtherEvent(n)
                               \/ SyncTenant(n) \/ SyncAddresses(n)
         \/ \E i \in Images : ChangeImage(i)
         \/ SwitchKind \/ SyncConfig
         \/ \E p \in Proxies : SyncProxy(p)
         \/ UNCHANGED vars
  PROVE  ProxyInv'
<1> USE DEF api, cache, worker, bounds
<1>1. ASSUME NEW n \in Tenants, ChangeTenant(n) \/ CreateAddresses(n) \/ OtherEvent(n)
      PROVE  ProxyInv'
  BY <1>1, QuietStep, Zenon DEF ProxyInv, TypeOK, ChangeTenant, CreateAddresses, OtherEvent
<1>2. ASSUME NEW n \in Tenants, SyncTenant(n) \/ SyncAddresses(n)
      PROVE  ProxyInv'
  BY <1>2, QuietStep DEF ProxyInv, TypeOK, SyncTenant, SyncAddresses
<1>3. ASSUME NEW i \in Images, ChangeImage(i)
      PROVE  ProxyInv'
  <2>1. config' \in Configs
    BY <1>3 DEF ProxyInv, TypeOK, ChangeImage, Configs
  <2> QED BY <1>3, <2>1, QuietStep DEF ProxyInv, TypeOK, ChangeImage
<1>4. ASSUME SwitchKind
      PROVE  ProxyInv'
  <2>1. config' \in Configs
    BY <1>4, Zenon DEF ProxyInv, TypeOK, SwitchKind, Configs
  <2> QED BY <1>4, <2>1, QuietStep DEF ProxyInv, TypeOK, SwitchKind
<1>5. ASSUME SyncConfig
      PROVE  ProxyInv'
  BY <1>5, QuietStep, Zenon DEF ProxyInv, TypeOK, SyncConfig, enqueueAllLoadBalancers
<1>6. ASSUME NEW p \in Proxies, SyncProxy(p)
      PROVE  ProxyInv'
  BY <1>6, QuietStep DEF ProxyInv, TypeOK, SyncProxy
<1>7. ASSUME UNCHANGED vars
      PROVE  ProxyInv'
  BY <1>7, QuietStep DEF ProxyInv, TypeOK, vars
<1> QED BY <1>1, <1>2, <1>3, <1>4, <1>5, <1>6, <1>7, Zenon

\* Reconcile's first step clears the snapshot or leaves everything in place.
LEMMA BeginInv ==
  ASSUME ProxyInv, NEW n \in Tenants, Begin(n)
  PROVE  ProxyInv'
<1> USE DEF api, cache, bounds
<1>1. NameOf(n) \in Names
  BY ProxyKey, Zenon
<1>2. list' \subseteq Tenants
  BY DEF Begin, ListLoadBalancersAndRoutes, ProxyInv, TypeOK
<1>3. CASE UNCHANGED snapshot /\ pc' = "proxy"
  <2>1. TypeOK'
    BY <1>2, <1>3, Zenon DEF Begin, ProxyInv, TypeOK, GetConfig
  <2> QED BY <1>3, <2>1, QuietStep DEF Begin
<1>4. CASE ClearSnapshot(NameOf(n)) /\ pc' = "cleanup"
  <2>1. TypeOK'
    BY <1>1, <1>2, <1>4 DEF Begin, ProxyInv, TypeOK, GetConfig, ClearSnapshot
  <2>2. /\ snapshot'[NameOf(n)] = {} /\ cur' = n /\ UNCHANGED proxy
        /\ UNCHANGED topology
        /\ \A s \in Names : s # NameOf(n) => snapshot'[s] = snapshot[s]
    BY <1>1, <1>4 DEF Begin, ProxyInv, TypeOK, ClearSnapshot
  <2> QED BY <1>4, <2>1, <2>2 DEF ProxyInv, ServedByProxy, NameOf
<1> QED BY <1>3, <1>4 DEF Begin

\* cleanupEnvoyProxy removes the proxy of a snapshot that has been cleared.
LEMMA CleanupInv ==
  ASSUME ProxyInv, cleanupEnvoyProxy
  PROVE  ProxyInv'
<1> DEFINE p == <<KindOf(conf), NameOf(cur)>>
<1>1. /\ cur \in Tenants /\ p \in Proxies /\ snapshot[NameOf(cur)] = {}
      /\ pc' = "idle" /\ list' = {} /\ UNCHANGED <<snapshot, queue>>
      /\ proxy' = [proxy EXCEPT ![p] = Absent]
      /\ UNCHANGED <<topology, wanted, addrs, config, cache>>
  BY ProxyKey DEF cleanupEnvoyProxy, ProxyInv, TypeOK, Done, WorkerIdle
<1>2. TypeOK'
  BY <1>1 DEF ProxyInv, TypeOK, cache
<1>3. \A s \in Names, k \in Kinds : s # NameOf(cur) => proxy'[<<k, s>>] = proxy[<<k, s>>]
  BY <1>1 DEF ProxyInv, TypeOK, Proxies
<1> QED BY <1>1, <1>2, <1>3 DEF ProxyInv, ServedByProxy

\* ensureEnvoyProxy goes on only after it has written the proxy: no template read
\* from the API server equals a desired one, so it never skips the write.
LEMMA EnsureInv ==
  ASSUME ProxyInv, ensureEnvoyProxy
  PROVE  ProxyInv'
<1> DEFINE p == <<KindOf(conf), NameOf(cur)>>
           desired == getEnvoyProxyPodSpec(conf)
<1>1. /\ cur \in Tenants /\ conf \in Configs /\ p \in Proxies
      /\ UNCHANGED <<topology, wanted, addrs, config, cache, snapshot>>
  BY ProxyKey DEF ensureEnvoyProxy, ProxyInv, TypeOK
<1>2. Defaulted(desired) \in Stored /\ Defaulted(desired) # Absent /\ desired \notin Stored
  BY <1>1, WrittenTemplate
<1>3. cProxy[p] # Absent => podTemplateSpecNeedsUpdate(cProxy[p], desired)
  BY <1>1, <1>2 DEF ProxyInv, TypeOK, podTemplateSpecNeedsUpdate
<1>4. CASE UNCHANGED proxy /\ Retry
  <2>1. TypeOK'
    BY <1>1, <1>4 DEF ProxyInv, TypeOK, Retry, WorkerIdle, cache
  <2> QED BY <1>1, <1>4, <2>1, QuietStep DEF Retry, WorkerIdle
<1>5. CASE /\ proxy' = [proxy EXCEPT ![p] = Defaulted(desired)]
           /\ pc' = "snapshot" /\ UNCHANGED <<queue, cur, conf, list>>
  <2>1. TypeOK'
    BY <1>1, <1>2, <1>5 DEF ProxyInv, TypeOK, cache
  <2>2. \A q \in Proxies : proxy[q] # Absent => proxy'[q] # Absent
    BY <1>1, <1>2, <1>5 DEF ProxyInv, TypeOK
  <2>3. proxy'[p] # Absent
    BY <1>1, <1>2, <1>5 DEF ProxyInv, TypeOK
  <2>4. \A s \in Names, k \in Kinds : <<k, s>> \in Proxies
    BY DEF Proxies
  <2> QED BY <1>1, <1>5, <2>1, <2>2, <2>3, <2>4 DEF ProxyInv, ServedByProxy, NameOf
<1> QED BY <1>3, <1>4, <1>5 DEF ensureEnvoyProxy

\* updateCache publishes while the proxy it relies on is there.
LEMMA UpdateCacheInv ==
  ASSUME ProxyInv, updateCache
  PROVE  ProxyInv'
<1>1. /\ cur \in Tenants /\ NameOf(cur) \in Names /\ KindOf(conf) \in Kinds
      /\ proxy[<<KindOf(conf), NameOf(cur)>>] # Absent
      /\ pc' = "idle" /\ list' = {} /\ queue' \subseteq Tenants
      /\ UNCHANGED <<api, cache>>
  BY ProxyKey, Zenon DEF updateCache, ProxyInv, TypeOK, Done, Retry, WorkerIdle
<1>2. CASE UNCHANGED snapshot
  <2>1. TypeOK'
    BY <1>1, <1>2 DEF ProxyInv, TypeOK, api, cache
  <2> QED BY <1>1, <1>2, <2>1, QuietStep DEF api
<1>3. CASE snapshot' = [snapshot EXCEPT ![NameOf(cur)] = list]
  <2>1. TypeOK'
    BY <1>1, <1>3 DEF ProxyInv, TypeOK, api, cache
  <2>2. \A s \in Names : s # NameOf(cur) => snapshot'[s] = snapshot[s]
    BY <1>1, <1>3 DEF ProxyInv, TypeOK
  <2> QED BY <1>1, <2>1, <2>2 DEF ProxyInv, ServedByProxy, api
<1> QED BY <1>2, <1>3 DEF updateCache

\* A restart forgets every snapshot.
LEMMA RestartInv ==
  ASSUME ProxyInv, Restart
  PROVE  ProxyInv'
<1>1. TypeOK'
  BY DEF ProxyInv, TypeOK, Restart, WorkerIdle, api, enqueueAllLoadBalancers
<1> QED BY <1>1 DEF ProxyInv, ServedByProxy, Restart, WorkerIdle

\* Every step keeps the invariant.
LEMMA ProxyStep == ProxyInv /\ [Next]_vars => ProxyInv'
<1> SUFFICES ASSUME ProxyInv, [Next]_vars PROVE ProxyInv'
  OBVIOUS
<1>1. CASE Environment
  BY <1>1, OutsideInv, RestartInv DEF Environment
<1>2. CASE Informers
  BY <1>2, OutsideInv DEF Informers
<1>3. CASE \E n \in Tenants : Begin(n)
  BY <1>3, BeginInv
<1>4. CASE Continue
  BY <1>4, CleanupInv, EnsureInv, UpdateCacheInv DEF Continue
<1>5. CASE UNCHANGED vars
  BY <1>5, OutsideInv
<1> QED BY <1>1, <1>2, <1>3, <1>4, <1>5 DEF Next

\* Reconcile never publishes a snapshot that no Envoy can fetch, and never removes
\* the proxy under one, whatever its cache shows.
THEOREM SnapshotHasProxy == Spec => []ServedByProxy
<1>1. ProxyInv => ServedByProxy
  BY DEF ProxyInv
<1> QED BY <1>1, ProxyInit, ProxyStep, PTL DEF Spec

\* The worker always has a namespace and a configuration to work with between its
\* steps, and its cache knows no Addresses that do not exist.
THEOREM EnvoyTypes == Spec => []TypeOK
<1>1. ProxyInv => TypeOK
  BY DEF ProxyInv
<1> QED BY <1>1, ProxyInit, ProxyStep, PTL DEF Spec

-----------------------------------------------------------------------------
(* What ProxyConverges and SnapshotConverges rest on besides fairness: the  *)
(* reconciler is never done too early.  A proxy and a snapshot that no      *)
(* request and no worker is about to write are those the cache asks for.    *)

\* A request for the snapshot s is in the queue.
Requested(s) == \E m \in queue : NameOf(m) = s

\* The worker is at s.
WorksOn(s) == pc # "idle" /\ NameOf(cur) = s

\* The tenants of s, and the proxy s should have, according to the cache.
CachedPeers(s) == {m \in cWanted : NameOf(m) = s}
ProxyFor(s) == IF CachedPeers(s) # {} THEN Defaulted(getEnvoyProxyPodSpec(cConfig)) ELSE Absent

\* s is as the cache asks for.
Follows(s) == snapshot[s] = CachedPeers(s) /\ proxy[<<KindOf(cConfig), s>>] = ProxyFor(s)

\* What the worker has read is what the cache still shows.
WorkerUpToDate(s) ==
  /\ conf = cConfig /\ list = CachedPeers(s)
  /\ pc = "cleanup" => list = {} /\ snapshot[s] = {}
  /\ pc = "snapshot" => proxy[<<KindOf(cConfig), s>>] = Defaulted(getEnvoyProxyPodSpec(cConfig))
  /\ pc \in {"proxy", "snapshot"} => list # {}

\* Without a request for s nothing is missing that the worker is not about to do.
Settled(s) == ~Requested(s) => IF WorksOn(s) THEN WorkerUpToDate(s) ELSE Follows(s)

RestInv == \A n \in Tenants : Settled(NameOf(n))

\* Nothing is left to do for s, and the cache shows all changes.
AtRest(s) == ~Requested(s) /\ ~WorksOn(s) /\ cWanted = wanted /\ cConfig = config

\* The configured kind of proxy runs with the latest configuration, or is gone where
\* no tenant needs it, and the snapshot serves exactly the tenants it is for.
ConvergedAtRest ==
  \A n \in Tenants : AtRest(NameOf(n)) =>
    /\ snapshot[NameOf(n)] = Peers(n)
    /\ proxy[<<KindOf(config), NameOf(n)>>] =
         IF Demanded(NameOf(n)) THEN Defaulted(getEnvoyProxyPodSpec(config)) ELSE Absent

\* What the cache asks for changes with the cache only.
LEMMA AskedKept ==
  ASSUME UNCHANGED <<topology, cWanted, cConfig>>, NEW s
  PROVE  CachedPeers(s)' = CachedPeers(s) /\ ProxyFor(s)' = ProxyFor(s)
<1>1. CachedPeers(s)' = CachedPeers(s)
  BY DEF CachedPeers, NameOf
<1> QED BY <1>1 DEF ProxyFor

\* The topology is fixed, so the names are: the invariant can be shown name by name.
LEMMA SettledByName ==
  ASSUME UNCHANGED topology, \A n \in Tenants : \A s : s = NameOf(n) => Settled(s)'
  PROVE  RestInv'
<1> SUFFICES ASSUME NEW n \in Tenants PROVE Settled(NameOf(n))'
  BY Zenon DEF RestInv
<1>1. PICK s : s = NameOf(n) /\ s = NameOf(n)'
  BY DEF NameOf
<1>2. Settled(s)'
  BY <1>1, Zenon
<1> QED BY <1>1, <1>2, Zenon
          DEF Settled, Requested, WorksOn, WorkerUpToDate, Follows, CachedPeers, ProxyFor

\* A name that the step does not concern: its requests, what the cache asks for, its
\* snapshot and its proxies stay, and the worker was not at it and does not come to it.
LEMMA Elsewhere ==
  ASSUME UNCHANGED <<topology, cConfig>>, NEW s, Settled(s),
         Requested(s) => Requested(s)', CachedPeers(s)' = CachedPeers(s),
         snapshot'[s] = snapshot[s], \A k \in Kinds : proxy'[<<k, s>>] = proxy[<<k, s>>],
         ~WorksOn(s), ~WorksOn(s)'
  PROVE  Settled(s)'
<1>1. ProxyFor(s)' = ProxyFor(s)
  BY Zenon DEF ProxyFor
<1>2. KindOf(cConfig) \in Kinds
  BY DEF KindOf, Kinds
<1> QED BY <1>1, <1>2 DEF Settled, Follows

\* Steps that at most add requests.
LEMMA RequestsOnly ==
  ASSUME RestInv, UNCHANGED <<topology, cWanted, cConfig, proxy, snapshot, worker>>,
         queue \subseteq queue'
  PROVE  RestInv'
<1> SUFFICES ASSUME NEW n \in Tenants, NEW s, s = NameOf(n) PROVE Settled(s)'
  BY SettledByName, Zenon
<1>1. Settled(s)
  BY Zenon DEF RestInv
<1>2. Requested(s) => Requested(s)'
  BY DEF Requested, NameOf
<1>3. CachedPeers(s)' = CachedPeers(s) /\ ProxyFor(s)' = ProxyFor(s)
  BY AskedKept, Zenon
<1>4. WorksOn(s)' = WorksOn(s)
  BY DEF WorksOn, NameOf, worker
<1>5. WorkerUpToDate(s) => WorkerUpToDate(s)'
  BY <1>3 DEF WorkerUpToDate, worker
<1>6. Follows(s) => Follows(s)'
  BY <1>3 DEF Follows
<1> QED BY <1>1, <1>2, <1>4, <1>5, <1>6 DEF Settled

\* A step after which there is a request for every tenant.
LEMMA AllRequested ==
  ASSUME UNCHANGED topology, Tenants \subseteq queue'
  PROVE  RestInv'
<1> SUFFICES ASSUME NEW n \in Tenants, NEW s, s = NameOf(n) PROVE Settled(s)'
  BY SettledByName, Zenon
<1>1. Requested(s)'
  BY DEF Requested, NameOf
<1> QED BY <1>1 DEF Settled

\* The event of a tenant requests the snapshot it belongs to.
LEMMA SyncTenantRests ==
  ASSUME RestInv, NEW t \in Tenants, SyncTenant(t)
  PROVE  RestInv'
<1>1. /\ UNCHANGED <<topology, cConfig, proxy, snapshot, worker>> /\ queue' = queue \cup {t}
      /\ \A m : m # t => (m \in cWanted' <=> m \in cWanted)
  BY DEF SyncTenant, api
<1> SUFFICES ASSUME NEW n \in Tenants, NEW s, s = NameOf(n) PROVE Settled(s)'
  BY <1>1, SettledByName, Zenon
<1>2. CASE NameOf(t) = s
  <2>1. Requested(s)'
    BY <1>1, <1>2 DEF Requested, NameOf
  <2> QED BY <2>1 DEF Settled
<1>3. CASE NameOf(t) # s
  <2>1. Settled(s)
    BY Zenon DEF RestInv
  <2>2. Requested(s) => Requested(s)'
    BY <1>1 DEF Requested, NameOf
  <2>3. CachedPeers(s)' = CachedPeers(s)
    BY <1>1, <1>3 DEF CachedPeers, NameOf
  <2>4. ProxyFor(s)' = ProxyFor(s)
    BY <1>1, <2>3 DEF ProxyFor
  <2>5. WorksOn(s)' = WorksOn(s)
    BY <1>1, Zenon DEF WorksOn, NameOf, worker
  <2>6. WorkerUpToDate(s) => WorkerUpToDate(s)'
    BY <1>1, <2>3, Zenon DEF WorkerUpToDate, worker
  <2>7. Follows(s) => Follows(s)'
    BY <1>1, <2>3, <2>4 DEF Follows
  <2> QED BY <2>1, <2>2, <2>5, <2>6, <2>7 DEF Settled
<1> QED BY <1>2, <1>3

\* Begin reads the cache.
LEMMA BeginRests ==
  ASSUME TypeOK, RestInv, NEW t \in Tenants, Begin(t)
  PROVE  RestInv'
<1>1. /\ pc = "idle" /\ pc' \in {"cleanup", "proxy"} /\ cur' = t /\ conf' = cConfig
      /\ queue' = queue \ {t} /\ list' = ListLoadBalancersAndRoutes(t)
      /\ pc' = "cleanup" => list' = {} /\ snapshot' = [snapshot EXCEPT ![NameOf(t)] = {}]
      /\ pc' = "proxy" => list' # {} /\ snapshot' = snapshot
      /\ UNCHANGED <<topology, cWanted, cConfig, proxy>>
  BY DEF Begin, ClearSnapshot, GetConfig, api, cache
<1> SUFFICES ASSUME NEW n \in Tenants, NEW s, s = NameOf(n) PROVE Settled(s)'
  BY <1>1, SettledByName, Zenon
<1>2. s \in Names /\ snapshot \in [Names -> SUBSET Tenants] /\ cWanted \subseteq Tenants
      /\ topology \in {"shared", "global"}
  BY ProxyKey, Zenon DEF TypeOK
<1>3. CASE NameOf(t) = s
  <2>1. CachedPeers(s)' = CachedPeers(s)
    BY <1>1, AskedKept
  <2>2. list' = CachedPeers(s)
    BY <1>1, <1>2, <1>3 DEF ListLoadBalancersAndRoutes, CachedPeers, NameOf, NameIn
  <2>3. WorksOn(s)'
    BY <1>1, <1>3 DEF WorksOn, NameOf
  <2>4. WorkerUpToDate(s)'
    BY <1>1, <1>2, <1>3, <2>1, <2>2, Zenon DEF WorkerUpToDate
  <2> QED BY <2>3, <2>4 DEF Settled
<1>4. CASE NameOf(t) # s
  <2>1. Settled(s)
    BY Zenon DEF RestInv
  <2>2. Requested(s) => Requested(s)'
    BY <1>1, <1>4 DEF Requested, NameOf
  <2>3. CachedPeers(s)' = CachedPeers(s)
    BY <1>1, AskedKept
  <2>4. ~WorksOn(s) /\ ~WorksOn(s)'
    BY <1>1, <1>4 DEF WorksOn, NameOf
  <2>5. snapshot'[s] = snapshot[s]
    BY <1>1, <1>2, <1>4
  <2> QED BY <1>1, <2>1, <2>2, <2>3, <2>4, <2>5, Elsewhere
<1> QED BY <1>3, <1>4

\* The worker's later steps: s, at which it is, follows from the second hypothesis;
\* other names are left alone.
LEMMA WorkerRests ==
  ASSUME TypeOK, RestInv, pc # "idle", UNCHANGED <<topology, cWanted, cConfig>>,
         pc' = "idle" \/ cur' = cur, queue \subseteq queue',
         NEW v, snapshot' = snapshot \/ snapshot' = [snapshot EXCEPT ![NameOf(cur)] = v],
         NEW w, \/ proxy' = proxy
                \/ proxy' = [proxy EXCEPT ![<<KindOf(conf), NameOf(cur)>>] = w],
         \A s : s = NameOf(cur) /\ Settled(s) => Settled(s)'
  PROVE  RestInv'
<1> SUFFICES ASSUME NEW n \in Tenants, NEW s, s = NameOf(n) PROVE Settled(s)'
  BY SettledByName, Zenon
<1>1. Settled(s)
  BY Zenon DEF RestInv
<1>2. CASE NameOf(cur) = s
  BY <1>1, <1>2, Zenon
<1>3. CASE NameOf(cur) # s
  <2>1. s \in Names /\ snapshot \in [Names -> SUBSET Tenants]
        /\ proxy \in [Proxies -> Stored \cup {Absent}]
    BY ProxyKey, Zenon DEF TypeOK
  <2>2. Requested(s) => Requested(s)'
    BY DEF Requested, NameOf
  <2>3. CachedPeers(s)' = CachedPeers(s)
    BY AskedKept
  <2>4. ~WorksOn(s) /\ ~WorksOn(s)'
    BY <1>3 DEF WorksOn, NameOf
  <2>5. snapshot'[s] = snapshot[s]
    BY <1>3, <2>1
  <2>6. ASSUME NEW k \in Kinds PROVE proxy'[<<k, s>>] = proxy[<<k, s>>]
    <3>1. <<k, s>> \in Proxies /\ <<k, s>> # <<KindOf(conf), NameOf(cur)>>
      BY <1>3, <2>1 DEF Proxies
    <3> QED BY <2>1, <3>1
  <2> QED BY <1>1, <2>2, <2>3, <2>4, <2>5, <2>6, Elsewhere
<1> QED BY <1>2, <1>3

\* cleanupEnvoyProxy: the proxy of a snapshot without tenants is gone.
LEMMA CleanupRests ==
  ASSUME TypeOK, RestInv, cleanupEnvoyProxy
  PROVE  RestInv'
<1>1. /\ pc = "cleanup" /\ pc' = "idle" /\ UNCHANGED <<topology, cWanted, cConfig, queue, snapshot>>
      /\ proxy' = [proxy EXCEPT ![<<KindOf(conf), NameOf(cur)>>] = Absent]
  BY DEF cleanupEnvoyProxy, Done, WorkerIdle, cache
<1>2. <<KindOf(conf), NameOf(cur)>> \in Proxies /\ proxy \in [Proxies -> Stored \cup {Absent}]
  BY <1>1, ProxyKey DEF TypeOK
<1>3. ASSUME NEW s, s = NameOf(cur), Settled(s) PROVE Settled(s)'
  <2>1. (Requested(s) <=> Requested(s)') /\ WorksOn(s) /\ ~WorksOn(s)'
    BY <1>1, <1>3 DEF Requested, WorksOn, NameOf
  <2>2. CachedPeers(s)' = CachedPeers(s) /\ ProxyFor(s)' = ProxyFor(s)
    BY <1>1, AskedKept
  <2>3. ASSUME WorkerUpToDate(s) PROVE Follows(s)'
    <3>1. conf = cConfig /\ CachedPeers(s) = {} /\ snapshot[s] = {}
      BY <1>1, <2>3 DEF WorkerUpToDate
    <3>2. proxy'[<<KindOf(cConfig), s>>] = Absent /\ ProxyFor(s) = Absent
      BY <1>1, <1>2, <1>3, <3>1 DEF ProxyFor
    <3> QED BY <1>1, <2>2, <3>1, <3>2, Zenon DEF Follows
  <2> QED BY <1>3, <2>1, <2>3 DEF Settled
<1>4. pc # "idle" /\ queue \subseteq queue'
  BY <1>1, Zenon
<1> QED BY <1>1, <1>3, <1>4, WorkerRests, Zenon

\* ensureEnvoyProxy: the proxy has been written from the cached configuration.
LEMMA EnsureRests ==
  ASSUME TypeOK, RestInv, ensureEnvoyProxy
  PROVE  RestInv'
<1> DEFINE p == <<KindOf(conf), NameOf(cur)>>
           template == Defaulted(getEnvoyProxyPodSpec(conf))
<1>1. /\ pc = "proxy" /\ UNCHANGED <<topology, cWanted, cConfig, snapshot>>
      /\ conf \in Configs /\ p \in Proxies
      /\ proxy \in [Proxies -> Stored \cup {Absent}] /\ cProxy \in [Proxies -> Stored \cup {Absent}]
  BY ProxyKey DEF ensureEnvoyProxy, TypeOK, cache
<1>2. cProxy[p] # Absent => podTemplateSpecNeedsUpdate(cProxy[p], getEnvoyProxyPodSpec(conf))
  BY <1>1, WrittenTemplate DEF podTemplateSpecNeedsUpdate
<1>3. CASE UNCHANGED proxy /\ Retry
  <2>1. pc' = "idle" /\ queue' = queue \cup {cur}
    BY <1>3 DEF Retry, WorkerIdle
  <2>2. ASSUME NEW s, s = NameOf(cur), Settled(s) PROVE Settled(s)'
    <3>1. Requested(s)'
      BY <1>1, <2>1, <2>2 DEF Requested, NameOf
    <3> QED BY <3>1 DEF Settled
  <2>3. pc # "idle" /\ queue \subseteq queue'
    BY <1>1, <2>1
  <2> QED BY <1>1, <1>3, <2>1, <2>2, <2>3, WorkerRests
<1>4. CASE /\ proxy' = [proxy EXCEPT ![p] = template]
           /\ pc' = "snapshot" /\ UNCHANGED <<queue, cur, conf, list>>
  <2>1. ASSUME NEW s, s = NameOf(cur), Settled(s) PROVE Settled(s)'
    <3>1. (Requested(s) <=> Requested(s)') /\ WorksOn(s) /\ WorksOn(s)'
      BY <1>1, <1>4, <2>1 DEF Requested, WorksOn, NameOf
    <3>2. CachedPeers(s)' = CachedPeers(s)
      BY <1>1, AskedKept
    <3>3. proxy'[p] = template
      BY <1>1, <1>4, Zenon
    <3>4. WorkerUpToDate(s) => WorkerUpToDate(s)'
      BY <1>1, <1>4, <2>1, <3>2, <3>3 DEF WorkerUpToDate
    <3> QED BY <2>1, <3>1, <3>4 DEF Settled
  <2>2. pc # "idle" /\ queue \subseteq queue'
    BY <1>1, <1>4
  <2> QED BY <1>1, <1>4, <2>1, <2>2, WorkerRests, Zenon
<1> QED BY <1>2, <1>3, <1>4, Zenon DEF ensureEnvoyProxy

\* updateCache publishes what the cache asks for, or is tried again.
LEMMA UpdateCacheRests ==
  ASSUME TypeOK, RestInv, updateCache
  PROVE  RestInv'
<1>1. /\ pc = "snapshot" /\ pc' = "idle" /\ UNCHANGED <<topology, cWanted, cConfig, proxy>>
      /\ NameOf(cur) \in Names /\ snapshot \in [Names -> SUBSET Tenants]
  BY ProxyKey, Zenon DEF updateCache, Done, Retry, WorkerIdle, TypeOK, api, cache
<1>2. CASE UNCHANGED snapshot /\ queue' = queue \cup {cur}
  <2>1. ASSUME NEW s, s = NameOf(cur), Settled(s) PROVE Settled(s)'
    <3>1. Requested(s)'
      BY <1>1, <1>2, <2>1 DEF Requested, NameOf
    <3> QED BY <3>1 DEF Settled
  <2>2. pc # "idle" /\ queue \subseteq queue'
    BY <1>1, <1>2
  <2> QED BY <1>1, <1>2, <2>1, <2>2, WorkerRests
<1>3. CASE snapshot' = [snapshot EXCEPT ![NameOf(cur)] = list] /\ queue' = queue
  <2>1. ASSUME NEW s, s = NameOf(cur), Settled(s) PROVE Settled(s)'
    <3>1. (Requested(s) <=> Requested(s)') /\ WorksOn(s) /\ ~WorksOn(s)'
      BY <1>1, <1>3, <2>1 DEF Requested, WorksOn, NameOf
    <3>2. CachedPeers(s)' = CachedPeers(s) /\ ProxyFor(s)' = ProxyFor(s)
      BY <1>1, AskedKept, Zenon
    <3>3. WorkerUpToDate(s) => Follows(s)'
      BY <1>1, <1>3, <2>1, <3>2, Zenon DEF WorkerUpToDate, Follows, ProxyFor
    <3> QED BY <2>1, <3>1, <3>3 DEF Settled
  <2>2. pc # "idle" /\ queue \subseteq queue'
    BY <1>1, <1>3
  <2> QED BY <1>1, <1>3, <2>1, <2>2, WorkerRests, Zenon
<1> QED BY <1>2, <1>3 DEF updateCache, Done, Retry

\* Every step keeps the invariant.
LEMMA RestStep == TypeOK /\ RestInv /\ [Next]_vars => RestInv'
<1> SUFFICES ASSUME TypeOK, RestInv, [Next]_vars PROVE RestInv'
  OBVIOUS
<1>1. CASE Environment
  <2>1. CASE Restart
    BY <2>1, AllRequested DEF Restart, enqueueAllLoadBalancers, api
  <2>2. CASE ~Restart
    BY <1>1, <2>2, RequestsOnly
       DEF Environment, ChangeTenant, CreateAddresses, OtherEvent, ChangeImage, SwitchKind,
           api, cache
  <2> QED BY <2>1, <2>2
<1>2. CASE Informers
  <2>1. CASE SyncConfig
    BY <2>1, AllRequested DEF SyncConfig, enqueueAllLoadBalancers, api
  <2>2. CASE \E t \in Tenants : SyncTenant(t)
    BY <2>2, SyncTenantRests, Zenon
  <2>3. CASE (\E t \in Tenants : SyncAddresses(t)) \/ (\E p \in Proxies : SyncProxy(p))
    BY <2>3, RequestsOnly DEF SyncAddresses, SyncProxy, api
  <2> QED BY <1>2, <2>1, <2>2, <2>3 DEF Informers
<1>3. CASE \E t \in Tenants : Begin(t)
  BY <1>3, BeginRests
<1>4. CASE Continue
  BY <1>4, CleanupRests, EnsureRests, UpdateCacheRests DEF Continue
<1>5. CASE UNCHANGED vars
  BY <1>5, RequestsOnly DEF vars, api, cache
<1> QED BY <1>1, <1>2, <1>3, <1>4, <1>5 DEF Next

\* The reconciler is never done too early, whatever events, conflicts, missing
\* Addresses and restarts came in which order: with nothing queued for a proxy and
\* nobody at work on it, it and its snapshot are what ProxyConverges and
\* SnapshotConverges ask for, as soon as the cache shows the latest objects.
THEOREM EnvoyConvergedAtRest == Spec => []ConvergedAtRest
<1>1. Init => RestInv
  BY Zenon DEF Init, RestInv, Settled, Requested
<1>2. ASSUME RestInv PROVE ConvergedAtRest
  <2> SUFFICES ASSUME NEW n \in Tenants, AtRest(NameOf(n))
               PROVE  /\ snapshot[NameOf(n)] = Peers(n)
                      /\ proxy[<<KindOf(config), NameOf(n)>>] =
                           IF Demanded(NameOf(n)) THEN Defaulted(getEnvoyProxyPodSpec(config))
                           ELSE Absent
    BY Zenon DEF ConvergedAtRest
  <2>1. Follows(NameOf(n)) /\ cWanted = wanted /\ cConfig = config
    BY <1>2 DEF RestInv, Settled, AtRest
  <2>2. CachedPeers(NameOf(n)) = Peers(n) /\ (Demanded(NameOf(n)) <=> Peers(n) # {})
    BY <2>1 DEF CachedPeers, Peers, Demanded
  <2> QED BY <2>1, <2>2 DEF Follows, ProxyFor
<1> QED BY <1>1, <1>2, RestStep, EnvoyTypes, PTL DEF Spec

-----------------------------------------------------------------------------
(* PropagatedAnnotations.  What TenantValuesWin rests on besides fairness:  *)
(* the functions the annotations pass through never replace or drop a value *)
(* the tenant may set, and a reconciler that is done has used the latest    *)
(* annotations and settings.                                                *)

\* m has every annotation of w that s lets through, with the value of w.  Two are
\* written by others: that of another controller, and that of the hostname.
HasPermitted(m, w, s) ==
  \A k \in Keys(w) \ {ForeignKey, DNSKey} :
    s.all \/ Permitted(s, k, w[k]) => k \in Keys(m) /\ m[k] = w[k]

Carries(m, w) == \A k \in Keys(w) : k \in Keys(m) /\ m[k] = w[k]

SettingsNow == GetAnnotations(tenantSettings, configSettings)

\* The objects have the tenant's values when there is nothing left to do.
TenantValuesAtRest ==
  stage = "idle" /\ ~toAnnotate =>
    \A r \in Resources : annotated[r] # NoAnnotated => HasPermitted(annotated[r], chosen, SettingsNow)

\* Settings whose defaults are maps.
UsableSettings(s) ==
  s.defaults # Unset => \A r \in DOMAIN s.defaults : s.defaults[r] \in MaybeMaps

AnnTypes ==
  /\ chosen \in MaybeMaps
  /\ tenantSettings \in TenantSettings /\ configSettings \in ConfigSettings
  /\ annotated \in [Resources -> MaybeMaps \cup {NoAnnotated}]
  /\ stage \in {"idle", "Service", "Ingress"}
  /\ stage # "idle" => copy \in MaybeMaps /\ UsableSettings(inForce)

AnnRestInv ==
  /\ AnnTypes
  /\ TenantValuesAtRest
  /\ stage # "idle" /\ ~toAnnotate => inForce = SettingsNow /\ Carries(copy, chosen)
  /\ stage = "Ingress" /\ ~toAnnotate => HasPermitted(annotated["Service"], chosen, SettingsNow)

\* maps.Copy: the second map wins.
LEMMA OverIs ==
  ASSUME NEW m \in MaybeMaps, NEW n \in MaybeMaps
  PROVE  /\ Over(m, n) \in Maps /\ Over(m, n) # NilMap
         /\ Keys(Over(m, n)) = Keys(m) \cup Keys(n)
         /\ \A k \in Keys(n) : Over(m, n)[k] = n[k]
         /\ \A k \in Keys(m) \ Keys(n) : Over(m, n)[k] = m[k]
<1>1. ASSUME NEW x \in MaybeMaps
      PROVE  Keys(x) \in SUBSET AnnotationKeys /\ \A k \in Keys(x) : x[k] \in AnnotationValues
  BY <1>1 DEF MaybeMaps, Maps, Keys
<1>2. PICK K : K = Keys(m) \cup Keys(n)
  BY Zenon
<1>3. K \in SUBSET AnnotationKeys
  BY <1>1, <1>2
<1>4. PICK f : f = Over(m, n)
  OBVIOUS
<1>5. f = [k \in K |-> IF k \in Keys(n) THEN n[k] ELSE m[k]]
  BY <1>2, <1>4, Zenon DEF Over
<1>6. f \in [K -> AnnotationValues]
  BY <1>1, <1>2, <1>5
<1>7. f \in Maps /\ f # NilMap
  BY <1>3, <1>6, AnnotationsAssumption, Zenon DEF Maps
<1>8. DOMAIN f = K /\ Keys(f) = K
  BY <1>5, <1>7, Zenon DEF Keys
<1> QED BY <1>2, <1>4, <1>5, <1>7, <1>8, Zenon

\* What is written over another map is there.
LEMMA OverCarries ==
  ASSUME NEW m \in MaybeMaps, NEW n \in MaybeMaps
  PROVE  Over(m, n) \in MaybeMaps /\ Carries(Over(m, n), n)
BY OverIs, Zenon DEF Carries, MaybeMaps

\* The annotation of another controller does not replace the tenant's.
LEMMA OneMoreKey ==
  ASSUME NEW m \in MaybeMaps, NEW w, NEW s, HasPermitted(m, w, s),
         NEW k \in {ForeignKey, DNSKey}, NEW v \in {ForeignValue, Hostname},
         NEW n, n = [x \in {k} |-> v]
  PROVE  Over(m, n) \in MaybeMaps /\ HasPermitted(Over(m, n), w, s)
<1>1. n \in [{k} -> AnnotationValues] /\ {k} \in SUBSET AnnotationKeys
  BY AnnotationsAssumption
<1>2. n \in Maps /\ n # NilMap
  BY <1>1, AnnotationsAssumption, Zenon DEF Maps
<1>3. Keys(n) = {k}
  BY <1>2 DEF Keys
<1>4. Over(m, n) \in MaybeMaps /\ Keys(Over(m, n)) = Keys(m) \cup {k}
      /\ \A x \in Keys(m) \ {k} : Over(m, n)[x] = m[x]
  BY <1>2, <1>3, OverIs DEF MaybeMaps
<1> QED BY <1>4 DEF HasPermitted

\* Defaults are maps.
LEMMA DefaultsAreMaps ==
  ASSUME NEW s, UsableSettings(s), NEW r
  PROVE  Defaults(s, r) \in MaybeMaps
<1>1. EmptyAnnotations \in [{} -> AnnotationValues]
  BY DEF EmptyAnnotations
<1>2. EmptyAnnotations \in Maps
  BY <1>1, Zenon DEF Maps
<1> QED BY <1>2 DEF Defaults, UsableSettings, MaybeMaps

\* The settings in force have maps as defaults.
LEMMA SettingsUsable ==
  ASSUME NEW t \in TenantSettings, NEW c \in ConfigSettings
  PROVE  UsableSettings(GetAnnotations(t, c))
<1>1. GetAnnotations(t, c).defaults = IF t.defaults # Unset THEN t.defaults ELSE c.defaults
  BY DEF GetAnnotations
<1>2. UsableSettings(t) /\ UsableSettings(c)
  BY AnnotationsAssumption DEF UsableSettings
<1> QED BY <1>1, <1>2, Zenon DEF UsableSettings

\* What is selected of m has what is permitted of it, and is m if all is propagated.
LEMMA SelectedHas ==
  ASSUME NEW m \in MaybeMaps, NEW s
  PROVE  /\ Selected(m, s) \in MaybeMaps
         /\ s.all => Selected(m, s) = m
         /\ \A k \in Keys(m) : s.all \/ Permitted(s, k, m[k])
              => k \in Keys(Selected(m, s)) /\ Selected(m, s)[k] = m[k]
<1>1. CASE s.all
  BY <1>1 DEF Selected
<1>2. CASE ~s.all
  <2>1. PICK K : K = {k \in Keys(m) : Permitted(s, k, m[k])}
    BY Zenon
  <2>2. PICK f : f = [k \in K |-> m[k]]
    BY Zenon
  <2>3. Selected(m, s) = f
    BY <1>2, <2>1, <2>2, Zenon DEF Selected
  <2>4. Keys(m) \in SUBSET AnnotationKeys /\ \A k \in Keys(m) : m[k] \in AnnotationValues
    BY DEF MaybeMaps, Maps, Keys
  <2>5. f \in [K -> AnnotationValues] /\ K \in SUBSET AnnotationKeys
    BY <2>1, <2>2, <2>4
  <2>6. f \in Maps /\ f # NilMap
    BY <2>5, AnnotationsAssumption, Zenon DEF Maps
  <2>7. Keys(f) = K /\ \A k \in K : f[k] = m[k]
    BY <2>2, <2>6, Zenon DEF Keys
  <2> QED BY <1>2, <2>1, <2>3, <2>6, <2>7 DEF MaybeMaps
<1> QED BY <1>1, <1>2

\* PropagateAnnotations never loses a permitted annotation to a default, and leaves
\* the caller's map with all it had.
LEMMA PropagationKeeps ==
  ASSUME NEW m \in MaybeMaps, NEW w, Carries(m, w), NEW s, UsableSettings(s), NEW r
  PROVE  /\ PropagateAnnotations(m, s, r) \in MaybeMaps
         /\ HasPermitted(PropagateAnnotations(m, s, r), w, s)
         /\ AfterPropagation(m, s, r) \in MaybeMaps /\ Carries(AfterPropagation(m, s, r), w)
<1>1. PICK d : d = Over(Defaults(s, "all"), Defaults(s, r))
  OBVIOUS
<1>2. PICK q : q = Selected(m, s)
  OBVIOUS
<1>3. PICK p : p = PropagateAnnotations(m, s, r)
  OBVIOUS
<1>4. d \in MaybeMaps
  BY <1>1, DefaultsAreMaps, OverCarries, Zenon
<1>5. /\ q \in MaybeMaps
      /\ s.all => q = m
      /\ \A k \in Keys(m) : s.all \/ Permitted(s, k, m[k]) => k \in Keys(q) /\ q[k] = m[k]
  BY <1>2, SelectedHas, Zenon
<1>6. p = Over(d, q)
  BY <1>1, <1>2, <1>3, Zenon DEF PropagateAnnotations, applyDefaultAnnotations
<1>7. p \in MaybeMaps /\ Carries(p, q)
  BY <1>4, <1>5, <1>6, OverCarries, Zenon
<1>8. HasPermitted(p, w, s)
  BY <1>5, <1>7, Zenon DEF HasPermitted, Carries
<1>9. AfterPropagation(m, s, r) \in MaybeMaps /\ Carries(AfterPropagation(m, s, r), w)
  <2>1. CASE s.all /\ m # NilMap
    BY <1>3, <1>5, <1>7, <2>1, Zenon DEF AfterPropagation, Carries
  <2>2. CASE ~(s.all /\ m # NilMap)
    BY <2>2, Zenon DEF AfterPropagation
  <2> QED BY <2>1, <2>2
<1> QED BY <1>3, <1>7, <1>8, <1>9

\* The object that is written has the permitted annotations.
LEMMA WriteHas ==
  ASSUME AnnTypes, stage # "idle", NEW r \in Resources, NEW w, Carries(copy, w),
         WriteAnnotations(r)
  PROVE  /\ annotated' \in [Resources -> MaybeMaps \cup {NoAnnotated}]
         /\ annotated'[r] # NoAnnotated
         /\ HasPermitted(annotated'[r], w, inForce)
         /\ \A q \in Resources : q # r => annotated'[q] = annotated[q]
<1>1. copy \in MaybeMaps /\ UsableSettings(inForce)
  BY DEF AnnTypes
<1>2. PICK p : p = PropagateAnnotations(copy, inForce, r)
  OBVIOUS
<1>3. p \in MaybeMaps /\ HasPermitted(p, w, inForce)
  BY <1>1, <1>2, PropagationKeeps, Zenon
<1>4. PICK d : d = Desired(r)
  OBVIOUS
<1>5. d \in MaybeMaps /\ HasPermitted(d, w, inForce)
  <2>1. PICK n : n = [k \in {DNSKey} |-> Hostname]
    BY Zenon
  <2>2. d = p \/ d = Over(p, n)
    BY <1>2, <1>4, <2>1, Zenon DEF Desired, AddDNSAndCertificateAnnotations
  <2>3. Over(p, n) \in MaybeMaps /\ HasPermitted(Over(p, n), w, inForce)
    BY <1>3, <2>1, OneMoreKey
  <2> QED BY <1>3, <2>2, <2>3
<1>6. PICK o : o = annotated[r]
  OBVIOUS
<1>7. o \in MaybeMaps \cup {NoAnnotated}
  BY <1>6 DEF AnnTypes
<1>8. PICK e : e = IF o = NoAnnotated THEN d ELSE MergeAnnotations(o, d)
  OBVIOUS
<1>9. e \in MaybeMaps /\ HasPermitted(e, w, inForce)
  <2>1. CASE o = NoAnnotated \/ o = d
    BY <1>5, <1>8, <2>1, Zenon DEF MergeAnnotations, CompareAnnotations
  <2>2. CASE o # NoAnnotated /\ o # d
    <3>1. e = Over(o, d) /\ o \in MaybeMaps
      BY <1>7, <1>8, <2>2, Zenon DEF MergeAnnotations, CompareAnnotations
    <3>2. e \in MaybeMaps /\ Carries(e, d)
      BY <1>5, <3>1, OverCarries, Zenon
    <3> QED BY <1>5, <3>2, Zenon DEF HasPermitted, Carries
  <2> QED BY <2>1, <2>2
<1>10. OmitEmpty(e) \in MaybeMaps /\ Keys(OmitEmpty(e)) = Keys(e) /\ (OmitEmpty(e) # e => Keys(e) = {})
  <2>1. Keys(EmptyAnnotations) = {} /\ Keys(NilMap) = {}
    BY DEF Keys, EmptyAnnotations
  <2> QED BY <1>9, <2>1 DEF OmitEmpty, MaybeMaps
<1>11. HasPermitted(OmitEmpty(e), w, inForce)
  BY <1>9, <1>10, Zenon DEF HasPermitted
<1>12. annotated' = [annotated EXCEPT ![r] = OmitEmpty(e)]
  BY <1>4, <1>6, <1>8, Zenon DEF WriteAnnotations
<1>13. annotated \in [Resources -> MaybeMaps \cup {NoAnnotated}] /\ NoAnnotated \notin MaybeMaps
  BY AnnotationsAssumption DEF AnnTypes
<1>14. annotated'[r] = OmitEmpty(e) /\ \A q \in Resources : q # r => annotated'[q] = annotated[q]
  BY <1>12, <1>13
<1>15. annotated' \in [Resources -> MaybeMaps \cup {NoAnnotated}]
  BY <1>10, <1>12, <1>13
<1> QED BY <1>10, <1>11, <1>13, <1>14, <1>15

\* The worker reads the settings and the annotations.
LEMMA ReadSettingsRests ==
  ASSUME AnnRestInv, ReadSettings
  PROVE  AnnRestInv'
<1>1. /\ stage' = "Service" /\ copy' = chosen /\ inForce' = SettingsNow
      /\ UNCHANGED <<chosen, tenantSettings, configSettings, annotated>>
  BY DEF ReadSettings, SettingsNow
<1>2. SettingsNow' = SettingsNow
  BY <1>1 DEF SettingsNow
<1>3. UsableSettings(inForce')
  BY <1>1, SettingsUsable, Zenon DEF AnnRestInv, AnnTypes, SettingsNow
<1>4. AnnTypes'
  BY <1>1, <1>3 DEF AnnRestInv, AnnTypes, UsableSettings
<1>5. Carries(copy, chosen)'
  BY <1>1 DEF Carries
<1> QED BY <1>1, <1>2, <1>4, <1>5 DEF AnnRestInv, TenantValuesAtRest

\* The Service, then the Ingress.
LEMMA ReconcileRests ==
  ASSUME AnnRestInv, reconcileService \/ configureIngress
  PROVE  AnnRestInv'
<1>1. UNCHANGED <<chosen, tenantSettings, configSettings, toAnnotate>> /\ SettingsNow' = SettingsNow
  BY DEF reconcileService, configureIngress, SettingsNow
<1>2. stage # "idle" /\ AnnTypes /\ copy \in MaybeMaps /\ UsableSettings(inForce)
  BY DEF AnnRestInv, AnnTypes, reconcileService, configureIngress
<1>3. Carries(copy, copy)
  BY Zenon DEF Carries
<1>4. CASE reconcileService
  <2>1. /\ WriteAnnotations("Service") /\ stage' = "Ingress" /\ inForce' = inForce
        /\ copy' = AfterPropagation(copy, inForce, "Service")
    BY <1>4 DEF reconcileService
  <2>2. annotated' \in [Resources -> MaybeMaps \cup {NoAnnotated}]
    BY <1>2, <1>3, <2>1, WriteHas DEF Resources
  <2>3. copy' \in MaybeMaps
    BY <1>2, <1>3, <2>1, PropagationKeeps
  <2>4. AnnTypes'
    BY <1>1, <1>2, <2>1, <2>2, <2>3 DEF AnnTypes, UsableSettings
  <2>5. ASSUME ~toAnnotate
        PROVE  Carries(copy', chosen) /\ HasPermitted(annotated'["Service"], chosen, SettingsNow)
               /\ inForce = SettingsNow
    <3>1. inForce = SettingsNow /\ Carries(copy, chosen)
      BY <1>2, <2>5 DEF AnnRestInv
    <3>2. Carries(copy', chosen)
      BY <1>2, <2>1, <3>1, PropagationKeeps
    <3>3. HasPermitted(annotated'["Service"], chosen, inForce)
      BY <1>2, <2>1, <3>1, WriteHas, Zenon DEF Resources
    <3> QED BY <3>1, <3>2, <3>3
  <2>6. ~toAnnotate' => /\ inForce' = SettingsNow' /\ Carries(copy, chosen)'
                        /\ HasPermitted(annotated["Service"], chosen, SettingsNow)'
    BY <1>1, <2>1, <2>5, Zenon DEF Carries, HasPermitted, Permitted, Keys
  <2> QED BY <2>1, <2>4, <2>6, Zenon DEF AnnRestInv, TenantValuesAtRest
<1>5. CASE configureIngress
  <2>1. WriteAnnotations("Ingress") /\ stage = "Ingress" /\ stage' = "idle"
    BY <1>5 DEF configureIngress
  <2>2. /\ annotated' \in [Resources -> MaybeMaps \cup {NoAnnotated}]
        /\ annotated'["Service"] = annotated["Service"]
    BY <1>2, <1>3, <2>1, WriteHas DEF Resources
  <2>3. AnnTypes'
    BY <1>1, <1>2, <2>1, <2>2 DEF AnnTypes
  <2>4. ASSUME ~toAnnotate, NEW r \in Resources
        PROVE  HasPermitted(annotated'[r], chosen, SettingsNow)
    <3>1. inForce = SettingsNow /\ Carries(copy, chosen)
          /\ HasPermitted(annotated["Service"], chosen, SettingsNow)
      BY <1>2, <2>1, <2>4 DEF AnnRestInv
    <3>2. HasPermitted(annotated'["Ingress"], chosen, SettingsNow)
      BY <1>2, <2>1, <3>1, WriteHas, Zenon DEF Resources
    <3> QED BY <2>2, <2>4, <3>1, <3>2 DEF Resources
  <2>5. TenantValuesAtRest'
    BY <1>1, <2>4 DEF TenantValuesAtRest, HasPermitted, Permitted, Keys
  <2> QED BY <2>1, <2>3, <2>5 DEF AnnRestInv
<1> QED BY <1>4, <1>5

\* Another controller's annotation.
LEMMA ForeignRests ==
  ASSUME AnnRestInv, NEW r \in Resources, ForeignAnnotation(r)
  PROVE  AnnRestInv'
<1>1. PICK n : n = [k \in {ForeignKey} |-> ForeignValue]
  BY Zenon
<1>2. /\ UNCHANGED <<chosen, tenantSettings, configSettings, toAnnotate, stage, copy, inForce>>
      /\ annotated[r] # NoAnnotated
      /\ annotated' = [annotated EXCEPT ![r] = Over(annotated[r], n)]
      /\ SettingsNow' = SettingsNow
  BY <1>1, Zenon DEF ForeignAnnotation, annWorker, SettingsNow
<1>3. annotated \in [Resources -> MaybeMaps \cup {NoAnnotated}] /\ annotated[r] \in MaybeMaps
  BY <1>2 DEF AnnRestInv, AnnTypes
<1>4. Over(annotated[r], n) \in MaybeMaps
  <2>1. HasPermitted(annotated[r], NilMap, SettingsNow)
    BY DEF HasPermitted, Keys
  <2> QED BY <1>1, <1>3, <2>1, OneMoreKey
<1>5. annotated' \in [Resources -> MaybeMaps \cup {NoAnnotated}]
  BY <1>2, <1>3, <1>4
<1>6. AnnTypes'
  BY <1>2, <1>5, Zenon DEF AnnRestInv, AnnTypes, UsableSettings
<1>7. ASSUME NEW q \in Resources, HasPermitted(annotated[q], chosen, SettingsNow)
      PROVE  HasPermitted(annotated[q], chosen, SettingsNow)'
  <2>1. HasPermitted(annotated'[q], chosen, SettingsNow)
    <3>1. CASE q = r
      <4>1. HasPermitted(Over(annotated[r], n), chosen, SettingsNow)
        BY <1>1, <1>3, <1>7, <3>1, OneMoreKey
      <4> QED BY <1>2, <1>3, <3>1, <4>1
    <3>2. CASE q # r
      BY <1>2, <1>3, <1>7, <3>2
    <3> QED BY <3>1, <3>2
  <2> QED BY <1>2, <2>1, Zenon DEF HasPermitted, Permitted, Keys
<1>8. ASSUME NEW q \in Resources, annotated'[q] # NoAnnotated PROVE annotated[q] # NoAnnotated
  BY <1>2, <1>3, <1>8
<1>9. TenantValuesAtRest'
  BY <1>2, <1>7, <1>8 DEF AnnRestInv, TenantValuesAtRest
<1>10. "Service" \in Resources
  BY DEF Resources
<1>11. Carries(copy, chosen)' <=> Carries(copy, chosen)
  BY <1>2 DEF Carries, Keys
<1> QED BY <1>2, <1>6, <1>7, <1>9, <1>10, <1>11 DEF AnnRestInv

\* Whenever a LoadBalancer is not in the queue and nobody works on it, its Service and
\* its Ingress, as far as they exist, have every annotation the tenant has set and may
\* set, with the tenant's value, for any annotations, defaults and settings.  (Not the
\* annotation of another controller and the one the code sets for the hostname.)
THEOREM TenantValuesWinAtRest == AnnSpec => []TenantValuesAtRest
<1>1. AnnInit => AnnRestInv
  BY AnnotationsAssumption DEF AnnInit, AnnRestInv, AnnTypes, TenantValuesAtRest
<1>2. AnnRestInv /\ [AnnNext]_annVars => AnnRestInv'
  <2> SUFFICES ASSUME AnnRestInv, [AnnNext]_annVars PROVE AnnRestInv'
    OBVIOUS
  <2>1. CASE UNCHANGED annVars
    BY <2>1, Zenon DEF annVars, annWorker, AnnRestInv, AnnTypes, TenantValuesAtRest, SettingsNow,
                UsableSettings, HasPermitted, Carries, Permitted, Keys
  <2>2. ASSUME NEW m \in Annotations, Annotate(m) PROVE AnnRestInv'
    BY <2>2, AnnotationsAssumption, Zenon
       DEF Annotate, annWorker, AnnRestInv, AnnTypes, TenantValuesAtRest, UsableSettings
  <2>3. ASSUME NEW t \in TenantSettings, NEW c \in ConfigSettings, ChangeSettings(t, c)
        PROVE  AnnRestInv'
    BY <2>3 DEF ChangeSettings, annWorker, AnnRestInv, AnnTypes, TenantValuesAtRest, UsableSettings
  <2> QED BY <2>1, <2>2, <2>3, ForeignRests, ReadSettingsRests, ReconcileRests, Zenon DEF AnnNext, AnnWorker
<1> QED BY <1>1, <1>2, PTL DEF AnnSpec, AnnRestInv
==============================================================================
