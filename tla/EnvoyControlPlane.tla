-------------------------- MODULE EnvoyControlPlane --------------------------
(***************************************************************************)
(* internal/controllers/kubelb/envoy_cp_controller.go: the reconciler that *)
(* keeps one Envoy deployment and one xDS snapshot per tenant (shared      *)
(* topology) or for all of them (global topology), according to what its   *)
(* caches show.  The ports inside a snapshot are the subject of            *)
(* LoadBalancerManager; here a snapshot is the set of tenants it serves.   *)
(***************************************************************************)
EXTENDS FiniteSets, Naturals

CONSTANTS Tenants,      \* tenants, and their namespaces
          Global,       \* EnvoyGlobalCache
          Images,       \* what Config.spec.envoyProxy says of the pods
          Image0,       \* ... at the start
          Absent,       \* no such object
          MaxChanges,   \* bound: tenants gaining or losing their LoadBalancers
          MaxConfigs,   \* bound: changes of the pods' configuration and of useDaemonset
          MaxRestarts   \* bound: restarts of the manager process

VARIABLES topology,  \* --envoy-proxy-topology: "shared" or "global"
          wanted,  \* API server: tenants with a LoadBalancer or Route not being deleted
          addrs,   \* API server: tenants whose Addresses object exists
          config,  \* API server: Config.spec.envoyProxy
          proxy,   \* API server: pod template of the Deployments and DaemonSets
          cWanted, cAddrs, cConfig, cProxy,  \* the cache of envoyMgr
          queue,   \* work queue: namespaces
          pc, cur, conf, list,  \* the worker: step, namespace, r.Config, tenants listed
          snapshot,             \* EnvoyCache: tenants served by each snapshot
          changes, configs, restarts

api == <<topology, wanted, addrs, config, proxy>>
cache == <<cWanted, cAddrs, cConfig, cProxy>>
worker == <<pc, cur, conf, list>>
bounds == <<changes, configs, restarts>>
vars == <<api, cache, queue, worker, snapshot, bounds>>

\* envoySnapshotAndAppName: the snapshot, and the proxy, of a namespace.
NameIn(t, n) == IF t = "shared" THEN n ELSE Global
NameOf(n) == NameIn(topology, n)
Names == Tenants \cup {Global}
Kinds == {"deployment", "daemonset"}
Proxies == Kinds \X Names
Configs == [useDaemonset : BOOLEAN, image : Images]

\* A pod template: the configured part, and the fields nobody configures that
\* the API server fills in (terminationMessagePath, imagePullPolicy, ...).
Templates == [image : Images, defaulted : BOOLEAN]
Defaulted(t) == [t EXCEPT !.defaulted = TRUE]
Stored == {Defaulted(t) : t \in Templates}

ASSUME EnvoyAssumption == /\ Absent \notin Templates
                          /\ Image0 \in Images

KindOf(c) == IF c.useDaemonset THEN "daemonset" ELSE "deployment"

getEnvoyProxyPodSpec(c) == [image |-> c.image, defaulted |-> FALSE]

-----------------------------------------------------------------------------
(* The environment.                                                        *)

\* A tenant's first LoadBalancer or Route appears, or the last one goes.
ChangeTenant(n) ==
  /\ changes < MaxChanges /\ changes' = changes + 1
  /\ wanted' = IF n \in wanted THEN wanted \ {n} ELSE wanted \cup {n}
  /\ UNCHANGED <<topology, addrs, config, proxy, cache, queue, worker, snapshot, configs, restarts>>

\* The tenant's CCM writes its node addresses.
CreateAddresses(n) ==
  /\ n \notin addrs /\ addrs' = addrs \cup {n}
  /\ UNCHANGED <<topology, wanted, config, proxy, cache, queue, worker, snapshot, bounds>>

ChangeImage(i) ==
  /\ configs < MaxConfigs /\ configs' = configs + 1
  /\ i # config.image /\ config' = [config EXCEPT !.image = i]
  /\ UNCHANGED <<topology, wanted, addrs, proxy, cache, queue, worker, snapshot, changes, restarts>>

SwitchKind ==
  /\ configs < MaxConfigs /\ configs' = configs + 1
  /\ config' = [config EXCEPT !.useDaemonset = ~@]
  /\ UNCHANGED <<topology, wanted, addrs, proxy, cache, queue, worker, snapshot, changes, restarts>>

-----------------------------------------------------------------------------
(* The informers, and the events the controller is built to handle.        *)

\* enqueueLoadBalancers, for LoadBalancers, Routes and Addresses.
SyncTenant(n) ==
  /\ (n \in cWanted) # (n \in wanted)
  /\ cWanted' = IF n \in wanted THEN cWanted \cup {n} ELSE cWanted \ {n}
  /\ queue' = queue \cup {n}
  /\ UNCHANGED <<api, cAddrs, cConfig, cProxy, worker, snapshot, bounds>>

\* Any other change of a tenant's LoadBalancers or Routes.
OtherEvent(n) ==
  /\ n \in cWanted \ queue /\ queue' = queue \cup {n}
  /\ UNCHANGED <<api, cache, worker, snapshot, bounds>>

SyncAddresses(n) ==
  /\ n \in addrs \ cAddrs /\ cAddrs' = cAddrs \cup {n}
  /\ queue' = queue \cup {n}
  /\ UNCHANGED <<api, cWanted, cConfig, cProxy, worker, snapshot, bounds>>

\* Mutated form: only namespaces that have something to serve.
EnqueueBusy == cWanted

\* A changed Config enqueues the namespaces of all tenants.
enqueueAllLoadBalancers == Tenants

SyncConfig ==
  /\ cConfig # config /\ cConfig' = config
  /\ queue' = queue \cup enqueueAllLoadBalancers
  /\ UNCHANGED <<api, cWanted, cAddrs, cProxy, worker, snapshot, bounds>>

\* Deployments and DaemonSets are not watched: no event.
SyncProxy(p) ==
  /\ cProxy[p] # proxy[p] /\ cProxy' = [cProxy EXCEPT ![p] = proxy[p]]
  /\ UNCHANGED <<api, cWanted, cAddrs, cConfig, queue, worker, snapshot, bounds>>

-----------------------------------------------------------------------------
(* EnvoyCPReconciler.Reconcile, one worker.                                *)

WorkerIdle == pc' = "idle" /\ cur' = Absent /\ conf' = Absent /\ list' = {}
Done == WorkerIdle /\ UNCHANGED queue
Retry == WorkerIdle /\ queue' = queue \cup {cur}

\* Mutated form: every namespace is listed in both topologies.
ListAll(n) == cWanted

ListLoadBalancersAndRoutes(n) == IF topology = "shared" THEN cWanted \cap {n} ELSE cWanted

ClearSnapshot(name) == snapshot' = [snapshot EXCEPT ![name] = {}]

GetConfig == cConfig

\* GetConfig and the lists are read from the cache, and used until the end.
Begin(n) ==
  /\ pc = "idle" /\ n \in queue
  /\ queue' = queue \ {n}
  /\ cur' = n /\ conf' = GetConfig /\ list' = ListLoadBalancersAndRoutes(n)
  /\ \/ list' = {} /\ ClearSnapshot(NameOf(n)) /\ pc' = "cleanup"
     \/ list' # {} /\ UNCHANGED snapshot /\ pc' = "proxy"
  /\ UNCHANGED <<api, cache, bounds>>

\* NotFound is no error.
cleanupEnvoyProxy ==
  /\ pc = "cleanup"
  /\ proxy' = [proxy EXCEPT ![<<KindOf(conf), NameOf(cur)>>] = Absent]
  /\ Done
  /\ UNCHANGED <<topology, wanted, addrs, config, cache, snapshot, bounds>>

\* Mutated form: only what getEnvoyProxyPodSpec configures is compared.
ConfiguredDiffers(original, desired) == original.image # desired.image

\* DeepEqual compares whole containers, the fields filled in by the API server
\* included.
podTemplateSpecNeedsUpdate(original, desired) == original # desired

\* Create when the cache has no such object, else Update: Create fails when the
\* object exists, Update when it is gone or not the one in the cache.
ensureEnvoyProxy ==
  LET p == <<KindOf(conf), NameOf(cur)>>
      desired == getEnvoyProxyPodSpec(conf)
      write == cProxy[p] # Absent => podTemplateSpecNeedsUpdate(cProxy[p], desired)
  IN /\ pc = "proxy"
     /\ \/ /\ write => proxy[p] = cProxy[p]
           /\ proxy' = IF write THEN [proxy EXCEPT ![p] = Defaulted(desired)] ELSE proxy
           /\ pc' = "snapshot"
           /\ UNCHANGED <<queue, cur, conf, list>>
        \/ write /\ proxy[p] # cProxy[p] /\ UNCHANGED proxy /\ Retry
     /\ UNCHANGED <<topology, wanted, addrs, config, cache, snapshot, bounds>>

\* MapSnapshot fails when one Addresses object of the list is missing.
updateCache ==
  /\ pc = "snapshot"
  /\ \/ list \subseteq cAddrs /\ snapshot' = [snapshot EXCEPT ![NameOf(cur)] = list] /\ Done
     \/ ~(list \subseteq cAddrs) /\ UNCHANGED snapshot /\ Retry
  /\ UNCHANGED <<api, cache, bounds>>

-----------------------------------------------------------------------------
\* A new process: full caches, no snapshot; the Config's create event enqueues
\* every tenant.
Restart ==
  /\ restarts < MaxRestarts /\ restarts' = restarts + 1
  /\ cWanted' = wanted /\ cAddrs' = addrs /\ cConfig' = config /\ cProxy' = proxy
  /\ queue' = wanted \cup addrs \cup enqueueAllLoadBalancers
  /\ WorkerIdle
  /\ snapshot' = [s \in Names |-> {}]
  /\ UNCHANGED <<api, changes, configs>>

Init ==
  /\ topology \in {"shared", "global"}
  /\ wanted = {} /\ addrs = {} /\ config = [useDaemonset |-> FALSE, image |-> Image0]
  /\ proxy = [p \in Proxies |-> Absent]
  /\ cWanted = {} /\ cAddrs = {} /\ cConfig = config /\ cProxy = proxy
  /\ queue = Tenants
  /\ pc = "idle" /\ cur = Absent /\ conf = Absent /\ list = {}
  /\ snapshot = [s \in Names |-> {}]
  /\ changes = 0 /\ configs = 0 /\ restarts = 0

Environment ==
  \/ \E n \in Tenants : ChangeTenant(n) \/ CreateAddresses(n) \/ OtherEvent(n)
  \/ \E i \in Images : ChangeImage(i)
  \/ SwitchKind \/ Restart

Informers ==
  \/ \E n \in Tenants : SyncTenant(n) \/ SyncAddresses(n)
  \/ SyncConfig
  \/ \E p \in Proxies : SyncProxy(p)

Continue == cleanupEnvoyProxy \/ ensureEnvoyProxy \/ updateCache

Next == Environment \/ Informers \/ (\E n \in Tenants : Begin(n)) \/ Continue

Spec == Init /\ [][Next]_vars

\* Informers deliver, the worker runs, and the work queue is FIFO: a namespace
\* that fails again and again does not keep the others out.
Fairness ==
  /\ \A n \in Tenants : WF_vars(SyncTenant(n)) /\ WF_vars(SyncAddresses(n)) /\ SF_vars(Begin(n))
  /\ WF_vars(SyncConfig)
  /\ \A p \in Proxies : WF_vars(SyncProxy(p))
  /\ WF_vars(Continue)

FairSpec == Spec /\ Fairness

-----------------------------------------------------------------------------
\* Objects, caches, worker and snapshots hold what the code can put there.
TypeOK ==
  /\ topology \in {"shared", "global"}
  /\ wanted \subseteq Tenants /\ addrs \subseteq Tenants /\ config \in Configs
  /\ proxy \in [Proxies -> Stored \cup {Absent}]
  /\ cWanted \subseteq Tenants /\ cAddrs \subseteq addrs /\ cConfig \in Configs
  /\ cProxy \in [Proxies -> Stored \cup {Absent}]
  /\ queue \subseteq Tenants
  /\ pc \in {"idle", "cleanup", "proxy", "snapshot"}
  /\ pc # "idle" => cur \in Tenants /\ conf \in Configs
  /\ list \subseteq Tenants
  /\ snapshot \in [Names -> SUBSET Tenants]

\* A snapshot is offered only while an Envoy exists to fetch it: ensureEnvoyProxy
\* succeeds on the API server, not on a stale cache, before updateCache runs, and
\* ClearSnapshot precedes the removal.
ServedByProxy ==
  \A s \in Names : snapshot[s] # {} => \E k \in Kinds : proxy[<<k, s>>] # Absent

Demanded(s) == \E n \in wanted : NameOf(n) = s

\* In the end the configured kind of proxy runs with the latest configuration
\* where it is demanded and is gone where it is not, whatever stale reads,
\* conflicts and restarts came between.
ProxyConverges ==
  <>[](\A s \in Names :
         proxy[<<KindOf(config), s>>] = IF Demanded(s) THEN Defaulted(getEnvoyProxyPodSpec(config))
                                        ELSE Absent)

Peers(n) == {m \in wanted : NameOf(m) = NameOf(n)}

\* In the end a snapshot serves exactly the tenants it is for, unless one of
\* those has no Addresses: a tenant's neighbours matter only in the global
\* topology.
SnapshotConverges ==
  <>[](\A n \in Tenants : Peers(n) \subseteq addrs => snapshot[NameOf(n)] = Peers(n))
==============================================================================
