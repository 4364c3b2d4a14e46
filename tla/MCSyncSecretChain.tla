-------------------------- MODULE MCSyncSecretChain --------------------------
(***************************************************************************)
(* SyncSecretChain, PropagatedAnnotations and HostnameObjects for TLC: a    *)
(* behaviour is one of these.                                               *)
(***************************************************************************)
EXTENDS SyncSecretChain, PropagatedAnnotations, HostnameObjects, TLC

MCAnnotations == {NilMap, EmptyAnnotations, "a" :> 1, ("a" :> 2) @@ ("b" :> 1)}

Setting(all, permitted, defaults, dns) ==
  [all |-> all, permitted |-> permitted, defaults |-> defaults, dns |-> dns]

MCTenantSettings ==
  {Setting(FALSE, Unset, Unset, Unset), Setting(FALSE, "a" :> {1}, Unset, FALSE),
   Setting(TRUE, Unset, Unset, Unset),
   Setting(FALSE, Unset, ("Ingress" :> ("b" :> 3)) @@ ("all" :> ("b" :> 2)), Unset)}

MCConfigSettings ==
  {Setting(FALSE, "a" :> {}, "Service" :> (("a" :> 3) @@ ("c" :> 3)), TRUE),
   Setting(TRUE, Unset, "Service" :> (("a" :> 3) @@ ("c" :> 3)), FALSE)}

HostSetting(tenant, config, way, valid, off) ==
  [tenant |-> tenant, config |-> config, way |-> way, valid |-> valid, off |-> off]

MCHostnameSettings ==
  {HostSetting(TRUE, FALSE, "Ingress", TRUE, FALSE),
   HostSetting(Inherit, TRUE, "HTTPRoute", TRUE, FALSE),
   HostSetting(FALSE, TRUE, "Ingress", TRUE, FALSE),
   HostSetting(Inherit, TRUE, "no gateway", FALSE, FALSE),
   HostSetting(TRUE, TRUE, "Ingress", TRUE, TRUE)}

MCSpecHosts == {NoHost, <<"spec", 1>>}

VARIABLE part
mcVars == <<vars, annVars, hostVars, part>>

\* The parts that do not run have one initial state.  The first settings of a
\* LoadBalancer can be any, as they can change before it is created.
MCInit ==
  /\ part \in {"secrets", "annotations", "hostname"}
  /\ Init /\ AnnInit /\ HostInit
  /\ part # "annotations" => /\ chosen = NilMap
                             /\ tenantSettings = CHOOSE s \in TenantSettings : TRUE
                             /\ configSettings = CHOOSE s \in ConfigSettings : TRUE
  /\ settings = HostSetting(TRUE, FALSE, "Ingress", TRUE, FALSE)
  /\ part # "hostname" => topology = "shared"

\* Of two changes of the Secret one removes the label.
OneIsRemoval == IsObject(obj'[1]) /\ obj'[1].data = 2 => ~labelled'

MCNext ==
  \/ part = "secrets" /\ Next /\ OneIsRemoval /\ UNCHANGED <<annVars, hostVars, part>>
  \/ part = "annotations" /\ AnnNext /\ UNCHANGED <<vars, hostVars, part>>
  \/ part = "hostname" /\ HostNext /\ UNCHANGED <<vars, annVars, part>>

\* In the initial states nothing that is fair is enabled, so fairness demands
\* nothing of the parts that do not run.
MCSpec == MCInit /\ [][MCNext]_mcVars /\ Fairness /\ AnnFairness /\ HostFairness
==============================================================================
