-------------------------- MODULE MCTenantLifecycle --------------------------
(***************************************************************************)
(* TenantLifecycle for TLC.  A behaviour has a Tenant that may be created  *)
(* again, with a Route or a SyncSecret, where a change of the Config is    *)
(* its deletion, or a Tenant created once, with a Route and another child, *)
(* where only the Config changes.                                          *)
(***************************************************************************)
EXTENDS TenantLifecycle

VARIABLE part

CreatedChildren == {k \in Kinds : child[k] # Absent}

MCInit == Init /\ part \in {"created again", "two children"}

MCNext ==
  /\ Next /\ UNCHANGED part
  /\ part = "created again" =>
       config' # "disabled" /\ CreatedChildren' \in {{}, {"Route"}, {"SyncSecret"}}
  /\ part = "two children" =>
       /\ created' <= 1 /\ (events' # events => config' # config)
       /\ CreatedChildren' # {} => "Route" \in CreatedChildren'

MCSpec == MCInit /\ [][MCNext]_<<vars, part>> /\ Fairness
==============================================================================
