----------------------------- MODULE MCTenantCCM -----------------------------
(* Instances of TenantCCM and of NodeAddresses: a behaviour is one of the    *)
(* controllers of sources or one of the node controller.                     *)
EXTENDS TenantCCM, NodeAddresses

VARIABLE part

mcVars == <<vars, nodeVars, part>>

MCInit == part \in {"sources", "nodes"} /\ Init /\ NodeInit

MCNext ==
  \/ part = "sources" /\ Next /\ UNCHANGED <<nodeVars, part>>
  \/ part = "nodes" /\ NodeNext /\ UNCHANGED <<vars, part>>

\* In the initial states nothing that is fair is enabled, so fairness demands
\* nothing of the controllers that are not running.
MCSpec == MCInit /\ [][MCNext]_mcVars /\ Fairness /\ NodeFairness
==============================================================================
