------------------------ MODULE MCLoadBalancerManager ------------------------
(* Small instances of LoadBalancerManager.                                 *)
EXTENDS LoadBalancerManager, TLC

CONSTANTS l1, l2, a, b, p1, p2

OneLB == {l1}
TwoLBs == {l1, l2}
OneKey == {a}
TwoKeys == {a, b}
OnePort == {p1}
TwoPorts == {p1, p2}

\* LoadBalancers, keys and ports are interchangeable in the safety runs.
Symm1 == Permutations(TwoKeys)
Symm2 == Permutations(TwoLBs) \cup Permutations(TwoPorts)
==============================================================================
