------------------------- MODULE MCEnvoyControlPlane -------------------------
(* Small instances of the Envoy control plane for TLC. *)
EXTENDS EnvoyControlPlane
CONSTANTS t1, t2, i1, i2
TwoTenants == {t1, t2}
TwoImages == {i1, i2}
==============================================================================
