------------------------ MODULE PropagatedAnnotations ------------------------
(***************************************************************************)
(* Annotations of a LoadBalancer on the objects the manager creates for it: *)
(* its Service and, for its hostname, an Ingress.  Tenant and Config say    *)
(* which annotations are propagated and which are defaults.                 *)
(*                                                                          *)
(* Annotations are a Go map: a function, or NilMap.  PropagateAnnotations   *)
(* returns a new map or, when everything is propagated, the map it was      *)
(* given: the reconciler's copy of the LoadBalancer then has the defaults   *)
(* of the Service too when the Ingress is derived from it.                  *)
(***************************************************************************)
EXTENDS Naturals

CONSTANTS AnnotationKeys, AnnotationValues,  \* what annotations consist of
          Annotations,        \* maps a tenant may set on a LoadBalancer
          TenantSettings,     \* AnnotationSettings a Tenant may have
          ConfigSettings,     \* AnnotationSettings the Config may have
          ForeignKey, ForeignValue,  \* an annotation of another controller
          DNSKey, Hostname,   \* the annotation that has the hostname
          NilMap, Unset,      \* a nil map and an unset field
          NoAnnotated,        \* an object that does not exist
          MaxAnnotationChanges  \* bound: changes by tenants and other controllers

Maps == UNION {[K -> AnnotationValues] : K \in SUBSET AnnotationKeys}
MaybeMaps == Maps \cup {NilMap}

ASSUME AnnotationBounds == MaxAnnotationChanges \in Nat
ASSUME AnnotationsAssumption ==
  /\ NilMap \notin Maps /\ NoAnnotated \notin MaybeMaps
  /\ Annotations \subseteq MaybeMaps
  /\ {ForeignKey, DNSKey} \subseteq AnnotationKeys
  /\ {ForeignValue, Hostname} \subseteq AnnotationValues
  /\ \A s \in TenantSettings \cup ConfigSettings :
       s.defaults # Unset => \A r \in DOMAIN s.defaults : s.defaults[r] \in MaybeMaps

VARIABLES chosen,        \* annotations of the LoadBalancer
          tenantSettings, configSettings,
          annotated,     \* API server: "Service" or "Ingress" -> annotations
          toAnnotate,    \* the LoadBalancer is in the work queue
          stage,         \* worker: "idle", "Service" or "Ingress"
          copy,          \* worker: annotations of its copy of the LoadBalancer
          inForce,       \* worker: settings it has read
          original,      \* history: copy before it was changed
          annotationChanges

annWorker == <<stage, copy, inForce, original>>
annVars == <<chosen, tenantSettings, configSettings, annotated, toAnnotate, annWorker,
             annotationChanges>>

Resources == {"Service", "Ingress"}
Keys(m) == IF m = NilMap THEN {} ELSE DOMAIN m
EmptyAnnotations == [k \in {} |-> {}]

\* maps.Copy into a copy of m.
Over(m, n) == [k \in Keys(m) \cup Keys(n) |-> IF k \in Keys(n) THEN n[k] ELSE m[k]]

-----------------------------------------------------------------------------
(* The pure functions.                                                     *)

\* Propagate all is in force if either level asks for it; the permitted annotations
\* and the defaults are those of the Tenant, if it has any.  The DNS setting has the
\* same precedence and is read along.
GetAnnotations(t, c) ==
  [all |-> t.all \/ c.all,
   permitted |-> IF t.permitted # Unset /\ ~t.all THEN t.permitted
                 ELSE IF c.all THEN Unset ELSE c.permitted,
   defaults |-> IF t.defaults # Unset THEN t.defaults ELSE c.defaults,
   dns |-> IF t.dns # Unset THEN t.dns ELSE c.dns]

\* An empty list of values permits every value.
Permitted(s, k, v) ==
  /\ s.permitted # Unset
  /\ k \in DOMAIN s.permitted
  /\ s.permitted[k] = {} \/ v \in s.permitted[k]

Defaults(s, r) == IF s.defaults = Unset \/ r \notin DOMAIN s.defaults
                    THEN EmptyAnnotations ELSE s.defaults[r]

\* Mutated form: defaults replace what the tenant has set.
DefaultsWin(m, s, r) == Over(Over(m, Defaults(s, r)), Defaults(s, "all"))

\* Defaults of the kind of object, then those for all kinds, where there is no value.
applyDefaultAnnotations(m, s, r) == Over(Over(Defaults(s, "all"), Defaults(s, r)), m)

Selected(m, s) ==
  IF s.all THEN m
  ELSE [k \in {k \in Keys(m) : Permitted(s, k, m[k])} |-> m[k]]

PropagateAnnotations(m, s, r) == applyDefaultAnnotations(Selected(m, s), s, r)

\* What the caller's map is afterwards.
AfterPropagation(m, s, r) ==
  IF s.all /\ m # NilMap THEN PropagateAnnotations(m, s, r) ELSE m

\* A nil map differs from an empty one.
CompareAnnotations(m, n) == m = n

MergeAnnotations(existing, desired) ==
  IF CompareAnnotations(existing, desired) THEN existing ELSE Over(existing, desired)

-----------------------------------------------------------------------------
(* Tenants, administrators, other controllers.                             *)

AnnotationChange ==
  annotationChanges < MaxAnnotationChanges /\ annotationChanges' = annotationChanges + 1

Annotate(m) ==
  /\ AnnotationChange
  /\ m # chosen /\ chosen' = m /\ toAnnotate' = TRUE
  /\ UNCHANGED <<tenantSettings, configSettings, annotated, annWorker>>

\* Events of Tenant and Config enqueue their LoadBalancers.
ChangeSettings(t, c) ==
  /\ AnnotationChange
  /\ tenantSettings' = t /\ configSettings' = c /\ toAnnotate' = TRUE
  /\ UNCHANGED <<chosen, annotated, annWorker>>

\* Not an event: only the status of a Service is looked at.
ForeignAnnotation(r) ==
  /\ AnnotationChange
  /\ annotated[r] # NoAnnotated
  /\ annotated' = [annotated EXCEPT ![r] = Over(@, [k \in {ForeignKey} |-> ForeignValue])]
  /\ UNCHANGED <<chosen, tenantSettings, configSettings, toAnnotate, annWorker>>

-----------------------------------------------------------------------------
(* LoadBalancerReconciler: the Service, then the Ingress.                  *)

ReadSettings ==
  /\ stage = "idle" /\ toAnnotate
  /\ stage' = "Service" /\ toAnnotate' = FALSE
  /\ copy' = chosen /\ original' = chosen
  /\ inForce' = GetAnnotations(tenantSettings, configSettings)
  /\ UNCHANGED <<chosen, tenantSettings, configSettings, annotated, annotationChanges>>

\* The annotations for DNS are written over those of the tenant.
AddDNSAndCertificateAnnotations(m) ==
  IF inForce.dns THEN Over(m, [k \in {DNSKey} |-> Hostname]) ELSE m

Desired(r) ==
  LET m == PropagateAnnotations(copy, inForce, r)
  IN IF r = "Ingress" THEN AddDNSAndCertificateAnnotations(m) ELSE m

\* The API server does not store an empty map.
OmitEmpty(m) == IF m = EmptyAnnotations THEN NilMap ELSE m

\* Create, or Update with the annotations merged.
WriteAnnotations(r) ==
  annotated' = [annotated EXCEPT ![r] = OmitEmpty(IF @ = NoAnnotated THEN Desired(r)
                                                  ELSE MergeAnnotations(@, Desired(r)))]

reconcileService ==
  /\ stage = "Service"
  /\ WriteAnnotations("Service")
  /\ copy' = AfterPropagation(copy, inForce, "Service")
  /\ stage' = "Ingress"
  /\ UNCHANGED <<chosen, tenantSettings, configSettings, toAnnotate, inForce, original,
                 annotationChanges>>

configureIngress ==
  /\ stage = "Ingress"
  /\ WriteAnnotations("Ingress")
  /\ stage' = "idle" /\ copy' = NilMap /\ inForce' = Unset /\ original' = NilMap
  /\ UNCHANGED <<chosen, tenantSettings, configSettings, toAnnotate, annotationChanges>>

AnnInit ==
  /\ chosen \in Annotations /\ tenantSettings \in TenantSettings
  /\ configSettings \in ConfigSettings
  /\ annotated = [r \in Resources |-> NoAnnotated]
  /\ toAnnotate = FALSE /\ stage = "idle" /\ copy = NilMap /\ inForce = Unset /\ original = NilMap
  /\ annotationChanges = 0

AnnWorker == ReadSettings \/ reconcileService \/ configureIngress

AnnNext ==
  \/ \E m \in Annotations : Annotate(m)
  \/ \E t \in TenantSettings, c \in ConfigSettings : ChangeSettings(t, c)
  \/ \E r \in Resources : ForeignAnnotation(r)
  \/ AnnWorker

AnnSpec == AnnInit /\ [][AnnNext]_annVars

\* The reconciler runs.
AnnFairness == WF_annVars(AnnWorker)

-----------------------------------------------------------------------------
\* In the end every annotation the tenant has set and may set is on both objects
\* with the tenant's value, whatever the defaults say.
TenantValuesWin ==
  <>[](LET s == GetAnnotations(tenantSettings, configSettings) IN
       \A r \in Resources : annotated[r] # NoAnnotated =>
         \A k \in Keys(chosen) \ {ForeignKey, DNSKey} :
           s.all \/ Permitted(s, k, chosen[k])
             => k \in Keys(annotated[r]) /\ annotated[r][k] = chosen[k])

==============================================================================
