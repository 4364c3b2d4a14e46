--------------------------- MODULE RouteReferences ---------------------------
(***************************************************************************)
(* The Services an Ingress, HTTPRoute or GRPCRoute refers to.  The CCM      *)
(* lists and replicates them (GetServicesFrom..., NormalizeAndReplicate-    *)
(* Services); the manager creates a copy of each one under a generated name *)
(* and rewrites the references (CreateOrUpdateIngress, ...HTTPRoute,        *)
(* ...GRPCRoute).  RouteManager has the life cycle of the same objects.     *)
(*                                                                          *)
(* A name is a sequence of words, joined by hyphens in the code: the        *)
(* generated name of a Service can be the name of another one.  An object   *)
(* has one rule; the code treats every rule alike.                          *)
(***************************************************************************)
EXTENDS Naturals, Sequences, Functions

CONSTANTS RouteObjects,    \* objects of tenants
          OwnNamespace,    \* a reference without a namespace
          OtherFilter,     \* a filter that is not a request mirror
          UIDSuffix(_),    \* the last characters of the UID of a Service
          MaxNameLength    \* bound: words of a generated name

ASSUME NameLengthAssumption == MaxNameLength \in Nat \ {0, 1}

\* Rules hold lists; the backends of an Ingress have no namespace.
ASSUME ObjectsAssumption ==
  \A o \in RouteObjects :
    /\ o.mirrors \in Seq(Range(o.mirrors)) /\ o.backends \in Seq(Range(o.backends))
    /\ \A b \in Range(o.backends) : /\ b.mirrors \in Seq(Range(b.mirrors))
                                    /\ o.kind = "Ingress" => b.ref.ns = OwnNamespace
    /\ o.kind = "Ingress" => /\ o.mirrors = <<>>
                             /\ \A b \in Range(o.backends) : b.mirrors = <<>>

VARIABLES object,      \* [kind, ns, mirrors, backends]; mirrors: filters of the rule;
                       \* a backend: [ref, mirrors]; a reference: [name, ns]
          clusterIPs,  \* Services of type ClusterIP; the others are used as they are
          missing,     \* Services that do not exist
          uidNames,    \* global topology: names have a UID suffix
          listed,      \* Route: namespaces and names of the Services
          rewritten,   \* the object in the load balancing cluster
          progress     \* "tenant", "listed", "rewritten" or "panic"

refVars == <<object, clusterIPs, missing, uidNames, listed, rewritten, progress>>

\* The Service a reference of o is meant for.
ServiceOf(o, r) == [name |-> r.name, ns |-> IF r.ns = OwnNamespace THEN o.ns ELSE r.ns]

\* A loop over s that appends what is in S.
Keep(s, S) ==
  LET kept[i \in 0..Len(s)] == IF i = 0 THEN <<>>
                               ELSE IF s[i] \in S THEN Append(kept[i-1], s[i])
                               ELSE kept[i-1]
  IN kept[Len(s)]

Mirrors(filters) == Keep(filters, Range(filters) \ {OtherFilter})

\* Mutated form: mirrors are not listed.
BackendsOnly(o) == [j \in DOMAIN o.backends |-> o.backends[j].ref]

\* References of the rule's filters, then of each backend and of its filters.
References(o) ==
  LET upTo[j \in 0..Len(o.backends)] ==
        IF j = 0 THEN Mirrors(o.mirrors)
        ELSE Append(upTo[j-1], o.backends[j].ref) \o Mirrors(o.backends[j].mirrors)
  IN upTo[Len(o.backends)]

Unique(s) ==
  LET list[i \in 0..Len(s)] == IF i = 0 THEN <<>>
                               ELSE IF s[i] \in {s[k] : k \in 1..(i-1)} THEN list[i-1]
                               ELSE Append(list[i-1], s[i])
  IN list[Len(s)]

\* GetServicesFromIngress, GetServicesFromHTTPRoute, GetServicesFromGRPCRoute.
GetServices(o) ==
  LET refs == References(o) IN Unique([i \in DOMAIN refs |-> ServiceOf(o, refs[i])])

\* Services that exist; those that had to be replicated come last.
NormalizeAndReplicateServices ==
  /\ progress = "tenant"
  /\ LET all == GetServices(object)
         existing == Range(all) \ missing
     IN listed' = Keep(all, existing \ clusterIPs) \o Keep(all, existing \cap clusterIPs)
  /\ progress' = "listed"
  /\ UNCHANGED <<object, clusterIPs, missing, uidNames, rewritten>>

-----------------------------------------------------------------------------
GenerateName(s) ==
  LET output == s.ns \o s.name IN
  IF Len(output) >= MaxNameLength \/ (uidNames /\ Len(output) + 1 >= MaxNameLength)
    THEN SubSeq(output, 1, MaxNameLength - 1) \o <<UIDSuffix(s)>>
  ELSE IF uidNames THEN output \o <<UIDSuffix(s)>> ELSE output

\* A path of an Ingress shares its backend with the object: a name that was replaced
\* is compared again with the Services that follow.
IngressName(name) ==
  LET renamed[i \in 0..Len(listed)] ==
        IF i = 0 THEN name
        ELSE IF renamed[i-1] = listed[i].name THEN GenerateName(listed[i])
        ELSE renamed[i-1]
  IN renamed[Len(listed)]

Matches(r, s) == r.name = s.name /\ r.ns \in {OwnNamespace, s.ns}

\* The last Service that matches.
RouteName(r) ==
  LET matching == {i \in DOMAIN listed : Matches(r, listed[i])} IN
  IF matching = {} THEN r.name
  ELSE GenerateName(listed[CHOOSE i \in matching : \A j \in matching : j <= i])

RewriteRef(o, r) == IF o.kind = "Ingress" THEN IngressName(r.name) ELSE RouteName(r)

Rewritable(f) == f # OtherFilter /\ \E i \in DOMAIN listed : Matches(f, listed[i])

\* What the filters of backend j are rewritten to ends up in filter j of the rule.
LastMirror(j) ==
  LET filters == object.backends[j].mirrors IN Keep(filters, {f \in Range(filters) : Rewritable(f)})

Panics == \E j \in DOMAIN object.backends :
            LastMirror(j) # <<>> /\ (j \notin DOMAIN object.mirrors \/ object.mirrors[j] = OtherFilter)

\* Names only: every namespace becomes that of the Route.
Rewrite(o) ==
  [mirrors  |-> [i \in DOMAIN o.mirrors |->
                   IF o.mirrors[i] = OtherFilter THEN OtherFilter
                   ELSE IF i \in DOMAIN o.backends /\ LastMirror(i) # <<>>
                     THEN RewriteRef(o, LastMirror(i)[Len(LastMirror(i))])
                   ELSE RewriteRef(o, o.mirrors[i])],
   backends |-> [j \in DOMAIN o.backends |->
                   [ref |-> RewriteRef(o, o.backends[j].ref),
                    mirrors |-> [i \in DOMAIN o.backends[j].mirrors |->
                                   IF o.backends[j].mirrors[i] = OtherFilter THEN OtherFilter
                                   ELSE o.backends[j].mirrors[i].name]]]]

\* A panic is recovered from and the request retried, with the same result.
RewriteReferences ==
  /\ progress \in {"listed", "panic"}
  /\ IF Panics THEN progress' = "panic" /\ UNCHANGED rewritten
               ELSE progress' = "rewritten" /\ rewritten' = Rewrite(object)
  /\ UNCHANGED <<object, clusterIPs, missing, uidNames, listed>>

RefInit ==
  /\ object \in RouteObjects /\ uidNames \in BOOLEAN
  /\ clusterIPs \in SUBSET Range(GetServices(object))
  /\ missing \in SUBSET Range(GetServices(object))
  /\ listed = <<>> /\ rewritten = OtherFilter /\ progress = "tenant"

RefNext == NormalizeAndReplicateServices \/ RewriteReferences

RefSpec == RefInit /\ [][RefNext]_refVars

-----------------------------------------------------------------------------
\* The reference r of the object has become n: the copy of its Service.
Resolved(r, n) ==
  LET s == ServiceOf(object, r) IN s \notin missing => n = GenerateName(s)

\* No Service has the generated name of another one.
NoChain == \A i, j \in DOMAIN listed : GenerateName(listed[i]) # listed[j].name

\* References without a namespace have one meaning.
Unambiguous == \A i, j \in DOMAIN listed : listed[i].name = listed[j].name => i = j

\* The manager sends traffic to the copy of the Service the tenant has chosen, for
\* backends and for the mirrors of the rule, if Services have different names, and
\* no backend has a mirror of its own.
ReferencesResolve ==
  progress = "rewritten" /\ (IF object.kind = "Ingress" THEN NoChain ELSE Unambiguous)
    /\ (\A j \in DOMAIN object.backends : object.backends[j].mirrors = <<>>)
    => /\ \A j \in DOMAIN object.backends :
            Resolved(object.backends[j].ref, rewritten.backends[j].ref)
       /\ \A i \in DOMAIN object.mirrors :
            object.mirrors[i] # OtherFilter => Resolved(object.mirrors[i], rewritten.mirrors[i])
==============================================================================
