--------------------------- MODULE SyncSecretChain ---------------------------
(***************************************************************************)
(* How a Secret of a tenant cluster reaches the load balancing cluster:    *)
(*   1  a Secret labelled for KubeLB, in the tenant cluster                *)
(*   2  a SyncSecret of the same name, in the tenant cluster               *)
(*   3  a SyncSecret named after the UID of 2, in the tenant's namespace   *)
(*      of the load balancing cluster                                      *)
(*   4  a Secret named after the UID of 3, next to it                      *)
(* Reconciler i keeps object i + 1 a copy of object i: 1 and 2 run in the  *)
(* CCM (SecretConversionReconciler, SyncSecretReconciler), 3 runs in the   *)
(* manager.  Each puts its finalizer on its source and removes the copy    *)
(* before the source goes.                                                 *)
(*                                                                         *)
(* The contents of an object, its labels included, are a number that a     *)
(* change increments: the reconcilers copy and compare the labels as well. *)
(***************************************************************************)
EXTENDS Naturals

CONSTANTS Absent,      \* an object that does not exist yet
          Gone,        \* an object that has been removed
          MaxUpdates,  \* bound: changes of the Secret's contents or labels
          MaxRestarts  \* bound: restarts, of the CCM and of the manager

VARIABLES obj,         \* API servers: the objects of the chain
          labelled,    \* the Secret has the label kubelb.k8c.io/managed-by: kubelb
          cache,       \* what the informers have delivered
          queue,       \* which reconcilers have a request
          pc, read,    \* their workers: step and object read
          stripped,    \* history: a whole-object Update took a finalizer off object 2
          restarts

vars == <<obj, labelled, cache, queue, pc, read, stripped, restarts>>

Reconcilers == 1..3
Objects == [data : 0..MaxUpdates, fin : BOOLEAN, deleting : BOOLEAN]

ASSUME BoundsAssumption == {MaxUpdates, MaxRestarts} \subseteq Nat
ASSUME MarkersAssumption == Absent # Gone /\ {Absent, Gone} \cap Objects = {}

IsObject(o) == o \notin {Absent, Gone}
Live(o) == IsObject(o) /\ ~o.deleting

\* The CCM has one cache per cluster, the manager one of its own.
Caches == {"Secret", "SyncSecret", "LB SyncSecret", "manager SyncSecret", "manager Secret"}
Shows(c) == CASE c = "Secret" -> 1 [] c = "SyncSecret" -> 2 [] c = "manager Secret" -> 4
              [] OTHER -> 3
SourceCache == <<"Secret", "SyncSecret", "manager SyncSecret">>
TargetCache == <<"SyncSecret", "LB SyncSecret", "manager Secret">>
Source(i) == cache[SourceCache[i]]
Target(i) == cache[TargetCache[i]]
ProcessOf(i) == IF i = 3 THEN "manager" ELSE "ccm"

\* Delete: an object with a finalizer stays until the finalizer is removed.
MarkDeleted(o) == IF ~IsObject(o) THEN o
                  ELSE IF o.fin THEN [o EXCEPT !.deleting = TRUE] ELSE Gone

-----------------------------------------------------------------------------
(* The tenant, who owns the Secret.                                        *)

CreateSecret ==
  /\ obj[1] = Absent
  /\ obj' = [obj EXCEPT ![1] = [data |-> 0, fin |-> FALSE, deleting |-> FALSE]]
  /\ UNCHANGED <<labelled, cache, queue, pc, read, stripped, restarts>>

UpdateSecret ==
  /\ Live(obj[1]) /\ obj[1].data < MaxUpdates
  /\ obj' = [obj EXCEPT ![1].data = @ + 1]
  /\ UNCHANGED <<labelled, cache, queue, pc, read, stripped, restarts>>

DeleteSecret ==
  /\ Live(obj[1])
  /\ obj' = [obj EXCEPT ![1] = MarkDeleted(@)]
  /\ UNCHANGED <<labelled, cache, queue, pc, read, stripped, restarts>>

-----------------------------------------------------------------------------
(* Informers and the garbage collector.                                    *)

\* A delivered change enqueues the object for the reconciler it is the source of;
\* copies are not watched as such.  ByLabel filters the Secrets, on the old or the
\* new object.
Sync(c) ==
  /\ cache[c] # obj[Shows(c)]
  /\ cache' = [cache EXCEPT ![c] = obj[Shows(c)]]
  /\ queue' = queue \cup {i \in Reconcilers : SourceCache[i] = c /\ (i = 1 => labelled)}
  /\ UNCHANGED <<obj, labelled, pc, read, stripped, restarts>>

\* The label is taken off the Secret, a change like any other: this one passes the
\* filter, and the SyncSecret is updated; later ones do not.
RemoveLabel ==
  /\ labelled /\ Live(obj[1]) /\ obj[1].data < MaxUpdates
  /\ labelled' = FALSE
  /\ obj' = [obj EXCEPT ![1].data = @ + 1]
  /\ cache' = [cache EXCEPT !["Secret"] = obj'[1]]
  /\ queue' = queue \cup {1}
  /\ UNCHANGED <<pc, read, stripped, restarts>>

\* The Secret is owned by the SyncSecret next to it.
OwnerIsGone == obj[3] = Gone /\ IsObject(obj[4])

CollectGarbage ==
  /\ OwnerIsGone
  /\ obj' = [obj EXCEPT ![4] = Gone]
  /\ UNCHANGED <<labelled, cache, queue, pc, read, stripped, restarts>>

-----------------------------------------------------------------------------
(* Reconcile of the three reconcilers: the same control flow.              *)

Idle(i) == pc' = [pc EXCEPT ![i] = "idle"] /\ read' = [read EXCEPT ![i] = Absent]
Done(i) == Idle(i) /\ UNCHANGED queue
Retry(i) == Idle(i) /\ queue' = queue \cup {i}

\* Not in the cache, or deleted and cleaned up already.
Skip(i) ==
  /\ pc[i] = "idle" /\ i \in queue
  /\ IsObject(Source(i)) => Source(i).deleting /\ ~Source(i).fin
  /\ queue' = queue \ {i}
  /\ UNCHANGED <<obj, labelled, cache, pc, read, stripped, restarts>>

\* The finalizer is stored.  When the Update conflicts the request stays queued and
\* nothing has changed, so this waits for the cache.
Begin(i) ==
  /\ pc[i] = "idle" /\ i \in queue
  /\ Live(Source(i)) /\ (Source(i).fin \/ obj[i] = Source(i))
  /\ obj' = IF Source(i).fin THEN obj ELSE [obj EXCEPT ![i].fin = TRUE]
  /\ queue' = queue \ {i}
  /\ pc' = [pc EXCEPT ![i] = "apply"] /\ read' = [read EXCEPT ![i] = Source(i)]
  /\ UNCHANGED <<labelled, cache, stripped, restarts>>

Contents(o) == o.data

\* Mutated form: an existing copy is left as it is.
CopyExists(i) == IsObject(Target(i))

\* The copy in the cache has the contents of the source.
CopyIsCurrent(i) == IsObject(Target(i)) /\ Target(i).data = Contents(read[i])

\* CreateOrUpdateSyncSecret, CreateOrUpdateSecret: create when the cache has no
\* copy, replace the whole object, finalizers included, when it differs.
Apply(i) ==
  LET stored == obj[i + 1]
      copy == [data |-> Contents(read[i]), fin |-> FALSE, deleting |-> FALSE]
      fails == IF IsObject(Target(i)) THEN stored # Target(i) ELSE IsObject(stored)
  IN
  /\ pc[i] = "apply"
  /\ IF CopyIsCurrent(i) THEN UNCHANGED <<obj, stripped>> /\ Done(i)
     ELSE IF fails THEN UNCHANGED <<obj, stripped>> /\ Retry(i)
     ELSE /\ obj' = [obj EXCEPT ![i + 1] = copy]
          /\ stripped' = (stripped \/ (i = 1 /\ IsObject(stored) /\ stored.fin))
          /\ Done(i)
  /\ UNCHANGED <<labelled, cache, restarts>>

\* Mutated form: the copy is left in place.
KeepCopy(o) == o

DeleteCopy(o) == MarkDeleted(o)

\* cleanup: the copy is deleted; NotFound is fine.
Cleanup(i) ==
  /\ pc[i] = "idle" /\ i \in queue
  /\ IsObject(Source(i)) /\ Source(i).deleting /\ Source(i).fin
  /\ obj' = [obj EXCEPT ![i + 1] = DeleteCopy(@)]
  /\ queue' = queue \ {i}
  /\ pc' = [pc EXCEPT ![i] = "unfinal"] /\ read' = [read EXCEPT ![i] = Source(i)]
  /\ UNCHANGED <<labelled, cache, stripped, restarts>>

\* Mutated form: the finalizer stays.
FinalizerKept(o) == o

\* The API server removes a deleted object with its last finalizer.
WithoutFinalizer(o) == IF o.deleting THEN Gone ELSE [o EXCEPT !.fin = FALSE]

\* ... and the finalizer removed.
RemoveFinalizer(i) ==
  /\ pc[i] = "unfinal"
  /\ IF obj[i] = read[i] THEN obj' = [obj EXCEPT ![i] = WithoutFinalizer(@)] /\ Done(i)
     ELSE UNCHANGED obj /\ Retry(i)
  /\ UNCHANGED <<labelled, cache, stripped, restarts>>

Start(i) == Skip(i) \/ Begin(i) \/ Cleanup(i)
Continue(i) == Apply(i) \/ RemoveFinalizer(i)

SecretConversionReconciler == Start(1) \/ Continue(1)
CCMSyncSecretReconciler == Start(2) \/ Continue(2)
ManagerSyncSecretReconciler == Start(3) \/ Continue(3)

\* A process starts again with fresh caches; every source it lists is queued, the
\* Secret only with its label.
Restart(p) ==
  LET own == {i \in Reconcilers : ProcessOf(i) = p}
      caches == IF p = "ccm" THEN {"Secret", "SyncSecret", "LB SyncSecret"}
                ELSE {"manager SyncSecret", "manager Secret"}
  IN
  /\ restarts < MaxRestarts
  /\ restarts' = restarts + 1
  /\ cache' = [c \in Caches |-> IF c \in caches THEN obj[Shows(c)] ELSE cache[c]]
  /\ queue' = (queue \ own) \cup {i \in own : IsObject(obj[i]) /\ (i = 1 => labelled)}
  /\ pc' = [i \in Reconcilers |-> IF i \in own THEN "idle" ELSE pc[i]]
  /\ read' = [i \in Reconcilers |-> IF i \in own THEN Absent ELSE read[i]]
  /\ UNCHANGED <<obj, labelled, stripped>>

Init ==
  /\ obj = [o \in 1..4 |-> Absent] /\ labelled = TRUE
  /\ cache = [c \in Caches |-> Absent]
  /\ queue = {} /\ pc = [i \in Reconcilers |-> "idle"] /\ read = [i \in Reconcilers |-> Absent]
  /\ stripped = FALSE /\ restarts = 0

Next ==
  \/ CreateSecret \/ UpdateSecret \/ DeleteSecret \/ RemoveLabel
  \/ Restart("ccm") \/ Restart("manager")
  \/ CollectGarbage \/ \E c \in Caches : Sync(c)
  \/ SecretConversionReconciler \/ CCMSyncSecretReconciler \/ ManagerSyncSecretReconciler

Spec == Init /\ [][Next]_vars

\* Informers, the garbage collector and the workers run; a queued request is
\* served.  Nothing is assumed of the tenant or of restarts.
Fairness ==
  /\ WF_vars(CollectGarbage) /\ \A c \in Caches : WF_vars(Sync(c))
  /\ WF_vars(SecretConversionReconciler) /\ WF_vars(CCMSyncSecretReconciler)
  /\ WF_vars(ManagerSyncSecretReconciler)

FairSpec == Spec /\ Fairness

-----------------------------------------------------------------------------
\* The values of the objects, the caches and the workers.
TypeOK ==
  /\ obj \in [1..4 -> Objects \cup {Absent, Gone}]
  /\ cache \in [Caches -> Objects \cup {Absent, Gone}]
  /\ queue \subseteq Reconcilers /\ labelled \in BOOLEAN /\ stripped \in BOOLEAN
  /\ pc \in [Reconcilers -> {"idle", "apply", "unfinal"}]
  /\ read \in [Reconcilers -> Objects \cup {Absent}]

\* A SyncSecret that is in use has a source that carries the finalizer which will
\* remove it: a source never goes away and leaves its copy in the clusters.  The
\* exception is a SyncSecret whose finalizer a change of the Secret's contents or
\* labels has taken off.
NoOrphanCopy ==
  /\ Live(obj[2]) => IsObject(obj[1]) /\ obj[1].fin
  /\ Live(obj[3]) => stripped \/ (IsObject(obj[2]) /\ obj[2].fin)

\* Once the tenant stops changing a labelled Secret, the Secret of the load
\* balancing cluster has its contents.
CopyConverges ==
  <>[](Live(obj[1]) /\ labelled => IsObject(obj[4]) /\ obj[4].data = obj[1].data)

\* A Secret that is deleted goes away, unless its label was taken off: then no
\* event reaches the reconciler that holds the finalizer.
SecretRemoved == <>[](IsObject(obj[1]) /\ obj[1].deleting => ~labelled)

\* A deleted Secret leaves copies behind only when an update of its contents or
\* labels had taken the CCM's finalizer off the SyncSecret.
LeftoverOnlyIfStripped ==
  <>[](obj[1] = Gone => stripped \/ \A o \in 2..4 : ~IsObject(obj[o]))
==============================================================================
