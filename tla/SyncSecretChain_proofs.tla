------------------------ MODULE SyncSecretChain_proofs ------------------------
(***************************************************************************)
(* No copy of a Secret is orphaned, for any number of updates of the       *)
(* Secret and restarts of the two processes.  And results about what the   *)
(* manager derives from a LoadBalancer: endpoints in a snapshot, and a     *)
(* hostname in the status.                                                 *)
(***************************************************************************)
EXTENDS SyncSecretChain, EnvoySnapshot, HostnameObjects, TLAPS

Maybe(S) == S \cup {Absent, Gone}
Guarded(o) == IsObject(o) /\ o.fin
Ended(o) == o # Absent /\ ~Live(o)

-----------------------------------------------------------------------------
(* Types.                                                                  *)

ObjectTypes == obj \in [1..4 -> Maybe(Objects)] /\ cache \in [Caches -> Maybe(Objects)]

WorkerTypes ==
  /\ pc \in [Reconcilers -> {"idle", "apply", "unfinal"}]
  /\ read \in [Reconcilers -> Objects \cup {Absent}]
  /\ \A i \in Reconcilers : pc[i] # "idle" => read[i] \in Objects

Flags == queue \subseteq Reconcilers /\ labelled \in BOOLEAN /\ stripped \in BOOLEAN

Types == ObjectTypes /\ WorkerTypes /\ Flags

\* The steps of the model, one by one.
LEMMA Steps ==
  ASSUME Next
  PROVE  \/ CreateSecret \/ UpdateSecret \/ DeleteSecret \/ RemoveLabel \/ CollectGarbage
         \/ \E p \in {"ccm", "manager"} : Restart(p)
         \/ \E c \in Caches : Sync(c)
         \/ \E i \in Reconcilers :
              Skip(i) \/ Begin(i) \/ Cleanup(i) \/ Apply(i) \/ RemoveFinalizer(i)
BY DEF Next, SecretConversionReconciler, CCMSyncSecretReconciler, ManagerSyncSecretReconciler,
       Start, Continue, Reconcilers

\* Objects are told apart from the markers of absence.
LEMMA ObjectIsObject == \A o \in Objects : IsObject(o) /\ o # Absent /\ o # Gone
BY MarkersAssumption DEF IsObject

\* What is in place is an object.
LEMMA MaybeObject ==
  ASSUME NEW o \in Maybe(Objects), IsObject(o)
  PROVE  o \in Objects
BY DEF Maybe, IsObject

\* Each cache shows one of the objects: of every reconciler its source and its target.
LEMMA CachesShow ==
  /\ \A c \in Caches : Shows(c) \in 1..4
  /\ \A i \in Reconcilers : /\ i \in 1..4 /\ i + 1 \in 1..4
                           /\ SourceCache[i] \in Caches /\ Shows(SourceCache[i]) = i
                           /\ TargetCache[i] \in Caches /\ Shows(TargetCache[i]) = i + 1
<1>1. /\ SourceCache[1] = "Secret" /\ SourceCache[2] = "SyncSecret"
      /\ SourceCache[3] = "manager SyncSecret"
      /\ TargetCache[1] = "SyncSecret" /\ TargetCache[2] = "LB SyncSecret"
      /\ TargetCache[3] = "manager Secret"
  BY DEF SourceCache, TargetCache
<1>2. /\ Shows("Secret") = 1 /\ Shows("SyncSecret") = 2 /\ Shows("manager SyncSecret") = 3
      /\ Shows("LB SyncSecret") = 3 /\ Shows("manager Secret") = 4
  BY DEF Shows
<1>3. \A c \in Caches : Shows(c) \in 1..4
  <2> SUFFICES ASSUME NEW c \in Caches PROVE Shows(c) \in 1..4
    OBVIOUS
  <2>1. Shows(c) = 1 \/ Shows(c) = 2 \/ Shows(c) = 3 \/ Shows(c) = 4
    BY <1>2, Zenon DEF Caches
  <2> QED BY <2>1
<1>4. ASSUME NEW i \in Reconcilers
      PROVE  /\ i \in 1..4 /\ i + 1 \in 1..4
             /\ SourceCache[i] \in Caches /\ Shows(SourceCache[i]) = i
             /\ TargetCache[i] \in Caches /\ Shows(TargetCache[i]) = i + 1
  <2>1. i = 1 \/ i = 2 \/ i = 3
    BY DEF Reconcilers
  <2>2. {"Secret", "SyncSecret", "manager SyncSecret", "LB SyncSecret", "manager Secret"}
          \subseteq Caches
    BY DEF Caches
  <2>3. i \in 1..4 /\ i + 1 \in 1..4 /\ (i = 1 => i + 1 = 2) /\ (i = 2 => i + 1 = 3)
        /\ (i = 3 => i + 1 = 4)
    BY <2>1
  <2>4. SourceCache[i] \in Caches /\ Shows(SourceCache[i]) = i /\ TargetCache[i] \in Caches
    BY <1>1, <1>2, <2>1, <2>2, Zenon
  <2>5. Shows(TargetCache[i]) = i + 1
    BY <1>1, <1>2, <2>1, <2>3, Zenon
  <2> QED BY <2>3, <2>4, <2>5
<1> QED BY <1>3, <1>4

\* The changes of an object: its finalizer, its deletion, its contents.
LEMMA ObjectChanges ==
  ASSUME NEW o \in Objects
  PROVE  /\ o.fin \in BOOLEAN /\ o.deleting \in BOOLEAN
         /\ [o EXCEPT !.fin = TRUE] \in Objects
         /\ [o EXCEPT !.fin = TRUE].fin /\ [o EXCEPT !.fin = TRUE].deleting = o.deleting
         /\ [o EXCEPT !.fin = FALSE] \in Objects
         /\ ~[o EXCEPT !.fin = FALSE].fin /\ [o EXCEPT !.fin = FALSE].deleting = o.deleting
         /\ [o EXCEPT !.deleting = TRUE] \in Objects
         /\ [o EXCEPT !.deleting = TRUE].fin = o.fin /\ [o EXCEPT !.deleting = TRUE].deleting
         /\ \A d \in 0..MaxUpdates :
              /\ [o EXCEPT !.data = d] \in Objects
              /\ [o EXCEPT !.data = d].fin = o.fin
              /\ [o EXCEPT !.data = d].deleting = o.deleting
BY Zenon DEF Objects

\* A change of the Secret's contents or labels, by UpdateSecret and RemoveLabel,
\* leaves it where it is in its life.
LEMMA ChangedSecret ==
  ASSUME ObjectTypes, Live(obj[1]), obj[1].data < MaxUpdates
  PROVE  LET o == [obj[1] EXCEPT !.data = obj[1].data + 1]
         IN  /\ o \in Objects /\ Live(o) /\ ~Ended(o) /\ ~Ended(obj[1])
             /\ Guarded(obj[1]) <=> o.fin
             /\ Guarded(o) <=> o.fin
<1> DEFINE o == [obj[1] EXCEPT !.data = obj[1].data + 1]
<1>1. obj[1] \in Objects
  BY MaybeObject DEF Live, ObjectTypes
<1>2. obj[1].data + 1 \in 0..MaxUpdates
  BY <1>1, BoundsAssumption DEF Objects
<1>3. o \in Objects /\ o.fin = obj[1].fin /\ o.deleting = obj[1].deleting
  <2>1. \A d \in 0..MaxUpdates : /\ [obj[1] EXCEPT !.data = d] \in Objects
                                 /\ [obj[1] EXCEPT !.data = d].fin = obj[1].fin
                                 /\ [obj[1] EXCEPT !.data = d].deleting = obj[1].deleting
    BY <1>1, ObjectChanges, Zenon
  <2> QED BY <1>2, <2>1
<1> HIDE DEF o
<1>4. /\ Live(o) /\ ~Ended(o) /\ ~Ended(obj[1])
      /\ (Guarded(obj[1]) <=> o.fin) /\ (Guarded(o) <=> o.fin)
  BY <1>1, <1>3, ObjectIsObject DEF Live, Guarded, Ended
<1> QED BY <1>3, <1>4 DEF o

\* Delete keeps the finalizer, and what has none goes.
LEMMA DeletedObject ==
  ASSUME NEW o \in Maybe(Objects)
  PROVE  /\ MarkDeleted(o) \in Maybe(Objects) /\ ~Live(MarkDeleted(o))
         /\ MarkDeleted(o) = Absent <=> o = Absent
         /\ Guarded(o) <=> Guarded(MarkDeleted(o))
<1>1. CASE o \in Objects /\ o.fin
  <2>1. PICK d : d = [o EXCEPT !.deleting = TRUE]
    BY Zenon
  <2>2. d \in Objects /\ d.fin /\ d.deleting
    BY <1>1, <2>1, ObjectChanges, ZenonT(30)
  <2>3. MarkDeleted(o) = d
    BY <1>1, <2>1, ObjectIsObject, Zenon DEF MarkDeleted
  <2>4. o # Absent /\ d # Absent /\ IsObject(o) /\ IsObject(d)
    BY <1>1, <2>2, ObjectIsObject, MarkersAssumption DEF IsObject
  <2> QED BY <1>1, <2>2, <2>3, <2>4, Zenon DEF Maybe, Live, Guarded
<1>2. CASE o \in Objects /\ ~o.fin
  BY <1>2, ObjectIsObject, MarkersAssumption DEF MarkDeleted, Maybe, Live, Guarded, IsObject
<1>3. CASE o \notin Objects
  BY <1>3 DEF MarkDeleted, Maybe, Live, Guarded, IsObject
<1> QED BY <1>1, <1>2, <1>3

\* What Apply stores.
LEMMA CopyOf ==
  ASSUME NEW o \in Objects
  PROVE  LET made == [data |-> Contents(o), fin |-> FALSE, deleting |-> FALSE]
         IN made \in Objects /\ Live(made) /\ ~Guarded(made)
<1> DEFINE made == [data |-> Contents(o), fin |-> FALSE, deleting |-> FALSE]
<1>1. made \in Objects
  BY DEF Contents, Objects
<1> QED BY <1>1, ObjectIsObject DEF Live, Guarded

\* The API objects and the caches keep their types.
LEMMA ObjectTypesStep ==
  ASSUME Types, Next
  PROVE  ObjectTypes'
<1> USE DEF ObjectTypes, Types
<1>0. \A n \in 1..4 : \A o \in Maybe(Objects) : [obj EXCEPT ![n] = o] \in [1..4 -> Maybe(Objects)]
  OBVIOUS
<1>1. CASE CreateSecret
  <2>1. [data |-> 0, fin |-> FALSE, deleting |-> FALSE] \in Objects
    BY BoundsAssumption DEF Objects
  <2> QED BY <1>0, <1>1, <2>1 DEF CreateSecret, Maybe
<1>2. CASE UpdateSecret
  <2>1. [obj[1] EXCEPT !.data = obj[1].data + 1] \in Maybe(Objects)
    BY <1>2, ChangedSecret, Zenon DEF UpdateSecret, Maybe
  <2>2. obj' = [obj EXCEPT ![1] = [obj[1] EXCEPT !.data = obj[1].data + 1]] /\ cache' = cache
    BY <1>2 DEF UpdateSecret
  <2> QED BY <1>0, <2>1, <2>2
<1>3. CASE DeleteSecret
  BY <1>0, <1>3, DeletedObject DEF DeleteSecret
<1>4. CASE RemoveLabel
  <2>1. [obj[1] EXCEPT !.data = obj[1].data + 1] \in Maybe(Objects)
    BY <1>4, ChangedSecret, Zenon DEF RemoveLabel, Maybe
  <2>2. \A o \in Maybe(Objects) : [cache EXCEPT !["Secret"] = o] \in [Caches -> Maybe(Objects)]
    BY Zenon
  <2>3. obj' = [obj EXCEPT ![1] = [obj[1] EXCEPT !.data = obj[1].data + 1]]
    BY <1>4 DEF RemoveLabel
  <2>4. obj' \in [1..4 -> Maybe(Objects)] /\ obj'[1] \in Maybe(Objects)
    BY <1>0, <2>1, <2>3
  <2>5. cache' = [cache EXCEPT !["Secret"] = obj'[1]]
    BY <1>4 DEF RemoveLabel
  <2> QED BY <2>2, <2>4, <2>5
<1>5. CASE CollectGarbage
  BY <1>0, <1>5 DEF CollectGarbage, Maybe
<1>6. ASSUME NEW p \in {"ccm", "manager"}, Restart(p)
      PROVE  ObjectTypes'
  BY <1>6, CachesShow, Zenon DEF Restart
<1>7. ASSUME NEW c \in Caches, Sync(c)
      PROVE  ObjectTypes'
  BY <1>7, CachesShow DEF Sync
<1>8. ASSUME NEW i \in Reconcilers, Begin(i)
      PROVE  ObjectTypes'
  <2>1. obj[i] \in Objects => [obj[i] EXCEPT !.fin = TRUE] \in Maybe(Objects)
    BY ObjectChanges, Zenon DEF Maybe
  <2>2. ~Source(i).fin => obj[i] \in Objects
    BY <1>8, CachesShow, MaybeObject DEF Begin, Live, Source
  <2> QED BY <1>0, <1>8, <2>1, <2>2, CachesShow DEF Begin
<1>9. ASSUME NEW i \in Reconcilers, Cleanup(i)
      PROVE  ObjectTypes'
  BY <1>0, <1>9, CachesShow, DeletedObject DEF Cleanup, DeleteCopy
<1>10. ASSUME NEW i \in Reconcilers, Apply(i)
      PROVE  ObjectTypes'
  <2>1. read[i] \in Objects
    BY <1>10 DEF Apply, WorkerTypes
  <2> QED BY <1>0, <1>10, <2>1, CopyOf, CachesShow DEF Apply, Maybe
<1>11. ASSUME NEW i \in Reconcilers, RemoveFinalizer(i)
      PROVE  ObjectTypes'
  <2>1. read[i] \in Objects
    BY <1>11 DEF RemoveFinalizer, WorkerTypes
  <2>2. WithoutFinalizer(read[i]) \in Maybe(Objects)
    BY <2>1, ObjectChanges, Zenon DEF WithoutFinalizer, Maybe
  <2> QED BY <1>0, <1>11, <2>2, CachesShow DEF RemoveFinalizer
<1> QED
  BY <1>1, <1>2, <1>3, <1>4, <1>5, <1>6, <1>7, <1>8, <1>9, <1>10, <1>11, Steps DEF Skip

\* So do the workers, which hold the object they have read.
LEMMA WorkerTypesStep ==
  ASSUME Types, Next
  PROVE  WorkerTypes'
<1> USE DEF WorkerTypes, Types
<1>1. ASSUME NEW i \in Reconcilers, NEW w \in {"idle", "apply", "unfinal"},
             NEW o \in Objects \cup {Absent}, w # "idle" => o \in Objects,
             pc' = [pc EXCEPT ![i] = w], read' = [read EXCEPT ![i] = o]
      PROVE  WorkerTypes'
  BY <1>1
<1>2. ASSUME NEW i \in Reconcilers, Idle(i)
      PROVE  WorkerTypes'
  BY <1>1, <1>2 DEF Idle
<1>3. ASSUME NEW i \in Reconcilers, Begin(i) \/ Cleanup(i)
      PROVE  WorkerTypes'
  <2>1. Source(i) \in Objects
    BY <1>3, CachesShow, MaybeObject DEF Begin, Cleanup, Live, Source, ObjectTypes
  <2> QED BY <1>1, <1>3, <2>1 DEF Begin, Cleanup
<1>4. ASSUME NEW i \in Reconcilers, Apply(i) \/ RemoveFinalizer(i)
      PROVE  WorkerTypes'
  BY <1>2, <1>4 DEF Apply, RemoveFinalizer, Done, Retry
<1>5. ASSUME NEW p \in {"ccm", "manager"}, Restart(p)
      PROVE  WorkerTypes'
  BY <1>5, Zenon DEF Restart
<1>6. CASE UNCHANGED <<pc, read>>
  BY <1>6
<1> QED
  BY <1>3, <1>4, <1>5, <1>6, Steps, Zenon
     DEF CreateSecret, UpdateSecret, DeleteSecret, RemoveLabel, CollectGarbage, Sync, Skip

\* And the queue, the label and the history.
LEMMA FlagsStep ==
  ASSUME Types, Next
  PROVE  Flags'
<1> USE DEF Flags, Types
<1>1. queue' \subseteq Reconcilers
  <2>0. 1 \in Reconcilers
    BY DEF Reconcilers
  <2>1. CASE UNCHANGED queue \/ queue' = queue \cup {1}
    BY <2>0, <2>1
  <2>2. ASSUME NEW i \in Reconcilers,
               Skip(i) \/ Begin(i) \/ Cleanup(i) \/ Apply(i) \/ RemoveFinalizer(i)
        PROVE  queue' \subseteq Reconcilers
    BY <2>2 DEF Skip, Begin, Cleanup, Apply, RemoveFinalizer, Done, Retry
  <2>3. ASSUME NEW p \in {"ccm", "manager"}, Restart(p)
        PROVE  queue' \subseteq Reconcilers
    BY <2>3, Zenon DEF Restart
  <2>4. ASSUME NEW c \in Caches, Sync(c)
        PROVE  queue' \subseteq Reconcilers
    BY <2>4 DEF Sync
  <2> QED
    BY <2>1, <2>2, <2>3, <2>4, Steps, Zenon
       DEF CreateSecret, UpdateSecret, DeleteSecret, RemoveLabel, CollectGarbage
<1>2. labelled' \in BOOLEAN
  BY Steps, Zenon
     DEF CreateSecret, UpdateSecret, DeleteSecret, RemoveLabel, CollectGarbage, Sync, Skip,
         Restart, Begin, Cleanup, Apply, RemoveFinalizer
<1>3. stripped' \in BOOLEAN
  BY Steps, Zenon
     DEF CreateSecret, UpdateSecret, DeleteSecret, RemoveLabel, CollectGarbage, Sync, Skip,
         Restart, Begin, Cleanup, Apply, RemoveFinalizer
<1> QED BY <1>1, <1>2, <1>3

\* Every step keeps the types.
LEMMA TypesStep ==
  ASSUME Types, [Next]_vars
  PROVE  Types'
<1>1. CASE Next
  BY <1>1, ObjectTypesStep, WorkerTypesStep, FlagsStep DEF Types
<1>2. CASE UNCHANGED vars
  BY <1>2 DEF vars, Types, ObjectTypes, WorkerTypes, Flags
<1> QED BY <1>1, <1>2

\* The controllers start with nothing synced and every count at zero.
LEMMA TypesInitially == Init => Types
BY Zenon DEF Init, Types, ObjectTypes, WorkerTypes, Flags, Maybe

\* The objects of the chain, the caches of both processes and what the three workers
\* have read keep their types; the contents stay within the Secret's.
THEOREM SecretTypes == Spec => []TypeOK
<1>1. Types => TypeOK
  BY DEF Types, ObjectTypes, WorkerTypes, Flags, TypeOK, Maybe
<1>2. Types /\ [Next]_vars => Types'
  BY TypesStep
<1> QED BY <1>1, <1>2, TypesInitially, PTL DEF Spec

-----------------------------------------------------------------------------
(* Ownership.                                                              *)

\* Object i carries its reconciler's finalizer, or an update took it off.
Chained(i) == Guarded(obj[i]) \/ (i = 2 /\ stripped)

\* A copy in use, a worker that is about to write it and a cache that shows the
\* finalizer rely on it; a worker that is about to remove it has deleted the copy,
\* and works on an object that has ended.
Linked(i) ==
  /\ Live(obj[i + 1]) \/ pc[i] = "apply" \/ (Live(Source(i)) /\ Source(i).fin) => Chained(i)
  /\ pc[i] = "unfinal" => ~Live(obj[i + 1]) /\ Ended(Source(i)) /\ read[i].deleting
  /\ Ended(Source(i)) => Ended(obj[i])

\* The first SyncSecret is deleted once, and not written again.
NotRevived == Ended(obj[2]) => Ended(Source(1)) /\ pc[1] # "apply"

CopyInv == Types /\ Linked(1) /\ Linked(2) /\ NotRevived

\* A step that leaves workers, sources and history, and changes no object's place
\* in its life.
LEMMA ShapeKept ==
  ASSUME CopyInv, UNCHANGED <<pc, read, stripped>>, Source(1)' = Source(1), Source(2)' = Source(2),
         \A n \in 1..3 : /\ Live(obj'[n]) => Live(obj[n])
                         /\ Guarded(obj[n]) => Guarded(obj'[n])
                         /\ Ended(obj[n]) => Ended(obj'[n]),
         Ended(obj'[2]) => Ended(obj[2])
  PROVE  Linked(1)' /\ Linked(2)' /\ NotRevived'
<1>1. 1 + 1 = 2 /\ 2 + 1 = 3 /\ 1 \in 1..3 /\ 2 \in 1..3 /\ 3 \in 1..3
  OBVIOUS
<1> QED BY <1>1 DEF CopyInv, Linked, NotRevived, Chained

\* What a step leaves of the caches, it leaves of the sources.
LEMMA SourcesKept ==
  ASSUME UNCHANGED cache, NEW i
  PROVE  Source(i)' = Source(i)
BY DEF Source

\* The steps of the tenant and of the garbage collector.
LEMMA TenantLinks ==
  ASSUME CopyInv, CreateSecret \/ UpdateSecret \/ DeleteSecret \/ CollectGarbage
  PROVE  Linked(1)' /\ Linked(2)' /\ NotRevived'
<1>0. UNCHANGED <<pc, read, stripped>> /\ Source(1)' = Source(1) /\ Source(2)' = Source(2)
  BY DEF CreateSecret, UpdateSecret, DeleteSecret, CollectGarbage, Source
<1>1. CASE CreateSecret
  <2>1. /\ obj[1] = Absent /\ obj'[2] = obj[2] /\ obj'[3] = obj[3]
        /\ ~Ended(obj[1]) /\ ~Guarded(obj[1])
    BY <1>1 DEF CreateSecret, CopyInv, Types, ObjectTypes, Ended, Guarded, IsObject
  <2>2. Linked(2)' /\ NotRevived'
    BY <1>0, <2>1 DEF CopyInv, Linked, NotRevived, Chained
  <2>3. Linked(1)'
    BY <1>0, <2>1 DEF CopyInv, Linked, Chained
  <2> QED BY <2>2, <2>3
<1>2. CASE UpdateSecret
  <2> DEFINE o == [obj[1] EXCEPT !.data = obj[1].data + 1]
  <2>1. Live(obj[1]) /\ Live(o) /\ (Guarded(obj[1]) => Guarded(o)) /\ ~Ended(obj[1])
    BY <1>2, ChangedSecret, Zenon DEF UpdateSecret, CopyInv, Types
  <2>2. obj' = [obj EXCEPT ![1] = o]
    BY <1>2 DEF UpdateSecret
  <2> HIDE DEF o
  <2>3. obj'[1] = o /\ \A n \in 2..4 : obj'[n] = obj[n]
    BY <2>2 DEF CopyInv, Types, ObjectTypes
  <2> QED BY <1>0, <2>1, <2>3, ShapeKept
<1>3. CASE DeleteSecret
  <2>1. /\ obj'[1] = MarkDeleted(obj[1]) /\ obj[1] \in Maybe(Objects)
        /\ \A n \in 2..4 : obj'[n] = obj[n]
    BY <1>3 DEF DeleteSecret, CopyInv, Types, ObjectTypes
  <2>2. /\ ~Live(obj'[1]) /\ (Guarded(obj[1]) => Guarded(obj'[1]))
        /\ Ended(obj[1]) => Ended(obj'[1])
    BY <2>1, DeletedObject DEF Ended
  <2> QED BY <1>0, <2>1, <2>2, ShapeKept
<1>4. CASE CollectGarbage
  <2>1. \A n \in 1..3 : obj'[n] = obj[n]
    BY <1>4 DEF CollectGarbage, CopyInv, Types, ObjectTypes
  <2> QED BY <1>0, <2>1, ShapeKept
<1> QED BY <1>1, <1>2, <1>3, <1>4

\* A process that starts again, and an informer: a source comes to show the object.
LEMMA SourcesLink ==
  ASSUME CopyInv, UNCHANGED <<obj, stripped>>,
         \A i \in 1..2 : /\ Source(i)' \in {Source(i), obj[i]}
                         /\ \/ pc'[i] = pc[i] /\ read'[i] = read[i]
                            \/ pc'[i] = "idle"
  PROVE  Linked(1)' /\ Linked(2)' /\ NotRevived'
<1>1. 1 \in 1..2 /\ 2 \in 1..2
  OBVIOUS
<1>2. ASSUME NEW i \in 1..2, Linked(i)
      PROVE  Linked(i)'
  <2>1. Chained(i)' = Chained(i) /\ obj'[i + 1] = obj[i + 1]
    BY DEF Chained
  <2>2. Source(i)' = Source(i) \/ Source(i)' = obj[i]
    OBVIOUS
  <2>3. Live(obj[i]) /\ obj[i].fin => Chained(i)
    BY DEF Live, Chained, Guarded
  <2>4. (pc'[i] = pc[i] /\ read'[i] = read[i]) \/ pc'[i] = "idle"
    OBVIOUS
  <2> QED BY <1>2, <2>1, <2>2, <2>3, <2>4 DEF Linked
<1>3. NotRevived'
  BY <1>1 DEF CopyInv, Linked, NotRevived
<1> QED BY <1>1, <1>2, <1>3 DEF CopyInv

\* A removed label, a restart and a delivered event change no copy: a cache moves
\* to the live object and a restarted worker forgets what it had read.  Without its
\* label the Secret is a changed object, in the same place of its life.
LEMMA InformerLinks ==
  ASSUME CopyInv,
         RemoveLabel \/ (\E p \in {"ccm", "manager"} : Restart(p)) \/ \E c \in Caches : Sync(c)
  PROVE  Linked(1)' /\ Linked(2)' /\ NotRevived'
<1>0. \A i \in 1..2 : i \in Reconcilers /\ SourceCache[i] \in Caches /\ Shows(SourceCache[i]) = i
  BY CachesShow DEF Reconcilers
<1>1. CASE RemoveLabel
  <2> DEFINE o == [obj[1] EXCEPT !.data = obj[1].data + 1]
  <2>1. SourceCache[1] = "Secret" /\ SourceCache[2] = "SyncSecret"
    BY DEF SourceCache
  <2>2. /\ Live(o) /\ ~Ended(o) /\ ~Ended(obj[1])
        /\ (Guarded(obj[1]) <=> o.fin) /\ (Guarded(o) <=> o.fin)
    BY <1>1, ChangedSecret, Zenon DEF RemoveLabel, CopyInv, Types
  <2>3. obj' = [obj EXCEPT ![1] = o] /\ UNCHANGED <<pc, read, stripped>>
    BY <1>1 DEF RemoveLabel
  <2> HIDE DEF o
  <2>4. obj'[1] = o /\ obj'[2] = obj[2] /\ obj'[3] = obj[3]
    BY <2>3 DEF CopyInv, Types, ObjectTypes
  <2>5. Source(1)' = o /\ Source(2)' = Source(2)
    BY <1>0, <1>1, <2>1, <2>4 DEF RemoveLabel, Source, CopyInv, Types, ObjectTypes
  <2>6. ~Ended(Source(1)) /\ pc[1] # "unfinal" /\ ~Ended(obj[2])
    BY <2>2 DEF CopyInv, Linked, NotRevived
  <2>7. Linked(1)'
    BY <2>2, <2>3, <2>4, <2>5, <2>6 DEF CopyInv, Linked, Chained
  <2>8. Linked(2)' /\ NotRevived'
    BY <2>3, <2>4, <2>5, <2>6 DEF CopyInv, Linked, NotRevived, Chained
  <2> QED BY <2>7, <2>8
<1>2. ASSUME NEW p \in {"ccm", "manager"}, Restart(p)
      PROVE  Linked(1)' /\ Linked(2)' /\ NotRevived'
  <2>1. \A i \in 1..2 : Source(i)' \in {Source(i), obj[i]}
    BY <1>0, <1>2, Zenon DEF Restart, Source
  <2>2. \A i \in 1..2 : \/ pc'[i] = pc[i] /\ read'[i] = read[i]
                        \/ pc'[i] = "idle"
    BY <1>0, <1>2, Zenon DEF Restart
  <2> QED BY <1>2, <2>1, <2>2, SourcesLink, Zenon DEF Restart
<1>3. ASSUME NEW c \in Caches, Sync(c)
      PROVE  Linked(1)' /\ Linked(2)' /\ NotRevived'
  <2>1. \A i \in 1..2 : Source(i)' \in {Source(i), obj[i]}
    BY <1>0, <1>3 DEF Sync, Source, CopyInv, Types, ObjectTypes
  <2> QED BY <1>3, <2>1, SourcesLink DEF Sync
<1> QED BY <1>1, <1>2, <1>3

\* Storing the finalizer.
LEMMA BeginLinks ==
  ASSUME CopyInv, NEW k \in Reconcilers, Begin(k)
  PROVE  Linked(1)' /\ Linked(2)' /\ NotRevived'
<1>0. /\ k \in 1..4 /\ stripped' = stripped /\ Live(Source(k)) /\ ~Ended(Source(k))
      /\ \A i \in Reconcilers : Source(i)' = Source(i)
      /\ pc'[k] = "apply" /\ \A i \in Reconcilers \ {k} : pc'[i] = pc[i] /\ read'[i] = read[i]
  BY CachesShow DEF Begin, CopyInv, Types, WorkerTypes, Source, Ended
<1>1. \A n \in 1..4 : /\ Live(obj'[n]) <=> Live(obj[n])
                      /\ Guarded(obj[n]) => Guarded(obj'[n])
                      /\ Ended(obj[n]) <=> Ended(obj'[n])
  <2>1. CASE Source(k).fin
    BY <2>1 DEF Begin
  <2>2. CASE ~Source(k).fin
    <3> DEFINE o == [obj[k] EXCEPT !.fin = TRUE]
    <3>1. obj[k] \in Objects /\ obj' = [obj EXCEPT ![k] = o]
      BY <1>0, <2>2, MaybeObject DEF Begin, Live, CopyInv, Types, ObjectTypes
    <3>2. o \in Objects /\ o.fin /\ o.deleting = obj[k].deleting
      BY <3>1, ObjectChanges, Zenon
    <3> HIDE DEF o
    <3>3. \A n \in 1..4 : obj'[n] = IF n = k THEN o ELSE obj[n]
      BY <3>1 DEF CopyInv, Types, ObjectTypes
    <3>4. Guarded(o) /\ (Live(o) <=> Live(obj[k])) /\ (Ended(o) <=> Ended(obj[k]))
      BY <3>1, <3>2, ObjectIsObject DEF Guarded, Live, Ended
    <3> QED BY <3>3, <3>4
  <2> QED BY <2>1, <2>2
<1>2. k \in 1..2 => Chained(k)'
  <2>1. CASE Source(k).fin
    BY <1>0, <1>1, <2>1 DEF CopyInv, Linked, Chained
  <2>2. CASE ~Source(k).fin
    <3> DEFINE o == [obj[k] EXCEPT !.fin = TRUE]
    <3>1. obj[k] \in Objects /\ obj' = [obj EXCEPT ![k] = o]
      BY <1>0, <2>2, MaybeObject DEF Begin, Live, CopyInv, Types, ObjectTypes
    <3>2. o \in Objects /\ o.fin
      BY <3>1, ObjectChanges, Zenon
    <3> HIDE DEF o
    <3>3. obj'[k] = o
      BY <1>0, <3>1 DEF CopyInv, Types, ObjectTypes
    <3> QED BY <3>2, <3>3, ObjectIsObject DEF Chained, Guarded
  <2> QED BY <2>1, <2>2, SMTT(20)
<1>3. ASSUME NEW i \in 1..2, Linked(i)
      PROVE  Linked(i)'
  <2>1. i \in Reconcilers /\ i \in 1..4 /\ i + 1 \in 1..4
    BY SMTT(20) DEF Reconcilers
  <2>2. Chained(i) => Chained(i)'
    BY <1>0, <1>1, <2>1 DEF Chained
  <2> QED BY <1>0, <1>1, <1>2, <1>3, <2>1, <2>2 DEF Linked
<1>4. NotRevived'
  <2>1. 1 \in Reconcilers /\ 2 \in 1..4
    BY DEF Reconcilers
  <2> QED BY <1>0, <1>1, <2>1 DEF CopyInv, NotRevived
<1> QED BY <1>3, <1>4 DEF CopyInv

\* Deleting the copy.
LEMMA CleanupLinks ==
  ASSUME CopyInv, NEW k \in Reconcilers, Cleanup(k)
  PROVE  Linked(1)' /\ Linked(2)' /\ NotRevived'
<1>0. /\ k \in 1..4 /\ k + 1 \in 1..4 /\ stripped' = stripped /\ Ended(Source(k))
      /\ \A i \in Reconcilers : Source(i)' = Source(i)
      /\ pc'[k] = "unfinal" /\ read'[k].deleting
      /\ \A i \in Reconcilers \ {k} : pc'[i] = pc[i] /\ read'[i] = read[i]
  BY CachesShow DEF Cleanup, CopyInv, Types, WorkerTypes, Source, Ended, Live, IsObject
<1>1. /\ obj'[k + 1] = MarkDeleted(obj[k + 1]) /\ obj[k + 1] \in Maybe(Objects)
      /\ \A n \in 1..4 \ {k + 1} : obj'[n] = obj[n]
  BY <1>0, Zenon DEF Cleanup, DeleteCopy, CopyInv, Types, ObjectTypes
<1>2. \A n \in 1..4 : /\ Live(obj'[n]) => Live(obj[n])
                      /\ Guarded(obj[n]) => Guarded(obj'[n])
                      /\ Ended(obj[n]) => Ended(obj'[n])
  BY <1>1, DeletedObject DEF Ended
<1>3. ~Live(obj'[k + 1])
  BY <1>1, DeletedObject, Zenon
<1>4. ASSUME NEW i \in 1..2, Linked(i)
      PROVE  Linked(i)'
  <2>1. i \in Reconcilers /\ i \in 1..4 /\ i + 1 \in 1..4
    BY DEF Reconcilers
  <2>2. Chained(i) => Chained(i)'
    BY <1>0, <1>2, <2>1 DEF Chained
  <2> QED BY <1>0, <1>2, <1>3, <1>4, <2>1, <2>2 DEF Linked
<1>5. NotRevived'
  <2>1. 1 \in Reconcilers /\ 2 \in 1..4 /\ (k # 1 => k + 1 # 2)
    BY DEF Reconcilers
  <2>2. CASE k = 1
    BY <1>0, <2>1, <2>2 DEF NotRevived
  <2>3. CASE k # 1
    BY <1>0, <1>1, <2>1, <2>3 DEF CopyInv, NotRevived
  <2> QED BY <2>2, <2>3
<1> QED BY <1>4, <1>5 DEF CopyInv

\* Writing the copy, whose finalizers the Update replaces.
LEMMA ApplyLinks ==
  ASSUME CopyInv, NEW k \in Reconcilers, Apply(k)
  PROVE  Linked(1)' /\ Linked(2)' /\ NotRevived'
<1>0. /\ k \in 1..4 /\ k + 1 \in 1..4 /\ pc[k] = "apply" /\ read[k] \in Objects
      /\ \A i \in Reconcilers : Source(i)' = Source(i)
      /\ pc'[k] = "idle" /\ \A i \in Reconcilers \ {k} : pc'[i] = pc[i] /\ read'[i] = read[i]
  BY CachesShow, Zenon DEF Apply, Done, Retry, Idle, CopyInv, Types, WorkerTypes, Source
<1>1. CASE UNCHANGED <<obj, stripped>>
  <2>1. ASSUME NEW i \in 1..2, Linked(i)
        PROVE  Linked(i)'
    <3>1. i \in Reconcilers
      BY DEF Reconcilers
    <3>2. Chained(i)' = Chained(i)
      BY <1>1 DEF Chained
    <3> QED BY <1>0, <1>1, <2>1, <3>1, <3>2 DEF Linked
  <2>2. 1 \in Reconcilers
    BY SMTT(20) DEF Reconcilers
  <2>3. NotRevived'
    BY <1>0, <1>1, <2>2 DEF CopyInv, NotRevived
  <2> QED BY <2>1, <2>3 DEF CopyInv
<1>2. CASE ~UNCHANGED <<obj, stripped>>
  <2> DEFINE made == [data |-> Contents(read[k]), fin |-> FALSE, deleting |-> FALSE]
  <2>1. /\ obj' = [obj EXCEPT ![k + 1] = made]
        /\ stripped' = (stripped \/ (k = 1 /\ Guarded(obj[k + 1])))
    BY <1>2, Zenon DEF Apply, Guarded
  <2>2. Live(made) /\ ~Guarded(made) /\ ~Ended(made)
    BY <1>0, CopyOf, Zenon DEF Ended
  <2> HIDE DEF made
  <2>3. obj'[k + 1] = made /\ \A n \in 1..4 \ {k + 1} : obj'[n] = obj[n]
    BY <1>0, <2>1, Zenon DEF CopyInv, Types, ObjectTypes
  <2>4. stripped => stripped'
    BY <2>1, Zenon
  <2>5. Linked(1)'
    <3>1. 1 \in Reconcilers /\ 1 # k + 1 /\ 1 + 1 = 2 /\ (k # 1 => k + 1 # 2)
      BY DEF Reconcilers
    <3>2. obj'[1] = obj[1] /\ (k # 1 => obj'[2] = obj[2])
      BY <2>3, <3>1
    <3>3. Chained(1)' = Chained(1)
      BY <3>2 DEF Chained
    <3>4. CASE k = 1
      BY <1>0, <3>1, <3>2, <3>3, <3>4, Zenon DEF CopyInv, Linked
    <3>5. CASE k # 1
      BY <1>0, <3>1, <3>2, <3>3, <3>5 DEF CopyInv, Linked
    <3> QED BY <3>4, <3>5
  <2>6. Linked(2)'
    <3>1. 2 \in Reconcilers /\ 2 + 1 = 3 /\ 1 + 1 = 2 /\ (k = 1 \/ k = 2 \/ k = 3)
      BY DEF Reconcilers
    <3>2. CASE k = 1
      <4>1. obj'[2] = made /\ obj'[3] = obj[3] /\ stripped' = (stripped \/ Guarded(obj[2]))
        BY <2>1, <2>3, <3>2
      <4>2. Chained(2) => Chained(2)'
        BY <4>1, Zenon DEF Chained
      <4>3. ~Ended(Source(2))
        BY <1>0, <3>2, Zenon DEF CopyInv, Linked, NotRevived
      <4> QED BY <1>0, <3>1, <3>2, <4>1, <4>2, <4>3, Zenon DEF CopyInv, Linked
    <3>3. CASE k # 1
      <4>1. obj'[2] = obj[2] /\ (k # 2 => obj'[3] = obj[3])
        BY <2>3, <3>1, <3>3
      <4>2. Chained(2) => Chained(2)'
        BY <2>4, <4>1 DEF Chained
      <4> QED BY <1>0, <3>1, <3>3, <4>1, <4>2 DEF CopyInv, Linked
    <3> QED BY <3>2, <3>3
  <2>7. NotRevived'
    <3>1. 1 \in Reconcilers /\ (k = 1 => k + 1 = 2) /\ (k # 1 => k + 1 # 2)
      BY DEF Reconcilers
    <3>2. CASE k = 1
      BY <2>2, <2>3, <3>1, <3>2 DEF NotRevived
    <3>3. CASE k # 1
      BY <1>0, <2>3, <3>1, <3>3 DEF CopyInv, NotRevived
    <3> QED BY <3>2, <3>3
  <2> QED BY <2>5, <2>6, <2>7
<1> QED BY <1>1, <1>2, Zenon

\* Removing the finalizer: the source has ended, so it goes.
LEMMA RemoveLinks ==
  ASSUME CopyInv, NEW k \in Reconcilers, RemoveFinalizer(k)
  PROVE  Linked(1)' /\ Linked(2)' /\ NotRevived'
<1>0. /\ k \in 1..4 /\ pc[k] = "unfinal" /\ read[k] \in Objects /\ stripped' = stripped
      /\ \A i \in Reconcilers : Source(i)' = Source(i)
      /\ pc'[k] = "idle" /\ \A i \in Reconcilers \ {k} : pc'[i] = pc[i] /\ read'[i] = read[i]
  BY CachesShow DEF RemoveFinalizer, Done, Retry, Idle, CopyInv, Types, WorkerTypes, Source
<1>1. \A n \in 1..4 : n = k \/ obj'[n] = obj[n]
  BY DEF RemoveFinalizer, CopyInv, Types, ObjectTypes
<1>2. obj'[k] # obj[k] => obj'[k] = WithoutFinalizer(read[k]) /\ obj[k] = read[k]
  BY <1>0 DEF RemoveFinalizer, CopyInv, Types, ObjectTypes
<1>3. Live(obj'[k]) => Live(obj[k])
  BY <1>0, <1>2, ObjectChanges, ObjectIsObject DEF WithoutFinalizer, Live, IsObject
<1>4. k \in 1..2 => /\ ~Live(obj[k + 1]) /\ Ended(Source(k))
                    /\ obj'[k] # obj[k] => obj'[k] = Gone /\ Ended(obj[k])
  BY <1>0, <1>2 DEF CopyInv, Linked, WithoutFinalizer, Ended, Live
<1>5. Ended(Gone)
  BY MarkersAssumption DEF Ended, Live, IsObject
<1>6. ASSUME NEW i \in 1..2, Linked(i)
      PROVE  Linked(i)'
  <2>1. i \in Reconcilers /\ i \in 1..4 /\ i + 1 \in 1..4 /\ i + 1 # i
    BY SMTT(20) DEF Reconcilers
  <2>2. CASE i = k
    <3>1. obj'[i + 1] = obj[i + 1]
      BY <1>1, <2>1, <2>2
    <3>2. ~Live(Source(i)')
      BY <1>0, <1>4, <2>1, <2>2, Zenon DEF Ended
    <3> QED BY <1>0, <1>4, <1>5, <1>6, <2>1, <2>2, <3>1, <3>2 DEF Linked
  <2>3. CASE i # k
    <3>1. obj'[i] = obj[i] /\ (Live(obj'[i + 1]) => Live(obj[i + 1]))
      BY <1>1, <1>3, <2>1, <2>3, ZenonT(30)
    <3>2. Chained(i)' = Chained(i)
      BY <1>0, <3>1, ZenonT(30) DEF Chained
    <3> QED BY <1>0, <1>6, <2>1, <2>3, <3>1, <3>2, Zenon DEF Linked
  <2> QED BY <2>2, <2>3
<1>7. NotRevived'
  <2>1. 1 \in Reconcilers /\ 2 \in 1..4
    BY DEF Reconcilers
  <2>2. Ended(obj'[2]) => Ended(obj[2])
    BY <1>1, <1>4, <2>1
  <2> QED BY <1>0, <2>1, <2>2, Zenon DEF CopyInv, NotRevived
<1> QED BY <1>6, <1>7 DEF CopyInv

\* A SyncSecret in use, in the tenant cluster or in the load balancing cluster, has a
\* source that carries the finalizer of the reconciler that made it, whatever the
\* caches show and however the two processes restart; the exception is a source whose
\* finalizer the Update of CreateOrUpdateSyncSecret has replaced.
THEOREM CopiesAreOwned == Spec => []NoOrphanCopy
<1>1. Init => CopyInv
  <2> SUFFICES ASSUME Init PROVE CopyInv
    OBVIOUS
  <2>1. Source(1) = Absent /\ Source(2) = Absent
    BY CachesShow DEF Init, Source, Reconcilers
  <2>2. Linked(1) /\ Linked(2) /\ NotRevived
    BY <2>1 DEF Init, Linked, NotRevived, Ended, Live, IsObject, Reconcilers
  <2> QED BY <2>2, TypesInitially DEF CopyInv
<1>2. CopyInv /\ [Next]_vars => CopyInv'
  <2> SUFFICES ASSUME CopyInv, [Next]_vars PROVE CopyInv'
    OBVIOUS
  <2>1. CASE UNCHANGED vars \/ \E k \in Reconcilers : Skip(k)
    <3>1. UNCHANGED <<obj, cache, pc, read, stripped>>
      BY <2>1 DEF vars, Skip
    <3>2. Source(1)' = Source(1) /\ Source(2)' = Source(2)
      BY <3>1, SourcesKept
    <3> QED BY <3>1, <3>2, ShapeKept, TypesStep DEF CopyInv
  <2> QED
    BY <2>1, TypesStep, Steps, TenantLinks, InformerLinks, BeginLinks, CleanupLinks, ApplyLinks,
       RemoveLinks DEF CopyInv
<1>3. CopyInv => NoOrphanCopy
  <2>1. 1 + 1 = 2 /\ 2 + 1 = 3
    OBVIOUS
  <2> QED BY <2>1 DEF CopyInv, Linked, Chained, Guarded, NoOrphanCopy
<1> QED BY <1>1, <1>2, <1>3, PTL DEF Spec

-----------------------------------------------------------------------------
(* EnvoySnapshot.  No snapshot mixes two versions of a namespace's          *)
(* Addresses, however many ports and tenants there are and however often    *)
(* Addresses change.  The argument is about the worker: what it has mapped  *)
(* so far agrees with what it has loaded, and what it has loaded is not     *)
(* loaded again.                                                            *)

\* Addresses are loaded under their own namespace.
LoadedByNamespace == \A n \in DOMAIN addressesMap : addressesMap[n][1] = n

\* A mapped item has addresses of its namespace: the loaded ones if it refers to them.
MappedFromLoaded ==
  \A i \in DOMAIN mapped :
    /\ mapped[i].cluster.endpoints[1] = i.ns
    /\ i.ref => /\ i.ns \in DOMAIN addressesMap
                /\ mapped[i].cluster.endpoints = addressesMap[i.ns]

SnapInv == LoadedByNamespace /\ MappedFromLoaded /\ OneVersion

\* Nothing is loaded or mapped when a call of MapSnapshot starts.
LEMMA NothingMapped == DOMAIN NoResources = {}
BY DEF NoResources

\* A worker that drops what it has mapped and loaded keeps the invariant.
LEMMA ForgetKeeps ==
  ASSUME OneVersion', addressesMap' = NoneLoaded, mapped' = NoResources
  PROVE  SnapInv'
BY NothingMapped DEF SnapInv, LoadedByNamespace, MappedFromLoaded, NoneLoaded

\* Steps that leave what is loaded, mapped and published alone.
LEMMA SnapInvKept ==
  ASSUME SnapInv, UNCHANGED <<addressesMap, mapped, published>>
  PROVE  SnapInv'
<1>1. LoadedByNamespace'
  BY Zenon DEF SnapInv, LoadedByNamespace
<1>2. MappedFromLoaded'
  BY Zenon DEF SnapInv, MappedFromLoaded
<1>3. OneVersion'
  BY ZenonT(30) DEF SnapInv, OneVersion
<1> QED BY <1>1, <1>2, <1>3, Zenon DEF SnapInv

\* One item is mapped: addresses that were loaded before are used again.
LEMMA MapItemKeeps ==
  ASSUME SnapInv, NEW i \in Items, MapItem(i)
  PROVE  SnapInv'
<1> DEFINE a == IF i.ref THEN Resolve(i.ns) ELSE <<i.ns, "inline">>
<1>1. OneVersion'
  BY ZenonT(30) DEF SnapInv, OneVersion, MapItem
<1>2. CASE AddressesMissing(i)
  BY <1>1, <1>2, ForgetKeeps DEF MapItem
<1>3. CASE ~AddressesMissing(i)
  <2>1. /\ mapped' = Set(mapped, i, Resource(i, a))
        /\ addressesMap' = IF i.ref THEN Set(addressesMap, i.ns, a) ELSE addressesMap
    BY <1>3 DEF MapItem, AddressKey
  <2>2. a[1] = i.ns
    BY DEF SnapInv, LoadedByNamespace, Resolve, Loaded, AddressKey
  <2>3. i.ref => /\ i.ns \in DOMAIN addressesMap' /\ addressesMap'[i.ns] = a
    <3> HIDE DEF a
    <3> QED BY <2>1 DEF Set
  <2>4. \A n \in DOMAIN addressesMap :
          n \in DOMAIN addressesMap' /\ addressesMap'[n] = addressesMap[n]
    <3>1. i.ref /\ i.ns \in DOMAIN addressesMap => a = addressesMap[i.ns]
      BY DEF Resolve, Loaded, AddressKey
    <3> HIDE DEF a
    <3> QED BY <2>1, <3>1 DEF Set
  <2>5. Resource(i, a).cluster.endpoints = a
    BY Zenon DEF Resource, makeCluster
  <2> HIDE DEF a
  <2>6. LoadedByNamespace'
    <3>1. \A n \in DOMAIN addressesMap' : n \in DOMAIN addressesMap \/ (i.ref /\ n = i.ns)
      BY <2>1, Zenon DEF Set
    <3> QED BY <2>2, <2>3, <2>4, <3>1 DEF SnapInv, LoadedByNamespace
  <2>7. MappedFromLoaded'
    <3>1. \A j \in DOMAIN mapped' : j # i => j \in DOMAIN mapped /\ mapped'[j] = mapped[j]
      BY <2>1 DEF Set
    <3>2. i \in DOMAIN mapped' /\ mapped'[i].cluster.endpoints = a
      BY <2>1, <2>5 DEF Set
    <3> QED BY <2>2, <2>3, <2>4, <3>1, <3>2 DEF SnapInv, MappedFromLoaded
  <2> QED BY <1>1, <2>6, <2>7 DEF SnapInv
<1> QED BY <1>2, <1>3, Zenon

\* What is published is what was mapped.
LEMMA PublishKeeps ==
  ASSUME SnapInv, updateCache
  PROVE  SnapInv'
<1>1. OneVersion'
  BY DEF SnapInv, MappedFromLoaded, OneVersion, updateCache
<1> QED BY <1>1, ForgetKeeps DEF updateCache

\* All endpoints of a published snapshot that refer to the Addresses of a namespace
\* have the same version of them, and none has those of another tenant, for any
\* number of ports and any interleaving of writes with MapSnapshot.
THEOREM SnapshotIsConsistent == SnapSpec => []OneVersion
<1>1. SnapInit => SnapInv
  BY NothingMapped DEF SnapInit, SnapInv, LoadedByNamespace, MappedFromLoaded, OneVersion
<1>2. SnapInv /\ [SnapNext]_snapVars => SnapInv'
  <2> SUFFICES ASSUME SnapInv, [SnapNext]_snapVars PROVE SnapInv'
    OBVIOUS
  <2>1. CASE UNCHANGED snapVars
    BY <2>1, SnapInvKept DEF snapVars, snapWorker
  <2>2. ASSUME NEW i \in Items, ChangeItem(i) PROVE SnapInv'
    BY <2>2, SnapInvKept DEF ChangeItem, snapWorker
  <2>3. ASSUME NEW n \in Namespaces, WriteAddresses(n) PROVE SnapInv'
    BY <2>3, SnapInvKept, Zenon DEF WriteAddresses, snapWorker
  <2>4. CASE BeginSnapshot
    BY <2>4, ForgetKeeps DEF BeginSnapshot, SnapInv, OneVersion
  <2>5. CASE updateCache
    BY <2>5, PublishKeeps
  <2>6. ASSUME NEW i \in Items, MapItem(i) PROVE SnapInv'
    BY <2>6, MapItemKeeps
  <2> QED BY <2>1, <2>2, <2>3, <2>4, <2>5, <2>6 DEF SnapNext, SnapWorker
<1>3. SnapInv => OneVersion
  BY DEF SnapInv
<1> QED BY <1>1, <1>2, <1>3, PTL DEF SnapSpec

(* What SnapshotFollows rests on besides fairness: a request that comes     *)
(* while a snapshot is being mapped is not lost with it.                    *)

\* The endpoints of r have the addresses of the reconciler's cache.
CurrentIn(r) == \A i \in DOMAIN r : i.ref => r[i].cluster.endpoints = <<i.ns, addresses[i.ns]>>

\* Nothing is left to do: the snapshot has every item, with current addresses.
PublishedAtRest ==
  phase = "idle" /\ ~snapQueued => DOMAIN published = items /\ CurrentIn(published)

\* What the worker has done so far for the items it has listed is still current,
\* unless there is a request.
MappingCurrent ==
  phase = "mapping" /\ ~snapQueued =>
    /\ DOMAIN mapped \cup left = items
    /\ \A n \in DOMAIN addressesMap : addressesMap[n] = <<n, addresses[n]>>
    /\ CurrentIn(mapped)

SnapRestInv == PublishedAtRest /\ MappingCurrent

\* One more item is mapped, with the addresses of the cache.
LEMMA MapItemRests ==
  ASSUME SnapRestInv, NEW i \in Items, MapItem(i)
  PROVE  SnapRestInv'
<1> DEFINE a == IF i.ref THEN Resolve(i.ns) ELSE <<i.ns, "inline">>
<1>1. CASE AddressesMissing(i)
  BY <1>1, Zenon DEF MapItem, SnapRestInv, PublishedAtRest, MappingCurrent
<1>2. CASE ~AddressesMissing(i)
  <2>1. /\ mapped' = Set(mapped, i, Resource(i, a))
        /\ addressesMap' = IF i.ref THEN Set(addressesMap, i.ns, a) ELSE addressesMap
        /\ phase = "mapping" /\ i \in left /\ left' = left \ {i}
        /\ UNCHANGED <<phase, snapQueued, items, addresses>>
    BY <1>2, Zenon DEF MapItem, AddressKey
  <2>2. Resource(i, a).cluster.endpoints = a
    BY DEF Resource, makeCluster
  <2>3. SUFFICES ASSUME ~snapQueued PROVE MappingCurrent'
    BY <2>1, Zenon DEF SnapRestInv, PublishedAtRest, MappingCurrent
  <2>4. /\ DOMAIN mapped \cup left = items
        /\ \A n \in DOMAIN addressesMap : addressesMap[n] = <<n, addresses[n]>>
        /\ CurrentIn(mapped)
    BY <2>1, <2>3, Zenon DEF SnapRestInv, MappingCurrent
  <2>5. i.ref => a = <<i.ns, addresses[i.ns]>>
    BY <2>4, Zenon DEF Resolve, Loaded, AddressKey
  <2> HIDE DEF a
  <2>6. DOMAIN mapped' = DOMAIN mapped \cup {i} /\ mapped'[i] = Resource(i, a)
        /\ \A j \in DOMAIN mapped : j # i => mapped'[j] = mapped[j]
    BY <2>1, Zenon DEF Set
  <2>7. DOMAIN mapped' \cup left' = items'
    BY <2>1, <2>4, <2>6, Zenon
  <2>8. CurrentIn(mapped)'
    <3> SUFFICES ASSUME NEW j \in DOMAIN mapped', j.ref
                 PROVE  mapped'[j].cluster.endpoints = <<j.ns, addresses'[j.ns]>>
      BY Zenon DEF CurrentIn
    <3>1. addresses' = addresses
      BY <2>1, Zenon
    <3>2. CASE j = i
      BY <2>2, <2>5, <2>6, <3>1, <3>2, Zenon
    <3>3. CASE j # i
      BY <2>4, <2>6, <3>1, <3>3, Zenon DEF CurrentIn
    <3> QED BY <3>2, <3>3, Zenon
  <2>9. ASSUME NEW n \in DOMAIN addressesMap' PROVE addressesMap'[n] = <<n, addresses'[n]>>
    BY <2>1, <2>4, <2>5, <2>9 DEF Set
  <2> QED BY <2>7, <2>8, <2>9 DEF MappingCurrent
<1> QED BY <1>1, <1>2, Zenon

\* Whenever the reconciler is idle without a request, the published snapshot has
\* exactly the items of its cache and the current addresses of each, for any number
\* of ports and any interleaving of changes with MapSnapshot.
THEOREM SnapshotCurrentAtRest == SnapSpec => []PublishedAtRest
<1>1. SnapInit => SnapRestInv
  BY NothingMapped, Zenon DEF SnapInit, SnapRestInv, PublishedAtRest, MappingCurrent, CurrentIn
<1>2. SnapRestInv /\ [SnapNext]_snapVars => SnapRestInv'
  <2> SUFFICES ASSUME SnapRestInv, [SnapNext]_snapVars PROVE SnapRestInv'
    OBVIOUS
  <2> USE DEF SnapRestInv, PublishedAtRest, MappingCurrent
  <2>1. CASE UNCHANGED snapVars
    BY <2>1, Zenon DEF snapVars, snapWorker, CurrentIn
  <2>2. CASE snapQueued'
    BY <2>2, Zenon
  <2>3. CASE BeginSnapshot
    BY <2>3, NothingMapped, Zenon DEF BeginSnapshot, NoneLoaded, CurrentIn
  <2>4. CASE updateCache
    BY <2>4, Zenon DEF updateCache, CurrentIn
  <2>5. ASSUME NEW i \in Items, MapItem(i) PROVE SnapRestInv'
    BY <2>5, MapItemRests, Zenon
  <2> QED BY <2>1, <2>2, <2>3, <2>4, <2>5, Zenon DEF SnapNext, SnapWorker, ChangeItem, WriteAddresses
<1> QED BY <1>1, <1>2, PTL DEF SnapSpec, SnapRestInv

-----------------------------------------------------------------------------
(* HostnameObjects.  A published hostname is not replaced, for any          *)
(* settings, any hostnames and any number of restarts.  Two writes reach    *)
(* the status.  Update carries the version of the object that was read, so  *)
(* a hostname drawn for a LoadBalancer without one is stored only if it     *)
(* still has none.  The patch of updateLoadBalancerStatus carries no        *)
(* version: it is harmless because the worker's hostname is then the one of *)
(* its own copy, which is not patched, or none.                             *)

HasStatus(o) == "status" \in DOMAIN o

\* The objects are records with a status.
ObjectsHaveStatus ==
  /\ Exists(lb) => HasStatus(lb)
  /\ Exists(cLB) => HasStatus(cLB)
  /\ at # "idle" => HasStatus(mine)

\* The worker's hostname is the one in the status of its copy or, when it comes to
\* write the status, none.
HostnameOfCopy ==
  /\ at \in {"host finalizer", "object"} => hostname = mine.status
  /\ at = "status" => hostname \in {mine.status, NoHost}

HostInv == ObjectsHaveStatus /\ HostnameOfCopy

\* The steps of tenants, administrators, informers, the garbage collector and a
\* restart: none of them writes a status.
LEMMA OthersKeep ==
  ASSUME HostInv, HostEnvironment \/ HostInformers \/ ResyncLB \/ HostRestart
                  \/ \E k \in RouteKinds : CollectRoute(k)
  PROVE  HostInv' /\ HostnameKept
<1> USE DEF HostInv, ObjectsHaveStatus, HostnameOfCopy, HostnameKept, HasStatus,
            hostAPI, hostCache, hostWorker
<1>1. ASSUME NEW h \in SpecHosts, CreateLB(h) PROVE HostInv' /\ HostnameKept
  BY <1>1, Zenon DEF CreateLB, Exists
<1>2. ASSUME NEW h \in SpecHosts, ChangeHost(h) PROVE HostInv' /\ HostnameKept
  BY <1>2, Zenon DEF ChangeHost, Alive, Exists
<1>3. CASE DeleteLB
  BY <1>3, Zenon DEF DeleteLB, Alive, Exists, Unfinalized
<1>4. ASSUME NEW s \in HostnameSettings, ChangeHostSettings(s) PROVE HostInv' /\ HostnameKept
  BY <1>4, Zenon DEF ChangeHostSettings
<1>5. CASE SyncLB
  BY <1>5, Zenon DEF SyncLB
<1>6. ASSUME NEW k \in RouteKinds, SyncRoute(k) \/ CollectRoute(k) PROVE HostInv' /\ HostnameKept
  BY <1>6, Zenon DEF SyncRoute, CollectRoute
<1>7. CASE ResyncLB
  BY <1>7, Zenon DEF ResyncLB
<1>8. CASE HostRestart
  BY <1>8, Zenon DEF HostRestart, Stop
<1> QED BY <1>1, <1>2, <1>3, <1>4, <1>5, <1>6, <1>7, <1>8, Zenon DEF HostEnvironment, HostInformers

\* The steps of the worker that write the LoadBalancer with its version.
LEMMA UpdatesKeep ==
  ASSUME HostInv, StoreCleanupFinalizer \/ configureHostname \/ AddHostnameFinalizer
                  \/ RemoveFinalizers
  PROVE  HostInv' /\ HostnameKept
<1> USE DEF HostInv, ObjectsHaveStatus, HostnameOfCopy, HostnameKept, HasStatus,
            HasHostname, hostCache, Store, SameVersion, GoTo, StopRetry, StopDone, Stop
<1>1. CASE StoreCleanupFinalizer
  BY <1>1, Zenon DEF StoreCleanupFinalizer
<1>2. CASE configureHostname
  <2> DEFINE h == GenerateHostname(mine, using)
  <2>1. CASE ~ShouldConfigureHostname(using) \/ (mine.status = NoHost /\ h = NoHost)
    BY <1>2, <2>1, Zenon DEF configureHostname
  <2>2. CASE mine.status # NoHost
    BY <1>2, <2>2, Zenon DEF configureHostname
  <2>3. CASE mine.status = NoHost /\ h # NoHost /\ ShouldConfigureHostname(using)
    <3>1. Store([mine EXCEPT !.status = h], "host finalizer", h) /\ at = "hostname" /\ cLB' = cLB
      BY <1>2, <2>3, Zenon DEF configureHostname
    <3> HIDE DEF h
    <3> QED BY <2>3, <3>1, Zenon
  <2> QED BY <2>1, <2>2, <2>3, Zenon
<1>3. CASE AddHostnameFinalizer
  BY <1>3, Zenon DEF AddHostnameFinalizer
<1>4. CASE RemoveFinalizers
  BY <1>4, Zenon DEF RemoveFinalizers, Unfinalized, Exists
<1> QED BY <1>1, <1>2, <1>3, <1>4, Zenon

\* The other steps of the worker, the patch of the status among them.
LEMMA WorkerKeeps ==
  ASSUME HostInv, LBWorker
  PROVE  HostInv' /\ HostnameKept
<1> USE DEF HostInv, ObjectsHaveStatus, HostnameOfCopy, HostnameKept, HasStatus,
            hostAPI, hostCache, hostWorker, GoTo, StopRetry, StopDone, Stop
<1>1. CASE ReconcileLB
  BY <1>1, Zenon DEF ReconcileLB
<1>2. CASE CreateRouteForHostname
  BY <1>2, Zenon DEF CreateRouteForHostname
<1>3. CASE updateLoadBalancerStatus
  BY <1>3, Zenon DEF updateLoadBalancerStatus
<1>4. CASE \/ CleanupHostname("delete Ingress", "Ingress", "delete HTTPRoute")
           \/ CleanupHostname("delete HTTPRoute", "HTTPRoute", "unfinalize")
  BY <1>4, Zenon DEF CleanupHostname
<1> QED BY <1>1, <1>2, <1>3, <1>4, UpdatesKeep, Zenon DEF LBWorker

\* The hostname in the status of a LoadBalancer is never replaced by another one,
\* whatever the settings, the hostnames and the restarts of the manager.
THEOREM HostnameIsStable == HostSpec => HostnameStable
<1>1. HostInit => HostInv
  BY DEF HostInit, HostInv, ObjectsHaveStatus, HostnameOfCopy, Exists
<1>2. HostInv /\ [HostNext]_hostVars => HostInv' /\ [HostnameKept]_hostVars
  <2> SUFFICES ASSUME HostInv, [HostNext]_hostVars PROVE HostInv' /\ [HostnameKept]_hostVars
    OBVIOUS
  <2>1. CASE UNCHANGED hostVars
    BY <2>1, Zenon DEF hostVars, hostAPI, hostCache, hostWorker, HostInv, ObjectsHaveStatus,
                HostnameOfCopy, Exists, HasStatus
  <2>2. CASE HostNext
    BY <2>2, OthersKeep, WorkerKeeps DEF HostNext
  <2> QED BY <2>1, <2>2
<1> QED BY <1>1, <1>2, PTL DEF HostSpec, HostnameStable
==============================================================================
