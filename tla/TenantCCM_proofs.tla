--------------------------- MODULE TenantCCM_proofs ---------------------------
(***************************************************************************)
(* A target is never left without its source, for every kind of source and  *)
(* any number of changes, deletions by others and restarts.  The worker     *)
(* decides on a cached source, so the argument relates the cache to the     *)
(* stored source: a cached source that is live and has the finalizer is     *)
(* stored with it, because only a cleanup removes the finalizer and by then *)
(* the cache shows the deletion.  Then two results about lists: the        *)
(* references of Ingresses and Routes, and the addresses of nodes.          *)
(***************************************************************************)
EXTENDS TenantCCM, NodeAddresses, RouteReferences, WellFoundedInduction, TLAPS

Cleaning == pc \in {"delete services", "delete target", "unfinal"}
Creating == pc \in {"services", "target", "update", "status"}

\* TypeOK, by what the prover can treat together.
Flags == /\ replica \in BOOLEAN /\ cReplica \in BOOLEAN
         /\ queued \in BOOLEAN /\ unseen \in BOOLEAN

\* The objects and their caches; a revision is an event.
Objects ==
  /\ src \in SourceObjects \cup {Absent, Gone} /\ cSrc \in SourceObjects \cup {Absent, Gone}
  /\ tgt \in TargetObjects \cup {Absent} /\ cTgt \in TargetObjects \cup {Absent}
  /\ events \in 0..MaxEvents
  /\ IsObject(src) => src.rev <= events

\* What the worker has read.
WorkerTypes ==
  /\ kind \in Kinds
  /\ obj \in SourceObjects \cup {Absent} /\ act \in TargetObjects \cup {Absent}
  /\ pc # "idle" => obj \in SourceObjects
  /\ pc = "update" => act \in TargetObjects
  /\ pc \in {"idle", "services", "target", "update", "status",
             "delete services", "delete target", "unfinal"}

CCMTypes == Flags /\ Objects /\ WorkerTypes

\* What is in the cache was stored: a source does not return from its deletion, and
\* has its finalizer until the cleanup.
CacheFollows ==
  IsObject(cSrc) =>
    /\ src # Absent
    /\ cSrc.deleting => (src = Gone \/ src.deleting)
    /\ ~cSrc.deleting /\ cSrc.fin => IsObject(src) /\ src.fin

\* Targets are written for sources that have the finalizer; a cleanup is one of a
\* deleted source, and its last step comes when the target is deleted.
WorkerFollows ==
  /\ Creating => IsObject(src) /\ src.fin
  /\ Cleaning => /\ src # Absent /\ (src = Gone \/ src.deleting)
                 /\ IsObject(cSrc) => cSrc.deleting
                 /\ obj.deleting
  /\ pc = "unfinal" => ~Live(tgt) \/ (unseen /\ kind # "Service")

CCMInv == CCMTypes /\ CacheFollows /\ WorkerFollows /\ NoOrphanTarget

\* The steps of the worker; only the controllers of Routes clean up Routes.
WorkerStep ==
  \/ Skip \/ Begin \/ CleanupBegin \/ RemoveFinalizer \/ CreateLoadBalancer
  \/ UpdateServiceStatus \/ UpdateLoadBalancer \/ cleanupService
  \/ ReplicateServices \/ CreateUpdateRoute \/ UpdateSourceStatus
  \/ CleanupServices \/ (kind # "Service" /\ cleanupRoute)

\* The steps of everybody else.
OtherStep ==
  \/ CreateSource \/ UpdateSource \/ ChangeClass \/ DeleteSource
  \/ DeleteTarget \/ ReportStatus \/ LoseStatus \/ OtherSource \/ Restart
  \/ RemoveTarget \/ SyncSource \/ SyncTarget \/ SyncReplica \/ Resync

-----------------------------------------------------------------------------
\* The markers are no objects.
LEMMA Markers ==
  /\ Absent # Gone
  /\ \A o \in SourceObjects \cup TargetObjects : o # Absent /\ o # Gone
BY MarkersAssumption

\* Changes to a source give a source, and leave its revision.
LEMMA SourceUpdates ==
  \A o \in SourceObjects :
    /\ o.rev \in 0..MaxEvents
    /\ [o EXCEPT !.class = ~@] \in SourceObjects /\ [o EXCEPT !.class = ~@].rev = o.rev
    /\ [o EXCEPT !.deleting = TRUE] \in SourceObjects
    /\ [o EXCEPT !.deleting = TRUE].rev = o.rev
    /\ \A b \in BOOLEAN :
         /\ [o EXCEPT !.fin = b] \in SourceObjects /\ [o EXCEPT !.fin = b].rev = o.rev
         /\ [o EXCEPT !.status = b] \in SourceObjects /\ [o EXCEPT !.status = b].rev = o.rev
    /\ \A n \in 0..MaxEvents :
         [o EXCEPT !.rev = n] \in SourceObjects /\ [o EXCEPT !.rev = n].rev = n
BY Zenon DEF SourceObjects

\* Changes to a target give a target.
LEMMA TargetUpdates ==
  \A o \in TargetObjects :
    /\ [o EXCEPT !.deleting = TRUE] \in TargetObjects
    /\ \A s \in {"none", "empty", "set"} : [o EXCEPT !.status = s] \in TargetObjects
    /\ \A n \in 0..MaxEvents :
         /\ [o EXCEPT !.rev = n] \in TargetObjects
         /\ \A b \in BOOLEAN : [o EXCEPT !.rev = n, !.ready = b] \in TargetObjects
BY Zenon DEF TargetObjects

\* A target made from a source.
LEMMA NewTarget ==
  \A o \in SourceObjects : \A b \in BOOLEAN : New(o, b) \in TargetObjects
BY DEF SourceObjects, TargetObjects, New

\* Counting an event keeps its bound, and the one on revisions.
LEMMA EventCounts ==
  ASSUME Objects, Event
  PROVE  events' \in 0..MaxEvents /\ (IsObject(src) => src.rev <= events')
<1>1. IsObject(src) => src.rev \in 0..MaxEvents
  BY SourceUpdates, Zenon DEF Objects, IsObject
<1> QED BY <1>1, BoundAssumption DEF Objects, Event

\* A new revision of a source.
LEMMA RevisionCounts ==
  ASSUME Objects, UpdateSource
  PROVE  /\ src \in SourceObjects /\ src' \in SourceObjects
         /\ src'.fin = src.fin /\ src'.deleting = src.deleting
         /\ events' \in 0..MaxEvents /\ src'.rev <= events'
<1>1. src \in SourceObjects /\ src.rev <= events
  BY DEF UpdateSource, Live, IsObject, Objects
<1>2. src.rev \in 0..MaxEvents
  BY <1>1, SourceUpdates, Zenon
<1>3. /\ src.rev + 1 \in 0..MaxEvents /\ src.rev + 1 <= events' /\ events' \in 0..MaxEvents
      /\ src' = [src EXCEPT !.rev = src.rev + 1]
  BY <1>1, <1>2, BoundAssumption DEF UpdateSource, Event, Objects
<1>4. src' \in SourceObjects /\ src'.rev = src.rev + 1
  BY <1>1, <1>3, SourceUpdates, Zenon
<1>5. src'.fin = src.fin /\ src'.deleting = src.deleting
  BY <1>1, <1>3 DEF SourceObjects
<1> QED BY <1>1, <1>3, <1>4, <1>5

\* The flags, for the steps of others.
LEMMA OthersKeepFlags ==
  ASSUME Flags, OtherStep
  PROVE  Flags'
<1> USE DEF Flags, api, caches, worker, Step
<1>1. CASE CreateSource
  BY <1>1 DEF CreateSource
<1>2. CASE UpdateSource
  BY <1>2 DEF UpdateSource, Event, Live
<1>3. CASE ChangeClass
  BY <1>3 DEF ChangeClass, Event, Live
<1>4. CASE DeleteSource
  BY <1>4 DEF DeleteSource, Live
<1>5. CASE DeleteTarget
  BY <1>5 DEF DeleteTarget, Event, Live
<1>6. CASE ReportStatus
  BY <1>6 DEF ReportStatus, Live
<1>7. CASE LoseStatus
  BY <1>7 DEF LoseStatus, Event, Live
<1>8. CASE OtherSource
  BY <1>8 DEF OtherSource, Event
<1>9. CASE Restart
  BY <1>9 DEF Restart, Event, Delivered
<1>10. CASE RemoveTarget
  BY <1>10 DEF RemoveTarget
<1>11. CASE SyncSource
  BY <1>11 DEF SyncSource
<1>12. CASE SyncTarget
  BY <1>12 DEF SyncTarget
<1>13. CASE SyncReplica
  BY <1>13 DEF SyncReplica
<1>14. CASE Resync
  BY <1>14 DEF Resync
<1> QED
  BY <1>1, <1>2, <1>3, <1>4, <1>5, <1>6, <1>7, <1>8, <1>9, <1>10, <1>11, <1>12, <1>13, <1>14
     DEF OtherStep

\* The flags, for the steps of the worker.
LEMMA WorkerKeepsFlags ==
  ASSUME Flags, WorkerStep
  PROVE  Flags'
<1> USE DEF Flags, api, caches, worker, Step
<1>1. CASE Skip
  BY <1>1, Zenon DEF Skip, Started
<1>2. CASE Begin
  BY <1>2, Zenon DEF Begin, Started, Live
<1>3. CASE CleanupBegin
  BY <1>3, Zenon DEF CleanupBegin, Started
<1>4. CASE RemoveFinalizer
  BY <1>4, Zenon DEF RemoveFinalizer, WithoutFinalizer, Done, Retry
<1>5. CASE CreateLoadBalancer
  BY <1>5, Zenon DEF CreateLoadBalancer, Done, Retry
<1>6. CASE UpdateServiceStatus
  BY <1>6, Zenon DEF UpdateServiceStatus, NewStatus, Retry
<1>7. CASE UpdateLoadBalancer
  BY <1>7, Zenon DEF UpdateLoadBalancer, Done, Retry
<1>8. CASE cleanupService
  BY <1>8, Zenon DEF cleanupService, Goto
<1>9. CASE ReplicateServices
  BY <1>9, Zenon DEF ReplicateServices, Goto, Retry
<1>10. CASE CreateUpdateRoute
  BY <1>10, Zenon DEF CreateUpdateRoute, Goto, Retry
<1>11. CASE UpdateSourceStatus
  BY <1>11, Zenon DEF UpdateSourceStatus, NewStatus, Done, Retry
<1>12. CASE CleanupServices
  BY <1>12, Zenon DEF CleanupServices, Goto, Retry
<1>13. CASE cleanupRoute
  BY <1>13, Zenon DEF cleanupRoute, Goto, Retry, RouteDeleted
<1> QED
  BY <1>1, <1>2, <1>3, <1>4, <1>5, <1>6, <1>7, <1>8, <1>9, <1>10, <1>11, <1>12, <1>13
     DEF WorkerStep

\* Objects and caches, for the steps of others.
LEMMA OthersKeepObjects ==
  ASSUME Objects, OtherStep
  PROVE  Objects'
<1> USE DEF Objects, IsObject, api, caches, worker, Step
<1>1. CASE CreateSource
  BY <1>1, BoundAssumption DEF CreateSource, SourceObjects
<1>2. CASE UpdateSource
  BY <1>2, RevisionCounts DEF UpdateSource
<1>3. CASE ChangeClass
  <2>1. src' \in SourceObjects /\ src'.rev = src.rev
    BY <1>3, SourceUpdates, Zenon DEF ChangeClass, Live
  <2>2. events' \in 0..MaxEvents /\ src.rev <= events'
    BY <1>3, EventCounts DEF ChangeClass, Live
  <2> QED BY <1>3, <2>1, <2>2 DEF ChangeClass
<1>4. CASE DeleteSource
  BY <1>4, SourceUpdates, Markers, Zenon DEF DeleteSource, Live
<1>5. CASE DeleteTarget
  BY <1>5, EventCounts, TargetUpdates, Zenon DEF DeleteTarget, Live
<1>6. CASE ReportStatus
  BY <1>6, TargetUpdates, Markers, Zenon DEF ReportStatus, Live
<1>7. CASE LoseStatus
  BY <1>7, EventCounts, TargetUpdates, Zenon DEF LoseStatus, Live
<1>8. CASE OtherSource
  BY <1>8, EventCounts DEF OtherSource
<1>9. CASE Restart
  BY <1>9, EventCounts DEF Restart
<1>10. CASE RemoveTarget
  BY <1>10 DEF RemoveTarget
<1>11. CASE SyncSource
  BY <1>11 DEF SyncSource
<1>12. CASE SyncTarget
  BY <1>12 DEF SyncTarget
<1>13. CASE SyncReplica
  BY <1>13 DEF SyncReplica
<1>14. CASE Resync
  BY <1>14 DEF Resync
<1> QED
  BY <1>1, <1>2, <1>3, <1>4, <1>5, <1>6, <1>7, <1>8, <1>9, <1>10, <1>11, <1>12, <1>13,
     <1>14, Zenon
     DEF OtherStep

\* Objects and caches, for the steps of the worker.
LEMMA WorkerKeepsObjects ==
  ASSUME Objects, WorkerTypes, Flags, WorkerStep
  PROVE  Objects'
<1> USE DEF Objects, WorkerTypes, Flags, IsObject, api, caches, worker, Step
<1>1. CASE Skip
  BY <1>1 DEF Skip, Started
<1>2. CASE Begin
  BY <1>2, SourceUpdates, Markers, ZenonT(30) DEF Begin, Started, Live
<1>3. CASE CleanupBegin
  BY <1>3, Zenon DEF CleanupBegin, Started
<1>4. CASE RemoveFinalizer
  <2>1. obj \in SourceObjects
    BY <1>4 DEF RemoveFinalizer
  <2>2. [obj EXCEPT !.fin = FALSE] \in SourceObjects /\ [obj EXCEPT !.fin = FALSE].rev = obj.rev
    BY <2>1, SourceUpdates, Zenon
  <2>3. CASE src = obj
    BY <1>4, <2>1, <2>2, <2>3, Markers, Zenon DEF RemoveFinalizer, WithoutFinalizer
  <2>4. CASE src # obj
    BY <1>4, <2>4 DEF RemoveFinalizer
  <2> QED BY <2>3, <2>4, Zenon
<1>5. CASE CreateLoadBalancer
  BY <1>5, NewTarget, Zenon DEF CreateLoadBalancer, Done, Retry
<1>6. CASE UpdateServiceStatus
  <2>1. CASE src' = src
    BY <1>6, <2>1 DEF UpdateServiceStatus
  <2>2. CASE src' # src
    <3>1. src \in SourceObjects /\ src' = [src EXCEPT !.status = NewStatus(src, cTgt)]
      BY <1>6, <2>2 DEF UpdateServiceStatus, Retry
    <3>2. NewStatus(src, cTgt) \in BOOLEAN
      BY Zenon DEF NewStatus
    <3>3. src' \in SourceObjects /\ src'.rev = src.rev
      BY <3>1, <3>2, SourceUpdates, Zenon
    <3> QED BY <1>6, <3>1, <3>3, Markers DEF UpdateServiceStatus
  <2> QED BY <2>1, <2>2, Zenon
<1>7. CASE UpdateLoadBalancer
  <2>1. CASE tgt' = tgt
    BY <1>7, <2>1 DEF UpdateLoadBalancer
  <2>2. CASE tgt' # tgt
    <3>1. tgt \in TargetObjects /\ obj.rev \in 0..MaxEvents /\ tgt' = [tgt EXCEPT !.rev = obj.rev]
      BY <1>7, <2>2, SourceUpdates, Zenon DEF UpdateLoadBalancer
    <3>2. tgt' \in TargetObjects
      BY <3>1, TargetUpdates, Zenon
    <3> QED BY <1>7, <3>2 DEF UpdateLoadBalancer
  <2> QED BY <2>1, <2>2, Zenon
<1>8. CASE cleanupService
  BY <1>8, TargetUpdates, Zenon DEF cleanupService, Goto
<1>9. CASE ReplicateServices
  BY <1>9 DEF ReplicateServices, Goto, Retry
<1>10. CASE CreateUpdateRoute
  <2>1. CASE tgt' = tgt
    BY <1>10, <2>1 DEF CreateUpdateRoute
  <2>2. CASE tgt' # tgt
    <3> DEFINE new == GenerateRoute
    <3>1. obj \in SourceObjects /\ (UsesServices => cReplica) \in BOOLEAN
      BY <1>10 DEF CreateUpdateRoute
    <3>2. new \in TargetObjects
      BY <3>1, NewTarget, Zenon DEF GenerateRoute
    <3>3. new.rev \in 0..MaxEvents /\ new.ready \in BOOLEAN
      BY <3>2, Zenon DEF TargetObjects
    <3>4. \/ tgt' = new
          \/ /\ tgt \in TargetObjects
             /\ tgt' = [tgt EXCEPT !.rev = new.rev, !.ready = new.ready]
      BY <1>10, <2>2 DEF CreateUpdateRoute
    <3> HIDE DEF new
    <3>5. tgt' \in TargetObjects
      BY <3>2, <3>3, <3>4, Zenon DEF TargetObjects
    <3> QED BY <1>10, <3>5 DEF CreateUpdateRoute
  <2> QED BY <2>1, <2>2, Zenon
<1>11. CASE UpdateSourceStatus
  <2>1. CASE src' = src
    BY <1>11, <2>1 DEF UpdateSourceStatus
  <2>2. CASE src' # src
    <3>1. src \in SourceObjects /\ src' = [src EXCEPT !.status = NewStatus(cSrc, cTgt)]
      BY <1>11, <2>2 DEF UpdateSourceStatus
    <3>2. NewStatus(cSrc, cTgt) \in BOOLEAN
      BY Zenon DEF NewStatus
    <3>3. src' \in SourceObjects /\ src'.rev = src.rev
      BY <3>1, <3>2, SourceUpdates, Zenon
    <3> QED BY <1>11, <3>1, <3>3, Markers DEF UpdateSourceStatus
  <2> QED BY <2>1, <2>2, Zenon
<1>12. CASE CleanupServices
  BY <1>12, Zenon DEF CleanupServices, Goto, Retry
<1>13. CASE cleanupRoute
  BY <1>13, TargetUpdates, Zenon DEF cleanupRoute, Goto, Retry, RouteDeleted
<1> QED
  BY <1>1, <1>2, <1>3, <1>4, <1>5, <1>6, <1>7, <1>8, <1>9, <1>10, <1>11, <1>12, <1>13, Zenon
     DEF WorkerStep

\* The worker, for the steps of others.
LEMMA OthersKeepWorker ==
  ASSUME WorkerTypes, OtherStep
  PROVE  WorkerTypes'
<1> USE DEF WorkerTypes, api, caches, worker, Step
<1>1. CASE CreateSource
  BY <1>1, Zenon DEF CreateSource
<1>2. CASE UpdateSource
  BY <1>2, Zenon DEF UpdateSource, Event, Live
<1>3. CASE ChangeClass
  BY <1>3, Zenon DEF ChangeClass, Event, Live
<1>4. CASE DeleteSource
  BY <1>4, Zenon DEF DeleteSource, Live
<1>5. CASE DeleteTarget
  BY <1>5, Zenon DEF DeleteTarget, Event, Live
<1>6. CASE ReportStatus
  BY <1>6, Zenon DEF ReportStatus, Live
<1>7. CASE LoseStatus
  BY <1>7, Zenon DEF LoseStatus, Event, Live
<1>8. CASE OtherSource
  BY <1>8, Zenon DEF OtherSource, Event
<1>9. CASE Restart
  BY <1>9, Zenon DEF Restart, Event, Delivered
<1>10. CASE RemoveTarget
  BY <1>10, Zenon DEF RemoveTarget
<1>11. CASE SyncSource
  BY <1>11, Zenon DEF SyncSource
<1>12. CASE SyncTarget
  BY <1>12, Zenon DEF SyncTarget
<1>13. CASE SyncReplica
  BY <1>13, Zenon DEF SyncReplica
<1>14. CASE Resync
  BY <1>14, Zenon DEF Resync
<1> QED
  BY <1>1, <1>2, <1>3, <1>4, <1>5, <1>6, <1>7, <1>8, <1>9, <1>10, <1>11, <1>12, <1>13,
     <1>14, Zenon
     DEF OtherStep

\* The worker, for its own steps.
LEMMA WorkerKeepsWorker ==
  ASSUME Objects, WorkerTypes, WorkerStep
  PROVE  WorkerTypes'
<1> USE DEF Objects, WorkerTypes, IsObject, api, caches, worker, Step
<1>1. CASE Skip
  BY <1>1 DEF Skip, Started
<1>2. CASE Begin
  BY <1>2, SourceUpdates, Zenon DEF Begin, Started, Live
<1>3. CASE CleanupBegin
  BY <1>3, Zenon DEF CleanupBegin, Started
<1>4. CASE RemoveFinalizer
  BY <1>4, Zenon DEF RemoveFinalizer, WithoutFinalizer, Done, Retry
<1>5. CASE CreateLoadBalancer
  BY <1>5, Zenon DEF CreateLoadBalancer, Done, Retry
<1>6. CASE UpdateServiceStatus
  BY <1>6, Markers, Zenon DEF UpdateServiceStatus, NewStatus, Retry
<1>7. CASE UpdateLoadBalancer
  BY <1>7, Zenon DEF UpdateLoadBalancer, Done, Retry
<1>8. CASE cleanupService
  BY <1>8, Zenon DEF cleanupService, Goto
<1>9. CASE ReplicateServices
  BY <1>9, Zenon DEF ReplicateServices, Goto, Retry
<1>10. CASE CreateUpdateRoute
  BY <1>10, Zenon DEF CreateUpdateRoute, Goto, Retry
<1>11. CASE UpdateSourceStatus
  BY <1>11, Zenon DEF UpdateSourceStatus, NewStatus, Done, Retry
<1>12. CASE CleanupServices
  BY <1>12, Zenon DEF CleanupServices, Goto, Retry
<1>13. CASE cleanupRoute
  BY <1>13, Zenon DEF cleanupRoute, Goto, Retry, RouteDeleted
<1> QED
  BY <1>1, <1>2, <1>3, <1>4, <1>5, <1>6, <1>7, <1>8, <1>9, <1>10, <1>11, <1>12, <1>13, Zenon
     DEF WorkerStep

\* Sources and their targets, for the steps of others.
LEMMA OthersKeepSources ==
  ASSUME CCMInv, OtherStep
  PROVE  CacheFollows' /\ WorkerFollows' /\ NoOrphanTarget'
<1> USE DEF CCMInv, CacheFollows, WorkerFollows, NoOrphanTarget, Creating, Cleaning,
            CCMTypes, Objects, WorkerTypes, SourceObjects, TargetObjects, IsObject, Live,
            api, caches, worker, Step
<1>1. CASE CreateSource
  BY <1>1, Markers, Zenon DEF CreateSource
<1>2. CASE UpdateSource
  <2>1. /\ src \in SourceObjects /\ src' \in SourceObjects
        /\ src'.fin = src.fin /\ src'.deleting = src.deleting
    BY <1>2, RevisionCounts, Zenon
  <2>2. UNCHANGED <<kind, tgt, cSrc, pc, obj, unseen>>
    BY <1>2, Zenon DEF UpdateSource
  <2> HIDE DEF SourceObjects, TargetObjects
  <2> QED BY <2>1, <2>2, Markers, Zenon
<1>3. CASE ChangeClass
  BY <1>3, Markers, Zenon DEF ChangeClass, Event, Live
<1>4. CASE DeleteSource
  BY <1>4, Markers, Zenon DEF DeleteSource, Live
<1>5. CASE DeleteTarget
  BY <1>5, Markers, Zenon DEF DeleteTarget, Event, Live
<1>6. CASE ReportStatus
  BY <1>6, Markers, Zenon DEF ReportStatus, Live
<1>7. CASE LoseStatus
  BY <1>7, Markers, Zenon DEF LoseStatus, Event, Live
<1>8. CASE OtherSource
  BY <1>8, Markers, Zenon DEF OtherSource, Event
<1>9. CASE Restart
  BY <1>9, Markers, Zenon DEF Restart, Event, Delivered
<1>10. CASE RemoveTarget
  BY <1>10, Markers, Zenon DEF RemoveTarget
<1>11. CASE SyncSource
  BY <1>11, Markers, Zenon DEF SyncSource
<1>12. CASE SyncTarget
  BY <1>12, Markers, Zenon DEF SyncTarget
<1>13. CASE SyncReplica
  BY <1>13, Markers, Zenon DEF SyncReplica
<1>14. CASE Resync
  BY <1>14, Markers, ZenonT(30) DEF Resync
<1> QED
  BY <1>1, <1>2, <1>3, <1>4, <1>5, <1>6, <1>7, <1>8, <1>9, <1>10, <1>11, <1>12, <1>13,
     <1>14, Zenon
     DEF OtherStep

\* Sources and their targets, for the steps of the worker.
LEMMA WorkerKeepsSources ==
  ASSUME CCMInv, WorkerStep
  PROVE  CacheFollows' /\ WorkerFollows' /\ NoOrphanTarget'
<1> USE DEF CCMInv, CacheFollows, WorkerFollows, NoOrphanTarget, Creating, Cleaning,
            CCMTypes, Objects, WorkerTypes, SourceObjects, TargetObjects, IsObject, Live,
            api, caches, worker, Step
<1>1. CASE Skip
  BY <1>1, Markers DEF Skip, Started
<1>2. CASE Begin
  BY <1>2, Markers, Zenon DEF Begin, Started, Live
<1>3. CASE CleanupBegin
  BY <1>3, Markers, Zenon DEF CleanupBegin, Started
<1>4. CASE RemoveFinalizer
  <2>1. CASE src = obj
    <3>1. ~Live(tgt) \/ (unseen /\ kind # "Service")
      BY <1>4 DEF RemoveFinalizer
    <3>2. src' = Gone /\ UNCHANGED <<cSrc, tgt, unseen, kind>> /\ pc' = "idle"
      BY <1>4, <2>1 DEF RemoveFinalizer, WithoutFinalizer, Done
    <3>3. IsObject(cSrc) => cSrc.deleting
      BY <1>4 DEF RemoveFinalizer
    <3> QED BY <3>1, <3>2, <3>3, Markers, Zenon
  <2>2. CASE src # obj
    BY <1>4, <2>2 DEF RemoveFinalizer, Retry
  <2> QED BY <2>1, <2>2, Zenon
<1>5. CASE CreateLoadBalancer
  BY <1>5, Markers, Zenon DEF CreateLoadBalancer, New, Done, Retry
<1>6. CASE UpdateServiceStatus
  BY <1>6, Markers, ZenonT(30) DEF UpdateServiceStatus, NewStatus, Retry
<1>7. CASE UpdateLoadBalancer
  BY <1>7, Markers, Zenon DEF UpdateLoadBalancer, Done, Retry
<1>8. CASE cleanupService
  BY <1>8, Markers, Zenon DEF cleanupService, Goto
<1>9. CASE ReplicateServices
  BY <1>9, Markers, Zenon DEF ReplicateServices, Goto, Retry
<1>10. CASE CreateUpdateRoute
  BY <1>10, Markers, Zenon DEF CreateUpdateRoute, GenerateRoute, New, Goto, Retry
<1>11. CASE UpdateSourceStatus
  BY <1>11, Markers, ZenonT(30) DEF UpdateSourceStatus, NewStatus, Done, Retry
<1>12. CASE CleanupServices
  BY <1>12, Markers, Zenon DEF CleanupServices, Goto, Retry
<1>13. CASE kind # "Service" /\ cleanupRoute
  <2>1. CASE cTgt = Absent
    BY <1>13, <2>1, Markers, Zenon DEF cleanupRoute, Goto
  <2>2. CASE cTgt # Absent /\ tgt = Absent
    BY <1>13, <2>2, Markers, Zenon DEF cleanupRoute, Retry
  <2>3. CASE cTgt # Absent /\ tgt # Absent
    BY <1>13, <2>3, Markers, Zenon DEF cleanupRoute, Goto, RouteDeleted
  <2> QED BY <2>1, <2>2, <2>3, Zenon
<1> QED
  BY <1>1, <1>2, <1>3, <1>4, <1>5, <1>6, <1>7, <1>8, <1>9, <1>10, <1>11, <1>12, <1>13, Zenon
     DEF WorkerStep

\* A controller takes one of the worker's steps.
LEMMA WorkerSteps ==
  ASSUME Reconcile
  PROVE  WorkerStep
<1>1. CASE KubeLBServiceReconciler
  BY <1>1 DEF WorkerStep, KubeLBServiceReconciler
<1>2. CASE GatewayReconciler
  BY <1>2 DEF WorkerStep, GatewayReconciler
<1>3. CASE kind # "Service" /\ RouteWithServices
  BY <1>3 DEF WorkerStep, RouteWithServices
<1> QED BY <1>1, <1>2, <1>3 DEF Reconcile, IngressReconciler, HTTPRouteReconciler,
                                GRPCRouteReconciler

\* Every step keeps the invariant.
LEMMA CCMStep ==
  ASSUME CCMInv, [Next]_vars
  PROVE  CCMInv'
<1>1. CASE UNCHANGED vars
  <2>1. Flags'
    BY <1>1 DEF vars, api, caches, CCMInv, CCMTypes, Flags
  <2>2. Objects'
    BY <1>1 DEF vars, api, caches, CCMInv, CCMTypes, Objects, IsObject
  <2>3. WorkerTypes'
    BY <1>1, Zenon DEF vars, worker, CCMInv, CCMTypes, WorkerTypes
  <2>4. CacheFollows' /\ WorkerFollows' /\ NoOrphanTarget'
    BY <1>1, Zenon DEF vars, api, caches, worker, CCMInv, CacheFollows, WorkerFollows,
                NoOrphanTarget, Creating, Cleaning, IsObject, Live
  <2> QED BY <2>1, <2>2, <2>3, <2>4 DEF CCMInv, CCMTypes
<1>2. CASE Environment \/ RemoveTarget \/ Informers
  BY <1>2, OthersKeepFlags, OthersKeepObjects, OthersKeepWorker, OthersKeepSources
     DEF Environment, Informers, OtherStep, CCMInv, CCMTypes
<1>3. CASE Reconcile
  <2>1. Flags'
    BY <1>3, WorkerSteps, WorkerKeepsFlags DEF CCMInv, CCMTypes
  <2>2. Objects'
    BY <1>3, WorkerSteps, WorkerKeepsObjects DEF CCMInv, CCMTypes
  <2>3. WorkerTypes'
    BY <1>3, WorkerSteps, WorkerKeepsWorker DEF CCMInv, CCMTypes
  <2>4. CacheFollows' /\ WorkerFollows' /\ NoOrphanTarget'
    BY <1>3, WorkerSteps, WorkerKeepsSources
  <2> QED BY <2>1, <2>2, <2>3, <2>4 DEF CCMInv, CCMTypes
<1> QED BY <1>1, <1>2, <1>3 DEF Next

\* The invariant holds throughout.
LEMMA CCMInvariant == Spec => []CCMInv
<1>1. Init => CCMInv
  <2> SUFFICES ASSUME Init PROVE CCMInv
    OBVIOUS
  <2>1. Flags
    BY Zenon DEF Init, Flags
  <2>2. Objects /\ WorkerTypes
    BY BoundAssumption DEF Init, Objects, WorkerTypes, IsObject
  <2>3. CacheFollows /\ WorkerFollows /\ NoOrphanTarget
    BY DEF Init, CacheFollows, WorkerFollows, NoOrphanTarget, Creating, Cleaning, IsObject, Live
  <2> QED BY <2>1, <2>2, <2>3 DEF CCMInv, CCMTypes
<1> QED BY <1>1, CCMStep, PTL DEF Spec

\* Types of the CCM's objects, caches and worker, for any number of events.
THEOREM CCMTypesHold == Spec => []TypeOK
<1>1. CCMInv => TypeOK
  BY Zenon DEF CCMInv, CCMTypes, Flags, Objects, WorkerTypes, TypeOK
<1> QED BY <1>1, CCMInvariant, PTL

\* No LoadBalancer or Route of the CCM is left without a source that will clean it
\* up, for every kind of source, any number of changes and restarts; the exception
\* is a Route its cleanup did not see in the cache.
THEOREM TargetsAreOwned == Spec => []NoOrphanTarget
<1>1. CCMInv => NoOrphanTarget
  BY DEF CCMInv
<1> QED BY <1>1, CCMInvariant, PTL

-----------------------------------------------------------------------------
(* Induction over the indices of a list.  The induction rules of the       *)
(* library have a predicate as a parameter; these have a set instead.      *)

\* A set of numbers that is not empty has a least element.
LEMMA Least ==
  ASSUME NEW T \in SUBSET Nat, T # {}
  PROVE \E n \in T : \A m \in T : n <= m
<1> DEFINE R == OpToRel(<, Nat)
<1>1. IsWellFoundedOn(R, Nat)
  BY NatLessThanWellFounded, Zenon
<1>2. \A x, y \in Nat : x < y => <<x, y>> \in R
  BY DEF OpToRel
<1> HIDE DEF R
<1>3. PICK x \in T : \A y \in T : ~ (<<y, x>> \in R)
  BY <1>1, WFMin, Zenon
<1>4. \A y \in T : x <= y
  <2> TAKE y \in T
  <2>1. x \in Nat /\ y \in Nat /\ ~ (y < x)
    BY <1>2, <1>3, Zenon
  <2> QED BY <2>1
<1> QED BY <1>4

\* A set of numbers with 0 and the successors of its elements has all numbers.
LEMMA NatSetInduction ==
  ASSUME NEW T \in SUBSET Nat, 0 \in T, \A n \in T : n + 1 \in T
  PROVE T = Nat
<1> SUFFICES ASSUME Nat \ T # {} PROVE FALSE
  BY Zenon
<1>1. PICK n \in Nat \ T : \A m \in Nat \ T : n <= m
  BY Least, Zenon
<1>2. n # 0 /\ n - 1 \in Nat /\ n - 1 \in T
  BY <1>1
<1> QED BY <1>1, <1>2

\* The same, up to a bound.
LEMMA UpTo ==
  ASSUME NEW n \in Nat, NEW T, 0 \in T, \A i \in 1..n : i - 1 \in T => i \in T
  PROVE  0..n \subseteq T
<1> DEFINE U == {i \in Nat : i \in 0..n => i \in T}
<1>1. 0 \in U
  OBVIOUS
<1>2. ASSUME NEW i \in U PROVE i + 1 \in U
  <2> SUFFICES ASSUME i + 1 \in 0..n PROVE i + 1 \in T
    OBVIOUS
  <2>1. i \in 0..n /\ i + 1 \in 1..n /\ (i + 1) - 1 = i
    OBVIOUS
  <2> QED BY <2>1
<1> HIDE DEF U
<1>3. U = Nat
  <2>1. U \in SUBSET Nat
    BY DEF U
  <2> QED BY <1>1, <1>2, <2>1, NatSetInduction
<1> QED BY <1>3 DEF U

\* A loop of n steps over values in X: where it starts, and what step i makes of a value.
Steps(n, X) == [X \X (1..n) -> X]
IsLoop(f, n, X, b, G) ==
  f \in [0..n -> X] /\ f[0] = b /\ \A i \in 1..n : f[i] = G[<<f[i-1], i>>]
\* Every loop has the values it goes through.
LEMMA LoopExists ==
  ASSUME NEW n \in Nat, NEW X, NEW b \in X, NEW G \in Steps(n, X)
  PROVE  \E f : IsLoop(f, n, X, b, G)
<1> USE DEF Steps, IsLoop
<1> DEFINE Runs(f, m) == f[0] = b /\ \A i \in 1..m : f[i] = G[<<f[i-1], i>>]
           T == {m \in Nat : m <= n => \E f \in [0..m -> X] : Runs(f, m)}
<1>1. 0 \in T
  <2> DEFINE g == [i \in 0..0 |-> b]
  <2>1. g \in [0..0 -> X] /\ Runs(g, 0)
    OBVIOUS
  <2> HIDE DEF g, Runs
  <2> QED BY <2>1
<1>2. ASSUME NEW m \in T PROVE m + 1 \in T
  <2> SUFFICES ASSUME m + 1 <= n PROVE \E f \in [0..(m+1) -> X] : Runs(f, m + 1)
    OBVIOUS
  <2>1. m \in Nat
    OBVIOUS
  <2>2. PICK f \in [0..m -> X] : Runs(f, m)
    BY <2>1
  <2> DEFINE g == [i \in 0..(m+1) |-> IF i = m + 1 THEN G[<<f[m], m + 1>>] ELSE f[i]]
  <2>3. g \in [0..(m+1) -> X]
    BY <2>1
  <2>4. \A i \in 0..m : g[i] = f[i]
    BY <2>1
  <2>5. g[m + 1] = G[<<g[m], m + 1>>]
    <3>1. g[m + 1] = G[<<f[m], m + 1>>] /\ m \in 0..m
      BY <2>1
    <3> HIDE DEF g
    <3> QED BY <2>4, <3>1, Zenon
  <2> HIDE DEF g
  <2>6. ASSUME NEW i \in 1..(m + 1) PROVE g[i] = G[<<g[i-1], i>>]
    <3>1. CASE i = m + 1
      BY <2>1, <2>5, <3>1
    <3>2. CASE i \in 1..m
      <4>1. i \in 0..m /\ i - 1 \in 0..m
        BY <2>1, <3>2
      <4> QED BY <2>2, <2>4, <3>2, <4>1
    <3> QED BY <2>1, <3>1, <3>2
  <2>7. Runs(g, m + 1)
    BY <2>1, <2>2, <2>4, <2>6
  <2> QED BY <2>3, <2>7, Zenon
<1> HIDE DEF T
<1>3. T = Nat
  <2>1. T \in SUBSET Nat
    BY DEF T
  <2> QED BY <1>1, <1>2, <2>1, NatSetInduction
<1>4. n \in T
  BY <1>3
<1> QED BY <1>4 DEF T

-----------------------------------------------------------------------------
(* RouteReferences.  Every reference of an object that is rewritten names   *)
(* the copy of its Service, for all objects, however long their lists are.  *)
(* The operators of the model are loops over lists: each is first shown to  *)
(* have the values its definition asks for, and then what it collects is    *)
(* found by induction over its steps.                                       *)

\* f is what Keep has after each element of s.
KeepLoop(s, S, f) ==
  /\ Keep(s, S) = f[Len(s)] /\ f[0] = <<>>
  /\ \A i \in 1..Len(s) : f[i] = IF s[i] \in S THEN Append(f[i-1], s[i]) ELSE f[i-1]

\* Keep goes through the values of its definition.
LEMMA KeepRuns ==
  ASSUME NEW s, s \in Seq(Range(s)), NEW S
  PROVE  \E f : KeepLoop(s, S, f)
<1> USE DEF KeepLoop
<1> DEFINE n == Len(s)
           X == Seq(Range(s))
           G == [p \in X \X (1..n) |->
                   IF s[p[2]] \in S THEN Append(p[1], s[p[2]]) ELSE p[1]]
           Body(f, i) == IF i = 0 THEN <<>>
                         ELSE IF s[i] \in S THEN Append(f[i-1], s[i]) ELSE f[i-1]
           Loop(f) == f = [i \in 0..n |-> Body(f, i)]
           F == CHOOSE f : Loop(f)
<1>1. n \in Nat /\ <<>> \in X /\ \A i \in 1..n : s[i] \in Range(s)
  BY DEF Range
<1>2. ASSUME NEW x \in X, NEW i \in 1..n
      PROVE  (IF s[i] \in S THEN Append(x, s[i]) ELSE x) \in X
  BY <1>1, <1>2
<1>3. G \in Steps(n, X)
  <2> HIDE DEF X, n
  <2> QED BY <1>2 DEF Steps
<1>4. PICK f \in [0..n -> X] : f[0] = <<>> /\ \A i \in 1..n : f[i] = G[<<f[i-1], i>>]
  <2>1. PICK b : b = <<>>
    OBVIOUS
  <2> HIDE DEF X, n, G
  <2>2. n \in Nat /\ b \in X
    BY <1>1, <2>1
  <2>3. \E f : IsLoop(f, n, X, b, G)
    BY <1>3, <2>2, LoopExists
  <2> QED BY <2>1, <2>3, Zenon DEF IsLoop
<1>5. ASSUME NEW i \in 1..n
      PROVE  f[i] = IF s[i] \in S THEN Append(f[i-1], s[i]) ELSE f[i-1]
  <2> HIDE DEF X, n
  <2>1. f[i-1] \in X
    BY <1>1, <1>4
  <2> QED BY <1>4, <2>1, Zenon
<1>6. Loop(f)
  <2>1. ASSUME NEW i \in 0..n PROVE f[i] = Body(f, i)
    <3>1. i = 0 \/ i \in 1..n
      BY <1>1
    <3> HIDE DEF X, n, G
    <3> QED BY <1>1, <1>4, <1>5, <3>1, Zenon
  <2> HIDE DEF X, n, G, Body
  <2> QED BY <1>4, <2>1
<1>7. Loop(F)
  BY <1>6, Zenon
<1>8. Keep(s, S) = F[n]
  BY DEF Keep
<1> HIDE DEF F
<1>9. F[0] = <<>> /\ \A i \in 1..n : F[i] = IF s[i] \in S THEN Append(F[i-1], s[i]) ELSE F[i-1]
  <2>1. \A i \in 0..n : F[i] = Body(F, i)
    <3> HIDE DEF n, Body
    <3> QED BY <1>7, Zenon
  <2>2. 0 \in 0..n /\ \A i \in 1..n : i \in 0..n /\ i # 0
    BY <1>1
  <2> HIDE DEF n
  <2> QED BY <2>1, <2>2
<1> QED BY <1>8, <1>9

\* What a list holds after one more element is appended.
LEMMA RangeAppend ==
  ASSUME NEW A, NEW t \in Seq(A), NEW x \in A
  PROVE  /\ Append(t, x) \in Seq(A) /\ Range(Append(t, x)) = Range(t) \cup {x}
<1>1. Append(t, x) \in Seq(A)
  OBVIOUS
<1>2. /\ DOMAIN Append(t, x) = 1..(Len(t) + 1) /\ DOMAIN t = 1..Len(t) /\ Len(t) \in Nat
      /\ Append(t, x)[Len(t) + 1] = x /\ \A i \in 1..Len(t) : Append(t, x)[i] = t[i]
  OBVIOUS
<1>3. \A i \in 1..(Len(t) + 1) : i \in 1..Len(t) \/ i = Len(t) + 1
  BY <1>2
<1> QED BY <1>1, <1>2, <1>3 DEF Range

\* What two lists hold together.
LEMMA RangeConcat ==
  ASSUME NEW A, NEW t \in Seq(A), NEW u \in Seq(A)
  PROVE  /\ t \o u \in Seq(A) /\ Range(t \o u) = Range(t) \cup Range(u)
<1> DEFINE m == Len(t)
           n == Len(u)
<1>1. t \o u \in Seq(A) /\ m \in Nat /\ n \in Nat
  OBVIOUS
<1>2. /\ DOMAIN (t \o u) = 1..(m + n) /\ DOMAIN t = 1..m /\ DOMAIN u = 1..n
      /\ \A i \in 1..m : (t \o u)[i] = t[i]
      /\ \A i \in 1..n : (t \o u)[m + i] = u[i]
  OBVIOUS
<1>3. \A i \in 1..(m + n) : i \in 1..m \/ (i - m \in 1..n /\ i = m + (i - m))
  BY <1>1
<1>4. (\A i \in 1..m : i \in 1..(m + n)) /\ (\A i \in 1..n : m + i \in 1..(m + n))
  BY <1>1
<1> HIDE DEF m, n
<1>5. PICK w : w = t \o u
  BY Zenon
<1>6. Range(w) \subseteq Range(t) \cup Range(u)
  <2> SUFFICES ASSUME NEW i \in 1..(m + n) PROVE w[i] \in Range(t) \cup Range(u)
    BY <1>2, <1>5, Zenon DEF Range
  <2>1. CASE i \in 1..m
    BY <1>2, <1>5, <2>1, Zenon DEF Range
  <2>2. CASE i - m \in 1..n /\ i = m + (i - m)
    BY <1>2, <1>5, <2>2, Zenon DEF Range
  <2> QED BY <1>3, <2>1, <2>2
<1>7. Range(t) \cup Range(u) \subseteq Range(w)
  BY <1>2, <1>4, <1>5, ZenonT(30) DEF Range
<1> QED BY <1>1, <1>5, <1>6, <1>7

\* Keep(s, S) holds the elements of s that are in S.
LEMMA KeepRange ==
  ASSUME NEW s, s \in Seq(Range(s)), NEW S
  PROVE  Keep(s, S) \in Seq(Range(s) \cap S) /\ Range(Keep(s, S)) = Range(s) \cap S
<1> DEFINE A == Range(s) \cap S
           n == Len(s)
<1>1. PICK f : KeepLoop(s, S, f)
  BY KeepRuns, Zenon
<1> DEFINE Seen(i) == {s[k] : k \in 1..i}
           T == {i \in 0..n : f[i] \in Seq(A) /\ Range(f[i]) = Seen(i) \cap S}
<1>2. n \in Nat /\ DOMAIN s = 1..n
  OBVIOUS
<1>3. 0 \in T
  <2>1. Range(<<>>) = {} /\ Seen(0) = {} /\ <<>> \in Seq(A)
    BY DEF Range
  <2>2. 0 \in 0..n
    BY <1>2
  <2> HIDE DEF A, n, Seen
  <2>3. f[0] \in Seq(A) /\ Range(f[0]) = Seen(0) \cap S
    BY <1>1, <2>1 DEF KeepLoop
  <2> QED BY <2>2, <2>3
<1>4. ASSUME NEW i \in 1..n, i - 1 \in T PROVE i \in T
  <2>1. Seen(i) = Seen(i-1) \cup {s[i]} /\ i \in 0..n /\ s[i] \in Range(s)
    <3>1. \A k \in Int : k \in 1..i <=> k \in 1..(i-1) \/ k = i
      BY <1>2
    <3> QED BY <1>2, <3>1 DEF Range
  <2>2. f[i-1] \in Seq(A) /\ Range(f[i-1]) = Seen(i-1) \cap S
    BY <1>4
  <2>3. f[i] = IF s[i] \in S THEN Append(f[i-1], s[i]) ELSE f[i-1]
    BY <1>1 DEF KeepLoop
  <2>4. CASE s[i] \in S
    <3>1. s[i] \in A
      BY <2>1, <2>4
    <3> HIDE DEF A, Seen
    <3>2. f[i] \in Seq(A) /\ Range(f[i]) = (Seen(i-1) \cap S) \cup {s[i]}
      BY <2>2, <2>3, <2>4, <3>1, RangeAppend
    <3> QED BY <2>1, <2>4, <3>2
  <2>5. CASE s[i] \notin S
    <3> HIDE DEF A, Seen
    <3> QED BY <2>1, <2>2, <2>3, <2>5
  <2> QED BY <2>4, <2>5
<1>5. n \in T
  <2> HIDE DEF T, n
  <2>1. 0..n \subseteq T
    BY <1>2, <1>3, <1>4, UpTo, Zenon
  <2> QED BY <1>2, <2>1
<1>6. Seen(n) = Range(s)
  BY <1>2 DEF Range
<1>7. Keep(s, S) = f[n]
  BY <1>1 DEF KeepLoop
<1> QED BY <1>5, <1>6, <1>7

\* A list of elements of A is one of elements of a larger set.
LEMMA SeqMono ==
  ASSUME NEW A, NEW B, A \subseteq B, NEW s \in Seq(A)
  PROVE  s \in Seq(B)
OBVIOUS

\* A list is a list of what it holds.
LEMMA SeqRange ==
  ASSUME NEW A, NEW s \in Seq(A)
  PROVE  s \in Seq(Range(s)) /\ DOMAIN s = 1..Len(s) /\ Len(s) \in Nat /\ Range(s) \subseteq A
BY DEF Range

\* References of request mirrors among filters, and all references of an object.
FilterRefs(fs) == Range(fs) \ {OtherFilter}

RefSet(o) ==
  FilterRefs(o.mirrors) \cup {b.ref : b \in Range(o.backends)}
    \cup UNION {FilterRefs(b.mirrors) : b \in Range(o.backends)}

\* Mirrors lists the request mirrors.
LEMMA MirrorsRange ==
  ASSUME NEW fs, fs \in Seq(Range(fs))
  PROVE  Mirrors(fs) \in Seq(FilterRefs(fs)) /\ Range(Mirrors(fs)) = FilterRefs(fs)
<1>1. PICK S : S = FilterRefs(fs)
  OBVIOUS
<1>2. Range(fs) \cap S = S /\ Mirrors(fs) = Keep(fs, S)
  BY <1>1 DEF FilterRefs, Mirrors
<1>3. Keep(fs, S) \in Seq(Range(fs) \cap S) /\ Range(Keep(fs, S)) = Range(fs) \cap S
  BY KeepRange, Zenon
<1> QED BY <1>1, <1>2, <1>3

\* One step of References: the reference of a backend and those of its filters.
LEMMA BackendRefs ==
  ASSUME NEW o \in RouteObjects, NEW j \in 1..Len(o.backends), NEW A,
         NEW x \in Seq(A), RefSet(o) \subseteq A
  PROVE  /\ Append(x, o.backends[j].ref) \o Mirrors(o.backends[j].mirrors) \in Seq(A)
         /\ Range(Append(x, o.backends[j].ref) \o Mirrors(o.backends[j].mirrors))
              = Range(x) \cup {o.backends[j].ref} \cup FilterRefs(o.backends[j].mirrors)
<1>1. PICK b : b = o.backends[j]
  OBVIOUS
<1>2. b \in Range(o.backends) /\ b.mirrors \in Seq(Range(b.mirrors))
  <2>1. o.backends \in Seq(Range(o.backends))
    BY ObjectsAssumption
  <2>2. DOMAIN o.backends = 1..Len(o.backends)
    BY <2>1, SeqRange
  <2>3. b \in Range(o.backends)
    BY <1>1, <2>2, Zenon DEF Range
  <2> QED BY <2>3, ObjectsAssumption
<1>3. b.ref \in A /\ FilterRefs(b.mirrors) \subseteq A
  BY <1>2 DEF RefSet
<1>4. Mirrors(b.mirrors) \in Seq(A) /\ Range(Mirrors(b.mirrors)) = FilterRefs(b.mirrors)
  BY <1>2, <1>3, MirrorsRange, SeqMono
<1>5. PICK y : y = Append(x, b.ref)
  BY Zenon
<1>6. y \in Seq(A) /\ Range(y) = Range(x) \cup {b.ref}
  BY <1>3, <1>5, RangeAppend
<1>7. PICK z : z = Mirrors(b.mirrors)
  OBVIOUS
<1>8. y \o z \in Seq(A) /\ Range(y \o z) = Range(y) \cup Range(z)
  BY <1>4, <1>6, <1>7, RangeConcat
<1> QED BY <1>1, <1>4, <1>5, <1>6, <1>7, <1>8

\* References goes through the values of its definition.
LEMMA ReferencesRuns ==
  ASSUME NEW o \in RouteObjects
  PROVE  \E f : /\ References(o) = f[Len(o.backends)] /\ f[0] = Mirrors(o.mirrors)
                /\ \A i \in 1..Len(o.backends) :
                     f[i] = Append(f[i-1], o.backends[i].ref) \o Mirrors(o.backends[i].mirrors)
<1> DEFINE n == Len(o.backends)
           X == Seq(RefSet(o))
           Add(x, i) == Append(x, o.backends[i].ref) \o Mirrors(o.backends[i].mirrors)
           G == [p \in X \X (1..n) |-> Add(p[1], p[2])]
           Body(f, i) == IF i = 0 THEN Mirrors(o.mirrors) ELSE Add(f[i-1], i)
           Loop(f) == f = [i \in 0..n |-> Body(f, i)]
           F == CHOOSE f : Loop(f)
<1>1. n \in Nat /\ Mirrors(o.mirrors) \in X
  <2>1. o.mirrors \in Seq(Range(o.mirrors)) /\ o.backends \in Seq(Range(o.backends))
    BY ObjectsAssumption
  <2>2. FilterRefs(o.mirrors) \subseteq RefSet(o)
    BY DEF RefSet
  <2> QED BY <2>1, <2>2, MirrorsRange, SeqMono
<1>2. ASSUME NEW x \in X, NEW i \in 1..n PROVE Add(x, i) \in X
  BY BackendRefs
<1>3. G \in Steps(n, X)
  <2> HIDE DEF X, n, Add
  <2> QED BY <1>2 DEF Steps
<1>4. PICK f \in [0..n -> X] : /\ f[0] = Mirrors(o.mirrors)
                               /\ \A i \in 1..n : f[i] = G[<<f[i-1], i>>]
  <2>1. PICK b : b = Mirrors(o.mirrors)
    OBVIOUS
  <2> HIDE DEF X, n, G
  <2>2. n \in Nat /\ b \in X
    BY <1>1, <2>1
  <2>3. \E f : IsLoop(f, n, X, b, G)
    BY <1>3, <2>2, LoopExists
  <2> QED BY <2>1, <2>3, Zenon DEF IsLoop
<1>5. ASSUME NEW i \in 1..n PROVE f[i] = Add(f[i-1], i)
  <2> HIDE DEF X, n, Add
  <2>1. f[i-1] \in X
    BY <1>1, <1>4
  <2> QED BY <1>4, <2>1, Zenon
<1>6. Loop(f)
  <2> HIDE DEF Add
  <2>1. ASSUME NEW i \in 0..n PROVE f[i] = Body(f, i)
    <3>1. i = 0 \/ i \in 1..n
      BY <1>1
    <3> HIDE DEF X, n, G
    <3> QED BY <1>1, <1>4, <1>5, <3>1
  <2> HIDE DEF X, n, G, Body
  <2> QED BY <1>4, <2>1
<1>7. Loop(F)
  BY <1>6, Zenon
<1>8. References(o) = F[n]
  BY DEF References
<1> HIDE DEF F
<1>9. F[0] = Mirrors(o.mirrors) /\ \A i \in 1..n : F[i] = Add(F[i-1], i)
  <2> HIDE DEF Add
  <2>1. \A i \in 0..n : F[i] = Body(F, i)
    <3> HIDE DEF n, Body
    <3> QED BY <1>7, Zenon
  <2>2. 0 \in 0..n /\ \A i \in 1..n : i \in 0..n /\ i # 0
    BY <1>1
  <2> HIDE DEF n
  <2> QED BY <2>1, <2>2
<1> QED BY <1>8, <1>9, Zenon

\* GetServicesFromHTTPRoute and its siblings visit every reference, and nothing else.
LEMMA ReferencesRange ==
  ASSUME NEW o \in RouteObjects
  PROVE  References(o) \in Seq(RefSet(o)) /\ Range(References(o)) = RefSet(o)
<1> DEFINE n == Len(o.backends)
           A == RefSet(o)
           Back(j) == {o.backends[j].ref} \cup FilterRefs(o.backends[j].mirrors)
           Seen(i) == FilterRefs(o.mirrors) \cup UNION {Back(j) : j \in 1..i}
<1>1. o.mirrors \in Seq(Range(o.mirrors)) /\ o.backends \in Seq(Range(o.backends)) /\ n \in Nat
  BY ObjectsAssumption
<1>2. PICK f : /\ References(o) = f[n] /\ f[0] = Mirrors(o.mirrors)
               /\ \A i \in 1..n :
                    f[i] = Append(f[i-1], o.backends[i].ref) \o Mirrors(o.backends[i].mirrors)
  BY ReferencesRuns, Zenon
<1> DEFINE T == {i \in 0..n : f[i] \in Seq(A) /\ Range(f[i]) = Seen(i)}
<1>3. 0 \in T
  <2>1. Seen(0) = FilterRefs(o.mirrors)
    OBVIOUS
  <2>2. FilterRefs(o.mirrors) \subseteq A
    BY DEF RefSet
  <2>3. f[0] \in Seq(A) /\ Range(f[0]) = FilterRefs(o.mirrors)
    BY <1>1, <1>2, <2>2, MirrorsRange, SeqMono
  <2>4. 0 \in 0..n
    BY <1>1
  <2> HIDE DEF A, Seen, n
  <2> QED BY <2>1, <2>3, <2>4
<1>4. ASSUME NEW i \in 1..n, i - 1 \in T PROVE i \in T
  <2>1. Seen(i) = Seen(i-1) \cup Back(i) /\ i \in 0..n
    <3>1. \A k \in Int : k \in 1..i <=> k \in 1..(i-1) \/ k = i
      BY <1>1
    <3> HIDE DEF Back
    <3> QED BY <1>1, <3>1
  <2>2. f[i-1] \in Seq(A) /\ Range(f[i-1]) = Seen(i-1)
    BY <1>4
  <2>3. f[i] = Append(f[i-1], o.backends[i].ref) \o Mirrors(o.backends[i].mirrors)
    BY <1>2, Zenon
  <2> HIDE DEF Seen
  <2>4. /\ f[i] \in Seq(A)
        /\ Range(f[i]) = Range(f[i-1]) \cup {o.backends[i].ref}
                           \cup FilterRefs(o.backends[i].mirrors)
    <3>1. RefSet(o) \subseteq A
      OBVIOUS
    <3>2. PICK x : x = f[i-1]
      OBVIOUS
    <3>3. i \in 1..Len(o.backends)
      OBVIOUS
    <3> HIDE DEF A, n
    <3>4. x \in Seq(A)
      BY <2>2, <3>2
    <3>5. /\ Append(x, o.backends[i].ref) \o Mirrors(o.backends[i].mirrors) \in Seq(A)
          /\ Range(Append(x, o.backends[i].ref) \o Mirrors(o.backends[i].mirrors))
               = Range(x) \cup {o.backends[i].ref} \cup FilterRefs(o.backends[i].mirrors)
      BY <3>1, <3>3, <3>4, BackendRefs
    <3> QED BY <2>3, <3>2, <3>5, Zenon
  <2> HIDE DEF A
  <2> QED BY <2>1, <2>2, <2>4, Zenon
<1>5. n \in T
  <2> HIDE DEF T, n
  <2>1. 0..n \subseteq T
    BY <1>1, <1>3, <1>4, UpTo, Zenon
  <2> QED BY <1>1, <2>1
<1>6. Seen(n) = RefSet(o)
  <2>1. DOMAIN o.backends = 1..n
    BY <1>1, SeqRange
  <2>2. Range(o.backends) = {o.backends[j] : j \in 1..n}
    BY <2>1 DEF Range
  <2> QED BY <2>2 DEF RefSet
<1> QED BY <1>2, <1>5, <1>6, Zenon

\* Unique goes through the values of its definition.
LEMMA UniqueRuns ==
  ASSUME NEW s, s \in Seq(Range(s))
  PROVE  \E f : /\ Unique(s) = f[Len(s)] /\ f[0] = <<>>
                /\ \A i \in 1..Len(s) :
                     f[i] = IF s[i] \in {s[k] : k \in 1..(i-1)} THEN f[i-1]
                            ELSE Append(f[i-1], s[i])
<1> DEFINE n == Len(s)
           X == Seq(Range(s))
           Old(i) == s[i] \in {s[k] : k \in 1..(i-1)}
           Add(x, i) == IF Old(i) THEN x ELSE Append(x, s[i])
           G == [p \in X \X (1..n) |-> Add(p[1], p[2])]
           Body(f, i) == IF i = 0 THEN <<>> ELSE Add(f[i-1], i)
           Loop(f) == f = [i \in 0..n |-> Body(f, i)]
           F == CHOOSE f : Loop(f)
<1>1. n \in Nat /\ <<>> \in X /\ \A i \in 1..n : s[i] \in Range(s)
  BY DEF Range
<1>2. ASSUME NEW x \in X, NEW i \in 1..n PROVE Add(x, i) \in X
  <2> HIDE DEF Old
  <2> QED BY <1>1, <1>2
<1>3. G \in Steps(n, X)
  <2> HIDE DEF X, n, Add
  <2> QED BY <1>2, Zenon DEF Steps
<1>4. PICK f \in [0..n -> X] : f[0] = <<>> /\ \A i \in 1..n : f[i] = G[<<f[i-1], i>>]
  <2>1. PICK b : b = <<>>
    OBVIOUS
  <2> HIDE DEF X, n, G
  <2>2. n \in Nat /\ b \in X
    BY <1>1, <2>1
  <2>3. \E f : IsLoop(f, n, X, b, G)
    BY <1>3, <2>2, LoopExists
  <2> QED BY <2>1, <2>3, Zenon DEF IsLoop
<1>5. ASSUME NEW i \in 1..n PROVE f[i] = Add(f[i-1], i)
  <2> HIDE DEF X, n, Add
  <2>1. f[i-1] \in X
    BY <1>1, <1>4
  <2> QED BY <1>4, <2>1, Zenon
<1>6. Loop(f)
  <2> HIDE DEF Add
  <2>1. ASSUME NEW i \in 0..n PROVE f[i] = Body(f, i)
    <3>1. i = 0 \/ i \in 1..n
      BY <1>1
    <3> HIDE DEF X, n, G
    <3> QED BY <1>1, <1>4, <1>5, <3>1
  <2> HIDE DEF X, n, G, Body
  <2> QED BY <1>4, <2>1
<1>7. Loop(F)
  BY <1>6, Zenon
<1>8. Unique(s) = F[n]
  BY DEF Unique
<1> HIDE DEF F
<1>9. F[0] = <<>> /\ \A i \in 1..n : F[i] = Add(F[i-1], i)
  <2> HIDE DEF Add
  <2>1. \A i \in 0..n : F[i] = Body(F, i)
    <3> HIDE DEF n, Body
    <3> QED BY <1>7, Zenon
  <2>2. 0 \in 0..n /\ \A i \in 1..n : i \in 0..n /\ i # 0
    BY <1>1
  <2> HIDE DEF n
  <2> QED BY <2>1, <2>2
<1> QED BY <1>8, <1>9, Zenon

\* Removing duplicates loses no Service.
LEMMA UniqueRange ==
  ASSUME NEW s, s \in Seq(Range(s))
  PROVE  Unique(s) \in Seq(Range(s)) /\ Range(Unique(s)) = Range(s)
<1> DEFINE n == Len(s)
           A == Range(s)
           Seen(i) == {s[k] : k \in 1..i}
<1>1. PICK f : /\ Unique(s) = f[n] /\ f[0] = <<>>
               /\ \A i \in 1..n :
                    f[i] = IF s[i] \in Seen(i-1) THEN f[i-1] ELSE Append(f[i-1], s[i])
  BY UniqueRuns
<1> DEFINE T == {i \in 0..n : f[i] \in Seq(A) /\ Range(f[i]) = Seen(i)}
<1>2. n \in Nat /\ DOMAIN s = 1..n
  OBVIOUS
<1>3. 0 \in T
  <2>1. Range(<<>>) = {} /\ Seen(0) = {} /\ <<>> \in Seq(A)
    BY DEF Range
  <2>2. 0 \in 0..n
    BY <1>2
  <2> HIDE DEF A, n, Seen
  <2>3. f[0] \in Seq(A) /\ Range(f[0]) = Seen(0)
    BY <1>1, <2>1, Zenon
  <2> QED BY <2>2, <2>3
<1>4. ASSUME NEW i \in 1..n, i - 1 \in T PROVE i \in T
  <2>1. Seen(i) = Seen(i-1) \cup {s[i]} /\ i \in 0..n /\ s[i] \in A
    <3>1. \A k \in Int : k \in 1..i <=> k \in 1..(i-1) \/ k = i
      BY <1>2
    <3> QED BY <1>2, <3>1 DEF Range
  <2>2. f[i-1] \in Seq(A) /\ Range(f[i-1]) = Seen(i-1)
    BY <1>4
  <2> HIDE DEF Seen, A
  <2>3. f[i] = IF s[i] \in Seen(i-1) THEN f[i-1] ELSE Append(f[i-1], s[i])
    BY <1>1
  <2>4. CASE s[i] \in Seen(i-1)
    BY <2>1, <2>2, <2>3, <2>4, Zenon
  <2>5. CASE s[i] \notin Seen(i-1)
    <3>1. f[i] \in Seq(A) /\ Range(f[i]) = Range(f[i-1]) \cup {s[i]}
      BY <2>1, <2>2, <2>3, <2>5, RangeAppend
    <3> QED BY <2>1, <2>2, <3>1, Zenon
  <2> QED BY <2>4, <2>5
<1>5. n \in T
  <2> HIDE DEF T, n
  <2>1. 0..n \subseteq T
    BY <1>2, <1>3, <1>4, UpTo, Zenon
  <2> QED BY <1>2, <2>1
<1>6. Seen(n) = Range(s)
  BY <1>2 DEF Range
<1> QED BY <1>1, <1>5, <1>6, Zenon

\* The Services the references of o are meant for.
Meant(o) == {ServiceOf(o, r) : r \in RefSet(o)}

\* GetServices lists the Services that are meant.
LEMMA GetServicesRange ==
  ASSUME NEW o \in RouteObjects
  PROVE  GetServices(o) \in Seq(Range(GetServices(o))) /\ Range(GetServices(o)) = Meant(o)
<1>1. PICK refs : refs = References(o)
  OBVIOUS
<1>2. refs \in Seq(RefSet(o)) /\ Range(refs) = RefSet(o)
  BY <1>1, ReferencesRange
<1>3. DOMAIN refs = 1..Len(refs) /\ Len(refs) \in Nat
  BY <1>2, SeqRange
<1>4. PICK s : s = [i \in DOMAIN refs |-> ServiceOf(o, refs[i])]
  BY Zenon
<1>5. DOMAIN s = 1..Len(refs) /\ \A i \in 1..Len(refs) : s[i] = ServiceOf(o, refs[i])
  BY <1>3, <1>4
<1>6. Range(s) = Meant(o)
  <2>1. RefSet(o) = {refs[i] : i \in 1..Len(refs)}
    BY <1>2, <1>3 DEF Range
  <2> QED BY <1>5, <2>1 DEF Range, Meant
<1>7. s \in Seq(Range(s))
  <2>1. s \in [1..Len(refs) -> Range(s)]
    BY <1>4, <1>5 DEF Range
  <2> QED BY <1>3, <2>1
<1>8. GetServices(o) = Unique(s)
  BY <1>1, <1>4 DEF GetServices
<1> QED BY <1>6, <1>7, <1>8, UniqueRange

\* The loop over the Services of an Ingress goes through the values of its definition.
LEMMA IngressRuns ==
  ASSUME listed \in Seq(Range(listed)), NEW name
  PROVE  \E f : /\ IngressName(name) = f[Len(listed)] /\ f[0] = name
                /\ \A i \in 1..Len(listed) :
                     f[i] = IF f[i-1] = listed[i].name THEN GenerateName(listed[i]) ELSE f[i-1]
<1> DEFINE n == Len(listed)
           Renamed(i) == GenerateName(listed[i])
           X == {name} \cup {Renamed(i) : i \in 1..n}
           Next1(x, i) == IF x = listed[i].name THEN Renamed(i) ELSE x
           G == [p \in X \X (1..n) |-> Next1(p[1], p[2])]
           Body(f, i) == IF i = 0 THEN name ELSE Next1(f[i-1], i)
           Loop(f) == f = [i \in 0..n |-> Body(f, i)]
           F == CHOOSE f : Loop(f)
<1>1. n \in Nat /\ name \in X
  OBVIOUS
<1>2. ASSUME NEW x \in X, NEW i \in 1..n PROVE Next1(x, i) \in X
  <2> HIDE DEF Renamed, n
  <2> QED OBVIOUS
<1>3. G \in Steps(n, X)
  <2> HIDE DEF X, n, Next1
  <2> QED BY <1>2 DEF Steps
<1>4. PICK f \in [0..n -> X] : f[0] = name /\ \A i \in 1..n : f[i] = G[<<f[i-1], i>>]
  <2> HIDE DEF X, n, G
  <2>1. \E f : IsLoop(f, n, X, name, G)
    BY <1>1, <1>3, LoopExists
  <2> QED BY <2>1, Zenon DEF IsLoop
<1>5. ASSUME NEW i \in 1..n PROVE f[i] = Next1(f[i-1], i)
  <2> HIDE DEF X, n, Next1
  <2>1. f[i-1] \in X
    BY <1>1, <1>4
  <2> QED BY <1>4, <2>1, Zenon
<1>6. Loop(f)
  <2> HIDE DEF Next1
  <2>1. ASSUME NEW i \in 0..n PROVE f[i] = Body(f, i)
    <3>1. i = 0 \/ i \in 1..n
      BY <1>1
    <3> HIDE DEF X, n, G
    <3> QED BY <1>1, <1>4, <1>5, <3>1
  <2> HIDE DEF X, n, G, Body
  <2> QED BY <1>4, <2>1
<1>7. Loop(F)
  BY <1>6, Zenon
<1>8. IngressName(name) = F[n]
  BY DEF IngressName
<1> HIDE DEF F
<1>9. F[0] = name /\ \A i \in 1..n : F[i] = Next1(F[i-1], i)
  <2> HIDE DEF Next1
  <2>1. \A i \in 0..n : F[i] = Body(F, i)
    <3> HIDE DEF n, Body
    <3> QED BY <1>7, Zenon
  <2>2. 0 \in 0..n /\ \A i \in 1..n : i \in 0..n /\ i # 0
    BY <1>1
  <2> HIDE DEF n
  <2> QED BY <2>1, <2>2
<1> QED BY <1>8, <1>9

\* CreateOrUpdateIngress: the name is replaced once, by the generated name of the only
\* Service that has it; no generated name is replaced again.
LEMMA IngressResolves ==
  ASSUME listed \in Seq(Range(listed)), NoChain, NEW s \in Range(listed),
         \A t \in Range(listed) : t.name = s.name => t = s
  PROVE  IngressName(s.name) = GenerateName(s)
<1> DEFINE n == Len(listed)
<1>1. n \in Nat /\ DOMAIN listed = 1..n
  OBVIOUS
<1>2. PICK k \in 1..n : s = listed[k]
  BY <1>1, Zenon DEF Range
<1>3. PICK f : /\ IngressName(s.name) = f[n] /\ f[0] = s.name
               /\ \A i \in 1..n :
                    f[i] = IF f[i-1] = listed[i].name THEN GenerateName(listed[i]) ELSE f[i-1]
  BY IngressRuns, Zenon
<1> DEFINE Unseen(i) == \A j \in 1..i : listed[j].name # s.name
           T == {i \in 0..n : (f[i] = s.name /\ Unseen(i)) \/ f[i] = GenerateName(s)}
<1>4. 0 \in T
  BY <1>1, <1>3
<1>5. ASSUME NEW i \in 1..n, i - 1 \in T PROVE i \in T
  <2>1. i \in 0..n /\ \A j \in 1..i : j \in 1..(i-1) \/ j = i
    BY <1>1
  <2>2. f[i] = IF f[i-1] = listed[i].name THEN GenerateName(listed[i]) ELSE f[i-1]
    BY <1>3, Zenon
  <2>3. CASE f[i-1] = GenerateName(s)
    <3>1. f[i-1] # listed[i].name
      BY <1>1, <1>2, <2>3, Zenon DEF NoChain
    <3> QED BY <2>1, <2>2, <2>3, <3>1
  <2>4. CASE f[i-1] = s.name /\ Unseen(i-1) /\ listed[i].name = s.name
    <3>1. listed[i] = s
      BY <1>1, <2>4, Zenon DEF Range
    <3> QED BY <2>1, <2>2, <2>4, <3>1, Zenon
  <2>5. CASE f[i-1] = s.name /\ Unseen(i-1) /\ listed[i].name # s.name
    BY <2>1, <2>2, <2>5
  <2> QED BY <1>5, <2>3, <2>4, <2>5, Zenon
<1>6. n \in T
  <2> HIDE DEF T, n
  <2>1. 0..n \subseteq T
    BY <1>1, <1>4, <1>5, UpTo, Zenon
  <2> QED BY <1>1, <2>1
<1> QED BY <1>2, <1>3, <1>6

\* CreateOrUpdateHTTPRoute, ...GRPCRoute: one Service matches.
LEMMA RouteResolves ==
  ASSUME listed \in Seq(Range(listed)), Unambiguous,
         NEW s \in Range(listed), NEW r, Matches(r, s)
  PROVE  RouteName(r) = GenerateName(s)
<1>1. PICK k \in DOMAIN listed : s = listed[k]
  BY DEF Range
<1> DEFINE matching == {i \in DOMAIN listed : Matches(r, listed[i])}
<1>2. k \in matching
  BY <1>1
<1>3. ASSUME NEW i \in matching PROVE i = k
  <2>1. listed[i].name = listed[k].name
    BY <1>1, <1>3 DEF Matches
  <2> QED BY <1>1, <1>3, <2>1 DEF Unambiguous
<1>4. k \in Nat
  BY <1>1
<1>5. (CHOOSE i \in matching : \A j \in matching : j <= i) = k
  <2> HIDE DEF matching
  <2> QED BY <1>2, <1>3, <1>4
<1>6. RouteName(r) = IF matching = {} THEN r.name
                     ELSE GenerateName(listed[CHOOSE i \in matching :
                                                \A j \in matching : j <= i])
  BY DEF RouteName
<1> HIDE DEF matching
<1> QED BY <1>1, <1>2, <1>5, <1>6, Zenon

\* What is listed are the Services that are meant and exist; what is written is the
\* object rewritten with them.
RefInv ==
  /\ object \in RouteObjects
  /\ progress \in {"tenant", "listed", "panic", "rewritten"}
  /\ progress # "tenant" =>
       listed \in Seq(Range(listed)) /\ Range(listed) = Meant(object) \ missing
  /\ progress = "rewritten" => rewritten = Rewrite(object)

\* NormalizeAndReplicateServices lists the Services that exist.
LEMMA ListsMeant ==
  ASSUME NormalizeAndReplicateServices, object \in RouteObjects
  PROVE  listed' \in Seq(Range(listed')) /\ Range(listed') = Meant(object) \ missing
<1>1. PICK all : all = GetServices(object)
  OBVIOUS
<1>2. all \in Seq(Range(all)) /\ Range(all) = Meant(object)
  BY <1>1, GetServicesRange
<1> DEFINE existing == Range(all) \ missing
<1>3. PICK A, B : A = existing \ clusterIPs /\ B = existing \cap clusterIPs
  BY Zenon
<1>4. PICK x, y : x = Keep(all, A) /\ y = Keep(all, B)
  OBVIOUS
<1>5. x \in Seq(existing) /\ Range(x) = A /\ y \in Seq(existing) /\ Range(y) = B
  <2>1. /\ Range(all) \cap A = A /\ A \subseteq existing
        /\ Range(all) \cap B = B /\ B \subseteq existing
    BY <1>3
  <2>2. x \in Seq(Range(all) \cap A) /\ Range(x) = Range(all) \cap A
    BY <1>2, <1>4, KeepRange
  <2>3. y \in Seq(Range(all) \cap B) /\ Range(y) = Range(all) \cap B
    BY <1>2, <1>4, KeepRange
  <2> HIDE DEF existing
  <2> QED BY <2>1, <2>2, <2>3, SeqMono, Zenon
<1>6. A \cup B = existing
  BY <1>3
<1> HIDE DEF existing
<1>7. x \o y \in Seq(existing) /\ Range(x \o y) = existing
  <2>1. x \o y \in Seq(existing) /\ Range(x \o y) = Range(x) \cup Range(y)
    BY <1>5, RangeConcat
  <2> QED BY <1>5, <1>6, <2>1, Zenon
<1>8. listed' = x \o y
  BY <1>1, <1>3, <1>4 DEF NormalizeAndReplicateServices, existing
<1> QED BY <1>2, <1>7, <1>8 DEF existing

\* An empty list has nothing to keep.
LEMMA KeepNothing == ASSUME NEW S PROVE Keep(<<>>, S) = <<>>
<1>1. Range(Keep(<<>>, S)) = {} /\ Keep(<<>>, S) \in Seq({})
  <2>1. PICK s : s = <<>>
    OBVIOUS
  <2>2. s \in Seq(Range(s)) /\ Range(s) = {}
    BY <2>1 DEF Range
  <2>3. Keep(s, S) \in Seq(Range(s) \cap S) /\ Range(Keep(s, S)) = Range(s) \cap S
    BY <2>2, KeepRange, Zenon
  <2> QED BY <2>1, <2>2, <2>3
<1> QED BY <1>1

\* Rewriting a reference gives the generated name of its Service.
LEMMA ReferenceResolves ==
  ASSUME RefInv, progress # "tenant", NEW r \in RefSet(object),
         IF object.kind = "Ingress" THEN NoChain ELSE Unambiguous
  PROVE  Resolved(r, RewriteRef(object, r))
<1> DEFINE s == ServiceOf(object, r)
<1> SUFFICES ASSUME s \notin missing PROVE RewriteRef(object, r) = GenerateName(s)
  BY Zenon DEF Resolved
<1>1. s \in Range(listed) /\ listed \in Seq(Range(listed)) /\ s.name = r.name
  BY Zenon DEF RefInv, Meant, ServiceOf
<1>2. CASE object.kind = "Ingress"
  <2>1. \A q \in RefSet(object) : q.ns = OwnNamespace
    <3>1. Range(<<>>) = {}
      BY DEF Range
    <3> QED BY <1>2, <3>1, ObjectsAssumption DEF RefInv, RefSet, FilterRefs
  <2>2. \A t \in Range(listed) : t.name = s.name => t = s
    BY <2>1 DEF RefInv, Meant, ServiceOf
  <2> HIDE DEF s
  <2>3. IngressName(s.name) = GenerateName(s)
    BY <1>1, <1>2, <2>2, IngressResolves
  <2> QED BY <1>1, <1>2, <2>3, Zenon DEF RewriteRef
<1>3. CASE object.kind # "Ingress"
  <2>1. Matches(r, s)
    BY DEF Matches, ServiceOf
  <2> HIDE DEF s
  <2> QED BY <1>1, <1>3, <2>1, RouteResolves, Zenon DEF RewriteRef
<1> QED BY <1>2, <1>3

\* The invariant is strong enough.
LEMMA RefInvResolves == RefInv => ReferencesResolve
<1> SUFFICES ASSUME RefInv, progress = "rewritten",
                    IF object.kind = "Ingress" THEN NoChain ELSE Unambiguous,
                    \A j \in DOMAIN object.backends : object.backends[j].mirrors = <<>>
             PROVE  /\ \A j \in DOMAIN object.backends :
                         Resolved(object.backends[j].ref, rewritten.backends[j].ref)
                    /\ \A i \in DOMAIN object.mirrors :
                         object.mirrors[i] # OtherFilter
                           => Resolved(object.mirrors[i], rewritten.mirrors[i])
  BY DEF ReferencesResolve
<1>1. rewritten = Rewrite(object)
  BY DEF RefInv
<1>2. ASSUME NEW j \in DOMAIN object.backends
      PROVE  Resolved(object.backends[j].ref, rewritten.backends[j].ref)
  <2>1. rewritten.backends[j].ref = RewriteRef(object, object.backends[j].ref)
    BY <1>1 DEF Rewrite
  <2>2. object.backends[j].ref \in RefSet(object)
    BY DEF RefSet, Range
  <2> QED BY <2>1, <2>2, ReferenceResolves, Zenon
<1>3. ASSUME NEW i \in DOMAIN object.mirrors, object.mirrors[i] # OtherFilter
      PROVE  Resolved(object.mirrors[i], rewritten.mirrors[i])
  <2>1. i \in DOMAIN object.backends => LastMirror(i) = <<>>
    BY KeepNothing, Zenon DEF LastMirror
  <2>2. rewritten.mirrors[i] = RewriteRef(object, object.mirrors[i])
    BY <1>1, <1>3, <2>1, Zenon DEF Rewrite
  <2>3. object.mirrors[i] \in RefSet(object)
    BY <1>3 DEF RefSet, FilterRefs, Range
  <2> QED BY <2>2, <2>3, ReferenceResolves
<1> QED BY <1>2, <1>3, Zenon

\* What an object is rewritten to depends on the list and on how names are generated.
LEMMA RewriteKept ==
  ASSUME UNCHANGED <<object, listed, uidNames>>
  PROVE  Rewrite(object)' = Rewrite(object)
<1>1. \A name : IngressName(name)' = IngressName(name)
  BY DEF IngressName, GenerateName
<1>2. \A r : RouteName(r)' = RouteName(r)
  BY DEF RouteName, GenerateName
<1>3. \A o, r : RewriteRef(o, r)' = RewriteRef(o, r)
  BY <1>1, <1>2 DEF RewriteRef
<1>4. \A j : LastMirror(j)' = LastMirror(j)
  BY Zenon DEF LastMirror, Rewritable
<1> QED BY <1>3, <1>4, Zenon DEF Rewrite

\* The manager sends traffic to the copy of the Service the tenant has chosen, for
\* backends and for the mirrors of the rule, for all objects with any numbers of
\* backends and filters, any Services missing or replicated, and names of any length:
\* of an Ingress, if no generated name is the name of a listed Service; of a Route, if
\* listed Services have different names and no backend has a mirror of its own.
THEOREM ReferencesAlwaysResolve == RefSpec => []ReferencesResolve
<1>1. RefInit => RefInv
  BY DEF RefInit, RefInv
<1>2. RefInv /\ [RefNext]_refVars => RefInv'
  <2> SUFFICES ASSUME RefInv, [RefNext]_refVars PROVE RefInv'
    OBVIOUS
  <2>1. CASE NormalizeAndReplicateServices
    <3>1. object' = object /\ missing' = missing /\ progress' = "listed"
      BY <2>1 DEF NormalizeAndReplicateServices
    <3>2. listed' \in Seq(Range(listed')) /\ Range(listed') = Meant(object) \ missing
      BY <2>1, ListsMeant DEF RefInv
    <3>3. Meant(object') = Meant(object)
      BY <3>1
    <3> QED BY <3>1, <3>2, <3>3 DEF RefInv
  <2>2. CASE RewriteReferences
    <3>1. /\ UNCHANGED <<object, missing, listed, uidNames>>
          /\ progress' \in {"panic", "rewritten"} /\ progress # "tenant"
      BY <2>2 DEF RewriteReferences
    <3>2. progress' = "rewritten" => rewritten' = Rewrite(object)
      BY <2>2 DEF RewriteReferences
    <3>3. Rewrite(object)' = Rewrite(object)
      BY <3>1, RewriteKept, Zenon
    <3> QED BY <3>1, <3>2, <3>3 DEF RefInv
  <2>3. CASE UNCHANGED refVars
    <3>1. UNCHANGED <<object, missing, listed, uidNames, progress, rewritten>>
      BY <2>3 DEF refVars
    <3>2. Rewrite(object)' = Rewrite(object)
      BY <3>1, RewriteKept
    <3> QED BY <3>1, <3>2 DEF RefInv
  <2> QED BY <2>1, <2>2, <2>3 DEF RefNext
<1> QED BY <1>1, <1>2, RefInvResolves, PTL DEF RefSpec

-----------------------------------------------------------------------------
(* NodeAddresses.  Every write of Addresses changes the set of addresses,   *)
(* for any number of nodes.  Both what is stored and what is computed are   *)
(* sorted, and a set has one sorted list.                                   *)

\* Lists of addresses the CCM writes.
SortedLists == {s \in AddressLists : Sorted(s) /\ s # <<>>}

\* A list of addresses is a list of numbers.
LEMMA ListIs ==
  ASSUME NEW s \in AddressLists
  PROVE  \E n \in Nat : s \in [1..n -> Nat]
<1>1. PICK c \in Nat : c = Cardinality(Nodes)
  BY NodeBoundAssumption
<1>2. PICK n \in 0..c : s \in [1..n -> Nodes]
  BY <1>1 DEF AddressLists
<1>3. Nodes \subseteq Nat
  BY NodeBoundAssumption
<1>4. n \in Nat
  BY <1>2
<1>5. s \in [1..n -> Nat]
  BY <1>2, <1>3, Zenon
<1> QED BY <1>4, <1>5

\* Two sorted lists that hold the same agree at the indices of the first: at the least
\* index where they differ, one of them misses an element of the other.
LEMMA SortedPrefix ==
  ASSUME NEW m \in Nat, NEW n \in Nat, NEW a \in [1..m -> Nat], NEW b \in [1..n -> Nat],
         Sorted(a), Sorted(b), Range(a) = Range(b)
  PROVE  \A i \in 1..m : i \in 1..n /\ a[i] = b[i]
<1> DEFINE T == {i \in 1..m : ~ (i \in 1..n /\ a[i] = b[i])}
<1> SUFFICES ASSUME T # {} PROVE FALSE
  BY Zenon
<1>1. PICK i \in T : \A j \in T : i <= j
  <2>1. T \in SUBSET Nat
    OBVIOUS
  <2> HIDE DEF T
  <2> QED BY <2>1, Least
<1>2. i \in 1..m /\ \A j \in 1..m : j < i => j \in 1..n /\ a[j] = b[j]
  BY <1>1
<1>3. a[i] \in Range(b)
  BY <1>2, Zenon DEF Range
<1>4. PICK k \in 1..n : b[k] = a[i]
  BY <1>3 DEF Range
<1>5. ~ (k < i)
  <2> SUFFICES ASSUME k < i PROVE FALSE
    OBVIOUS
  <2>1. k \in 1..m /\ a[k] = b[k]
    BY <1>2
  <2>2. a[k] < a[i]
    BY <1>2, <2>1 DEF Sorted
  <2> QED BY <1>2, <1>4, <2>1, <2>2
<1>6. i \in 1..n
  BY <1>2, <1>5
<1>7. a[i] # b[i]
  BY <1>1, <1>6, Zenon
<1>8. i < k
  BY <1>2, <1>4, <1>5, <1>7
<1>9. b[i] < a[i]
  BY <1>4, <1>6, <1>8 DEF Sorted
<1>10. b[i] \in Range(a)
  BY <1>6, Zenon DEF Range
<1>11. PICK l \in 1..m : a[l] = b[i]
  BY <1>10 DEF Range
<1>12. CASE l < i
  <2>1. l \in 1..n /\ a[l] = b[l]
    BY <1>2, <1>12, Zenon
  <2>2. b[l] < b[i]
    BY <1>6, <1>12, <2>1 DEF Sorted
  <2> QED BY <1>6, <1>11, <2>1, <2>2
<1>13. CASE l = i
  BY <1>7, <1>11, <1>13, Zenon
<1>14. CASE i < l
  <2>1. a[i] < a[l]
    BY <1>2, <1>11, <1>14 DEF Sorted
  <2> QED BY <1>2, <1>6, <1>9, <1>11, <2>1
<1> QED BY <1>2, <1>11, <1>12, <1>13, <1>14

\* A set has one sorted list.
LEMMA SortedUnique ==
  ASSUME NEW a \in SortedLists, NEW b \in SortedLists, Range(a) = Range(b)
  PROVE  a = b
<1>1. PICK m \in Nat : a \in [1..m -> Nat]
  BY ListIs DEF SortedLists
<1>2. PICK n \in Nat : b \in [1..n -> Nat]
  BY ListIs, Zenon DEF SortedLists
<1>3. Sorted(a) /\ Sorted(b)
  BY DEF SortedLists
<1>4. \A i \in 1..m : i \in 1..n /\ a[i] = b[i]
  BY <1>1, <1>2, <1>3, SortedPrefix, Zenon
<1>5. \A i \in 1..n : i \in 1..m /\ b[i] = a[i]
  BY <1>1, <1>2, <1>3, SortedPrefix, Zenon
<1>6. 1..m = 1..n
  BY <1>4, <1>5
<1> QED BY <1>1, <1>2, <1>4, <1>6

\* Addresses and its cached copy are sorted and not empty, and so is what the worker
\* has computed; it updates only an object that differs.
NodeInv ==
  /\ {addresses, cAddresses} \subseteq SortedLists \cup {NoAddresses}
  /\ nodePc \in {"get", "update"} => current \in SortedLists
  /\ nodePc = "update" => found \in SortedLists /\ found # current

\* With a valid address the computed list is sorted and not empty.
LEMMA ListedIsSorted ==
  ASSUME ListNodes, validAddressFound(cNode)
  PROVE  current' \in SortedLists
<1>1. PICK s \in Ordered(WithIP(cNode)) : current' = s
  BY DEF ListNodes
<1>2. s \in AddressLists /\ Range(s) # {} /\ Sorted(s)
  BY <1>1 DEF Ordered, validAddressFound
<1>3. s # <<>>
  BY <1>2 DEF Range
<1> QED BY <1>1, <1>2, <1>3 DEF SortedLists

\* Every step keeps the invariant.
LEMMA NodeInvStep == NodeInv /\ [NodeNext]_nodeVars => NodeInv'
<1> SUFFICES ASSUME NodeInv, [NodeNext]_nodeVars PROVE NodeInv'
  OBVIOUS
<1> USE DEF NodeInv, nodeWorker, nodeCaches, NodeDone, NodeRetry, NodeIdle
<1>1. ASSUME NEW n \in Nodes, ChangeNode(n) PROVE NodeInv'
  BY <1>1 DEF ChangeNode
<1>2. ASSUME NEW n \in Nodes, SyncNode(n) PROVE NodeInv'
  BY <1>2 DEF SyncNode
<1>3. CASE DeleteAddresses
  BY <1>3 DEF DeleteAddresses
<1>4. CASE SyncAddresses
  BY <1>4, Zenon DEF SyncAddresses
<1>5. CASE ResyncNodes
  BY <1>5 DEF ResyncNodes
<1>6. CASE ListNodes
  BY <1>6, ListedIsSorted, Zenon DEF ListNodes
<1>7. CASE GetAddresses
  BY <1>7, Zenon DEF GetAddresses
<1>8. CASE UpdateAddresses
  BY <1>8 DEF UpdateAddresses
<1>9. CASE NodeRestart
  BY <1>9 DEF NodeRestart
<1>10. CASE UNCHANGED nodeVars
  BY <1>10 DEF nodeVars
<1> QED BY <1>1, <1>2, <1>3, <1>4, <1>5, <1>6, <1>7, <1>8, <1>9, <1>10, Zenon
       DEF NodeNext, KubeLBNodeReconciler

\* A write comes from the worker, which has seen a different list.
LEMMA WritesChange ==
  ASSUME NodeInv, NodeNext, addresses' # addresses, addresses' # NoAddresses
  PROVE  /\ addresses' # <<>>
         /\ addresses # NoAddresses => Range(addresses') # Range(addresses)
<1>1. \/ GetAddresses /\ addresses = NoAddresses /\ addresses' = current
      \/ UpdateAddresses /\ addresses = found /\ addresses' = current
  BY DEF NodeNext, KubeLBNodeReconciler, ChangeNode, SyncNode, DeleteAddresses, SyncAddresses,
         ResyncNodes, ListNodes, GetAddresses, UpdateAddresses, NodeRestart
<1>2. current \in SortedLists /\ addresses' = current
  BY <1>1 DEF NodeInv, GetAddresses, UpdateAddresses
<1>3. addresses # NoAddresses => addresses \in SortedLists /\ addresses # current
  BY <1>1 DEF NodeInv, UpdateAddresses
<1> QED BY <1>2, <1>3, SortedUnique, ZenonT(30) DEF SortedLists

\* The order in which nodes are listed causes no write of Addresses, and no write
\* empties it, for any nodes and any number of changes, foreign deletions and restarts.
THEOREM NodeWritesChange == NodeInit /\ [][NodeNext]_nodeVars => NoIdleWrite
<1>1. NodeInit => NodeInv
  BY DEF NodeInit, NodeInv
<1>2. NodeInv /\ [NodeNext]_nodeVars
        => [addresses' # addresses /\ addresses' # NoAddresses
              => /\ addresses' # <<>>
                 /\ addresses # NoAddresses => Range(addresses') # Range(addresses)]_nodeVars
  BY WritesChange
<1> QED BY <1>1, <1>2, NodeInvStep, PTL DEF NoIdleWrite
==============================================================================
