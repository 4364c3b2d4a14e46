---------------------------- MODULE BridgeService ----------------------------
(***************************************************************************)
(* The bridge of the global topology: a generated Service in the tenant's  *)
(* namespace, here the original, has no selector.  The BridgeService       *)
(* reconciler gives it an EndpointSlice that leads to the bridge Service   *)
(* in the controller's namespace, in front of Envoy.  The Route reconciler *)
(* writes the bridge first and the original second, with one target port;  *)
(* only events of the bridge are watched, and the port of the slice is     *)
(* taken from the original.  See RouteManager for the rest of what the     *)
(* Route reconciler does.                                                  *)
(***************************************************************************)
EXTENDS Naturals

CONSTANTS TargetPorts,      \* listener ports
          Nothing,          \* no object, no port
          MaxBridgeEvents   \* bound: writes and deletions of the two Services, and restarts

VARIABLES original, bridge, slice,   \* API server
          pending,          \* the port with which the original is still to be written
          cOriginal, cBridge, cSlice,   \* cache
          bridgeQueued,     \* there is a request for the bridge
          bridgePc, desired,   \* worker: step, slice to be stored
          bridgeEvents

bridgeApi == <<original, bridge, slice>>
bridgeCaches == <<cOriginal, cBridge, cSlice>>
bridgeVars == <<bridgeApi, pending, bridgeCaches, bridgeQueued, bridgePc, desired, bridgeEvents>>

\* uid and clusterIP are new with every creation.
Incarnations == 0..MaxBridgeEvents
Originals == [port : TargetPorts, uid : Incarnations]
Bridges == [port : TargetPorts, clusterIP : Incarnations]
Slices == [port : TargetPorts, endpoint : Incarnations, owner : Incarnations]

ASSUME BridgeBoundAssumption == MaxBridgeEvents \in Nat
ASSUME NothingAssumption == Nothing \notin Originals \cup Bridges \cup Slices \cup TargetPorts

-----------------------------------------------------------------------------
(* The Route reconciler, the garbage collector, and others.                *)

BridgeEvent == bridgeEvents < MaxBridgeEvents /\ bridgeEvents' = bridgeEvents + 1

\* manageServices: the bridge comes before the Service it is for.
WriteBridge(p) ==
  /\ BridgeEvent /\ pending = Nothing
  /\ bridge' = IF bridge = Nothing THEN [port |-> p, clusterIP |-> bridgeEvents]
               ELSE [bridge EXCEPT !.port = p]
  /\ pending' = p
  /\ UNCHANGED <<original, slice, bridgeCaches, bridgeQueued, bridgePc, desired>>

WriteOriginal ==
  /\ pending # Nothing
  /\ original' = IF original = Nothing THEN [port |-> pending, uid |-> bridgeEvents]
                 ELSE [original EXCEPT !.port = pending]
  /\ pending' = Nothing
  /\ UNCHANGED <<bridge, slice, bridgeCaches, bridgeQueued, bridgePc, desired, bridgeEvents>>

\* cleanup and cleanupOrphanedServices, in the order of a map; or somebody else.
DeleteServices ==
  /\ BridgeEvent /\ pending = Nothing
  /\ \/ original # Nothing /\ original' = Nothing /\ UNCHANGED bridge
     \/ bridge # Nothing /\ bridge' = Nothing /\ UNCHANGED original
  /\ UNCHANGED <<slice, pending, bridgeCaches, bridgeQueued, bridgePc, desired>>

\* The slice's owner is the original it was written for.
OwnerGone == original # Nothing => original.uid # slice.owner

CollectSlice ==
  /\ slice # Nothing /\ OwnerGone
  /\ slice' = Nothing
  /\ UNCHANGED <<original, bridge, pending, bridgeCaches, bridgeQueued, bridgePc, desired,
                 bridgeEvents>>

-----------------------------------------------------------------------------
(* Informers.  Only Services with the label of a bridge pass the filter.   *)

SyncBridge ==
  /\ cBridge # bridge
  /\ cBridge' = bridge /\ bridgeQueued' = TRUE
  /\ UNCHANGED <<bridgeApi, pending, cOriginal, cSlice, bridgePc, desired, bridgeEvents>>

SyncOriginal ==
  /\ cOriginal # original
  /\ cOriginal' = original
  /\ UNCHANGED <<bridgeApi, pending, cBridge, cSlice, bridgeQueued, bridgePc, desired, bridgeEvents>>

SyncSlice ==
  /\ cSlice # slice
  /\ cSlice' = slice
  /\ UNCHANGED <<bridgeApi, pending, cOriginal, cBridge, bridgeQueued, bridgePc, desired, bridgeEvents>>

\* Every ten hours.
ResyncBridge ==
  /\ cBridge # Nothing /\ ~bridgeQueued
  /\ bridgeQueued' = TRUE
  /\ UNCHANGED <<bridgeApi, pending, bridgeCaches, bridgePc, desired, bridgeEvents>>

-----------------------------------------------------------------------------
(* BridgeServiceReconciler.                                                *)

SliceOf(o, b) == [port |-> o.port, endpoint |-> b.clusterIP, owner |-> o.uid]

\* Nothing to do without the bridge, an error without the original.
ReconcileBridge ==
  /\ bridgePc = "idle" /\ bridgeQueued
  /\ IF cBridge # Nothing /\ cOriginal # Nothing
       THEN bridgePc' = "apply" /\ desired' = SliceOf(cOriginal, cBridge)
       ELSE UNCHANGED <<bridgePc, desired>>
  /\ bridgeQueued' = (cBridge # Nothing /\ cOriginal = Nothing)
  /\ UNCHANGED <<bridgeApi, pending, bridgeCaches, bridgeEvents>>

\* Mutated form: any slice will do.
SliceExists(a, b) == TRUE

\* Ports, endpoints and labels; the owner is not compared.
SameSlice(a, b) == a.port = b.port /\ a.endpoint = b.endpoint

\* Create fails when there is a slice by now, Update when the one read is not the
\* stored one.
CreateOrUpdateEndpointSlice ==
  /\ bridgePc = "apply"
  /\ IF cSlice # Nothing /\ SameSlice(cSlice, desired) THEN UNCHANGED <<slice, bridgeQueued>>
     ELSE IF cSlice = slice THEN slice' = desired /\ UNCHANGED bridgeQueued
     ELSE UNCHANGED slice /\ bridgeQueued' = TRUE
  /\ bridgePc' = "idle" /\ desired' = Nothing
  /\ UNCHANGED <<original, bridge, pending, bridgeCaches, bridgeEvents>>

BridgeServiceReconciler == ReconcileBridge \/ CreateOrUpdateEndpointSlice

BridgeRestart ==
  /\ BridgeEvent
  /\ cOriginal' = original /\ cBridge' = bridge /\ cSlice' = slice
  /\ bridgeQueued' = (bridge # Nothing) /\ bridgePc' = "idle" /\ desired' = Nothing
  /\ UNCHANGED <<bridgeApi, pending>>

-----------------------------------------------------------------------------
BridgeInit ==
  /\ original = Nothing /\ bridge = Nothing /\ slice = Nothing /\ pending = Nothing
  /\ cOriginal = Nothing /\ cBridge = Nothing /\ cSlice = Nothing
  /\ bridgeQueued = FALSE /\ bridgePc = "idle" /\ desired = Nothing /\ bridgeEvents = 0

BridgeNext ==
  \/ \E p \in TargetPorts : WriteBridge(p)
  \/ WriteOriginal \/ DeleteServices \/ CollectSlice
  \/ SyncBridge \/ SyncOriginal \/ SyncSlice \/ ResyncBridge
  \/ BridgeServiceReconciler \/ BridgeRestart

\* Informers, the worker and the garbage collector run, and manageServices, once it
\* has written the bridge, goes on to the original.
BridgeFairness ==
  /\ WF_bridgeVars(WriteOriginal) /\ WF_bridgeVars(CollectSlice)
  /\ WF_bridgeVars(SyncBridge) /\ WF_bridgeVars(SyncOriginal) /\ WF_bridgeVars(SyncSlice)
  /\ WF_bridgeVars(ResyncBridge) /\ WF_bridgeVars(BridgeServiceReconciler)

-----------------------------------------------------------------------------
\* The slice ends up with the port of the original and the address of the bridge,
\* also when the reconciler has seen the new bridge with the old original, and when
\* the original has been created again and its slice collected.
SliceConverges ==
  <>[](original # Nothing /\ bridge # Nothing
         => slice # Nothing /\ slice.port = original.port /\ slice.endpoint = bridge.clusterIP)

==============================================================================
