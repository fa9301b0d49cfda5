---------------------------- MODULE MCDeltaSync -----------------------------
(***************************************************************************)
(* What a reconnect sets in motion, for TLC: the device pushes its queue   *)
(* (OfflineQueue) and pulls what it missed (SyncPull), the gateway tells   *)
(* the old socket process from the new one (Connections).  The three parts *)
(* share the clock and the table at most, and no property relates two of   *)
(* them: a behaviour of this instance is one of a single part, chosen at   *)
(* the start, while the others stay as they were.  A user with two devices,*)
(* one of which connects twice.                                            *)
(***************************************************************************)
EXTENDS OfflineQueue, SyncPull, Connections

CONSTANTS phone, laptop, alice, p1, p2, l1

VARIABLE part

MCDeviceOf == [c \in Conns |-> IF c = l1 THEN laptop ELSE phone]
MCOwnerOf == [d \in Devices |-> alice]

\* The variables of one part that are no variables of another.
queueOnly == <<open, link, client, stray, history>>
pullOnly == <<pending, device, pullHistory>>
allVars == <<part, now, rows, queueOnly, pullOnly, gatewayVars>>

MCInit ==
  /\ part \in {"queue", "pull", "gateway"}
  /\ Init /\ PullInit /\ GatewayInit

\* Bound: the queue stops the clock one tick before the pull does.
MCNext ==
  /\ \/ /\ part = "queue" /\ Next /\ now' < MaxTime
        /\ UNCHANGED <<pullOnly, gatewayVars>>
     \/ part = "pull" /\ PullNext /\ UNCHANGED <<queueOnly, gatewayVars>>
     \/ part = "gateway" /\ GatewayNext /\ UNCHANGED <<now, rows, queueOnly, pullOnly>>
  /\ UNCHANGED part

\* The fairness of FairSpec and GatewayFairSpec, each for its part.
MCSpec ==
  /\ MCInit /\ [][MCNext]_allVars
  /\ <>[][~Mishap]_vars
  /\ WF_vars(part = "queue" /\ SendGoesOn)
  /\ WF_vars(part = "queue" /\ SyncGoesOn)
  /\ WF_vars(part = "queue" /\ Reconnects)
  /\ \A c \in Conns : WF_gatewayVars(part = "gateway" /\ HeartbeatCheck(c))
  /\ WF_gatewayVars(part = "gateway" /\ HandleCast)

=============================================================================
