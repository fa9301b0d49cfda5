---------------------------- MODULE Connections -----------------------------
(***************************************************************************)
(* The life of the gateway's socket processes and what they keep outside   *)
(* themselves: Gateway.ConnectionRegistry, an ETS table that any process   *)
(* writes, and Gateway.SyncConsumer, a GenServer that is told of arrivals  *)
(* and departures by casts and subscribes to NATS on behalf of users.      *)
(*                                                                         *)
(* A device that lost its connection opens a new one while the gateway may *)
(* still hold the old process; a user has several devices.                 *)
(***************************************************************************)
EXTENDS Integers, Sequences, FiniteSets

CONSTANTS
  Conns,        \* socket processes; each one lives once
  Devices,
  Users,
  DeviceOf,     \* the device of a socket process
  OwnerOf,      \* the user of a device
  NoConn,       \* no entry in the registry
  MaxMissed,    \* @max_missed_heartbeats
  NatsFaults    \* whether a NATS subscription may fail

ASSUME ConnectionsAssumption ==
  /\ DeviceOf \in [Conns -> Devices]
  /\ OwnerOf \in [Devices -> Users]
  /\ NoConn \notin Conns
  /\ MaxMissed \in Nat \ {0} /\ NatsFaults \in BOOLEAN

VARIABLES
  phase,        \* phase[c]: "new", "open" or "closed"
  silent,       \* the processes whose peer has vanished without a close
  missed,       \* missed[c]: missed_heartbeats
  registry,     \* registry[d]: the process registered for device d
  casts,        \* the mailbox of SyncConsumer
  subscribed    \* the users SyncConsumer holds a subscription for

sockets == <<phase, silent, missed>>
consumer == <<casts, subscribed>>
gatewayVars == <<sockets, registry, consumer>>

UserOf(c) == OwnerOf[DeviceOf[c]]
Cast == [op : {"subscribe", "unsubscribe"}, user : Users]

-----------------------------------------------------------------------------
GatewayInit ==
  /\ phase = [c \in Conns |-> "new"]
  /\ silent = {}
  /\ missed = [c \in Conns |-> 0]
  /\ registry = [d \in Devices |-> NoConn]
  /\ casts = <<>> /\ subscribed = {}

\* ConnectionRegistry.register and unregister: insert and delete by device.
Register(c) == [registry EXCEPT ![DeviceOf[c]] = c]

\* Mutant: a process takes its entry away only if another one replaced it.
UnregisterOthers(c) ==
  [registry EXCEPT ![DeviceOf[c]] = IF @ = c THEN c ELSE NoConn]

Unregister(c) == [registry EXCEPT ![DeviceOf[c]] = NoConn]

\* BinarySocket.init.
Open(c) ==
  /\ phase[c] = "new"
  /\ phase' = [phase EXCEPT ![c] = "open"]
  /\ registry' = Register(c)
  /\ casts' = Append(casts, [op |-> "subscribe", user |-> UserOf(c)])
  /\ UNCHANGED <<silent, missed, subscribed>>

\* Mutant: the consumer is not told.
TerminateQuietly(c) ==
  /\ phase' = [phase EXCEPT ![c] = "closed"]
  /\ registry' = Unregister(c)
  /\ UNCHANGED <<silent, missed, consumer>>

\* BinarySocket.terminate.
Terminate(c) ==
  /\ phase' = [phase EXCEPT ![c] = "closed"]
  /\ registry' = Unregister(c)
  /\ casts' = Append(casts, [op |-> "unsubscribe", user |-> UserOf(c)])
  /\ UNCHANGED <<silent, missed, subscribed>>

\* The peer closes the socket, or the process stops for some other reason.
Close(c) == phase[c] = "open" /\ Terminate(c)

\* The peer is gone and nothing tells the gateway.
Vanish(c) ==
  /\ phase[c] = "open" /\ c \notin silent
  /\ silent' = silent \cup {c}
  /\ UNCHANGED <<phase, missed, registry, consumer>>

\* A heartbeat frame.
Heartbeat(c) ==
  /\ phase[c] = "open" /\ c \notin silent
  /\ missed' = [missed EXCEPT ![c] = 0]
  /\ UNCHANGED <<phase, silent, registry, consumer>>

\* Mutant: the last missed interval is never counted.
HeartbeatCheckForgiving(c) ==
  /\ phase[c] = "open"
  /\ missed' = [missed EXCEPT ![c] = IF @ + 1 < MaxMissed THEN @ + 1 ELSE @]
  /\ UNCHANGED <<phase, silent, registry, consumer>>

\* The timer :heartbeat_check.
HeartbeatCheck(c) ==
  /\ phase[c] = "open"
  /\ \/ missed[c] + 1 >= MaxMissed /\ Terminate(c)
     \/ /\ missed[c] + 1 < MaxMissed
        /\ missed' = [missed EXCEPT ![c] = @ + 1]
        /\ UNCHANGED <<phase, silent, registry, consumer>>

\* SyncConsumer handles the next cast; a subscription NATS refuses is not
\* tried again.
HandleCast ==
  /\ casts # <<>>
  /\ casts' = Tail(casts)
  /\ LET cast == Head(casts)
     IN  \/ /\ cast.op = "subscribe"
            /\ subscribed' = subscribed \cup {cast.user}
         \/ /\ cast.op = "subscribe" /\ NatsFaults
            /\ UNCHANGED subscribed
         \/ /\ cast.op = "unsubscribe"
            /\ subscribed' = subscribed \ {cast.user}
  /\ UNCHANGED <<sockets, registry>>

GatewayNext ==
  \/ \E c \in Conns : \/ Open(c) \/ Close(c) \/ Vanish(c)
                      \/ Heartbeat(c) \/ HeartbeatCheck(c)
  \/ HandleCast

GatewaySpec == GatewayInit /\ [][GatewayNext]_gatewayVars

\* Timers fire and GenServers work off their mailboxes.
GatewayFairSpec ==
  /\ GatewaySpec
  /\ \A c \in Conns : WF_gatewayVars(HeartbeatCheck(c))
  /\ WF_gatewayVars(HandleCast)

-----------------------------------------------------------------------------
\* Type correctness.
GatewayTypeOK ==
  /\ phase \in [Conns -> {"new", "open", "closed"}]
  /\ silent \subseteq Conns
  /\ missed \in [Conns -> 0..(MaxMissed - 1)]
  /\ registry \in [Devices -> Conns \cup {NoConn}]
  /\ casts \in Seq(Cast) /\ subscribed \subseteq Users

\* Processes of one device overlap and end in any order, yet the registry
\* never names one that has ended or that serves another device.
RegistryLive ==
  \A d \in Devices : registry[d] # NoConn =>
    phase[registry[d]] = "open" /\ DeviceOf[registry[d]] = d

Connected(u) == \E c \in Conns : phase[c] = "open" /\ UserOf(c) = u

\* Casts arrive late and devices come and go, but once SyncConsumer has caught
\* up it holds no subscription for a user who has no connection left.
NoOrphanSubscription ==
  casts = <<>> => \A u \in subscribed : Connected(u)

\* "Subscribes to NATS sync subjects for connected users" (SyncConsumer): once
\* it has caught up, every connected user is subscribed.
ConnectedSubscribed ==
  casts = <<>> => \A u \in Users : Connected(u) => u \in subscribed

\* A connection whose peer has vanished is closed in the end.
Reaped == \A c \in Conns : c \in silent ~> phase[c] = "closed"

=============================================================================
