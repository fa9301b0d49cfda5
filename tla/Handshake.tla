----------------------------- MODULE Handshake ------------------------------
(***************************************************************************)
(* How the members of one channel agree on its encryption key (CEK): the   *)
(* handshake of Channel.join and its event handlers in the SDK, the MLS    *)
(* handlers of the gateway's socket, the claim of the group's creator in   *)
(* the cache and the key packages in the database.                         *)
(*                                                                         *)
(* Every user has one device.  A frame that a device pushes is handled by  *)
(* the gateway in the same step; what comes back, replies and broadcasts,  *)
(* waits in the order of the socket.  A reply carries what the awaiting    *)
(* function goes on with.  When the socket breaks, what waits is lost and  *)
(* the transport connects and joins again, without the Channel's handlers. *)
(***************************************************************************)
EXTENDS Mls

CONSTANTS
  Devices,
  NoOne,         \* no creator in the cache
  NoKey,         \* no CEK
  NoPackage,     \* no key package in the database
  MaxStarts,     \* bound: page loads per device
  MaxMishaps,    \* bound: timeouts, reloads, broken sockets and lost claims together
  MaxRemovals    \* bound: removals of members

\* A page load of a device is a session; the groups of sessions.
Session == Devices \X (1..MaxStarts)
Changes == [by : Session, op : {"create", "add", "remove"}, who : Session]
Groups == [epoch : Seq(Changes), members : SUBSET Session]

ASSUME HandshakeAssumption ==
  /\ MaxStarts \in Nat \ {0} /\ MaxMishaps \in Nat /\ MaxRemovals \in Nat
  /\ NoOne \notin Devices /\ NoGroup \notin Groups

VARIABLES
  mgr,        \* mgr[d]: the MlsManager of d
  chan,       \* chan[d]: the Channel object of d and the CEK in its MlsClient
  importing,  \* importing[d]: calls of importKey that d awaits
  inbox,      \* inbox[d]: what the gateway has sent to d
  link,       \* link[d]: "up"; "down"; "deaf": up again, the handlers unbound
  claim,      \* cache: creator of the channel's group
  kps,        \* database: key package of each device
  starts,     \* number of page loads of each device
  mishaps, removals

vars == <<mgr, chan, importing, inbox, link, claim, kps, starts, mishaps, removals>>

Phases == {"idle", "joining", "uploading", "asking", "creating", "waiting", "late",
           "resolved", "failed", "stuck"}
NewChannel == [phase |-> "idle", ready |-> FALSE, isGroupCreator |-> FALSE, cek |-> NoKey]

Init ==
  /\ mgr = [d \in Devices |-> NewManager(<<d, 1>>)]
  /\ chan = [d \in Devices |-> NewChannel]
  /\ importing = [d \in Devices |-> {}]
  /\ inbox = [d \in Devices |-> <<>>]
  /\ link = [d \in Devices |-> "up"]
  /\ claim = NoOne
  /\ kps = [d \in Devices |-> NoPackage]
  /\ starts = [d \in Devices |-> 1]
  /\ mishaps = 0
  /\ removals = 0

-----------------------------------------------------------------------------
\* The gateway.

\* The devices that handle broadcasts.
Subscribed == {d \in Devices : chan[d].phase # "idle" /\ link[d] = "up"}

\* The inboxes q after a broadcast, and after one that leaves the sender out.
Broadcast(q, msg) ==
  [e \in Devices |-> IF e \in Subscribed THEN Append(q[e], msg) ELSE q[e]]
BroadcastFrom(q, d, msg) ==
  [e \in Devices |-> IF e \in Subscribed \ {d} THEN Append(q[e], msg) ELSE q[e]]
Reply(q, d, msg) == [q EXCEPT ![d] = Append(@, msg)]

Msg(type, body) == [type |-> type, body |-> body]

\* Mutant: SET without NX.
ClaimedAnew(d) == d

\* Cache.set_mls_creator and get_mls_creator of user d, the cache working.
Claimed(d) == IF claim = NoOne THEN d ELSE claim

\* mls:group_info; without a cache the caller is told that it is the creator.
GroupInfo(d, q, then) ==
  \/ /\ claim' = Claimed(d)
     /\ inbox' = Reply(q, d, Msg(then, claim' = d))
     /\ UNCHANGED mishaps
  \/ /\ mishaps < MaxMishaps
     /\ mishaps' = mishaps + 1
     /\ inbox' = Reply(q, d, Msg(then, TRUE))
     /\ UNCHANGED claim

\* The cache loses or expires the claim.
LoseClaim ==
  /\ claim # NoOne /\ mishaps < MaxMishaps
  /\ claim' = NoOne
  /\ mishaps' = mishaps + 1
  /\ UNCHANGED <<mgr, chan, importing, inbox, kps, starts, removals, link>>

-----------------------------------------------------------------------------
\* Channel.join.

\* transport.join; the gateway subscribes and tells the others.
Join(d) ==
  /\ chan[d].phase = "idle"
  /\ chan' = [chan EXCEPT ![d].phase = "joining"]
  /\ inbox' = BroadcastFrom(inbox, d, Msg("presence_join", d))
  /\ UNCHANGED <<mgr, importing, claim, kps, starts, mishaps, removals, link>>

\* The handlers are registered and a key package is uploaded.
Upload(d) ==
  /\ chan[d].phase = "joining"
  /\ mgr' = [mgr EXCEPT ![d] = GenerateKeyPackage(@)]
  /\ \/ /\ link[d] # "down"
        /\ kps' = [kps EXCEPT ![d] = NextPackage(mgr[d])]
        /\ inbox' = Reply(Broadcast(inbox, Msg("key_package", d)), d, Msg("uploaded", d))
        /\ chan' = [chan EXCEPT ![d].phase = "uploading"]
     \/ /\ link[d] = "down"
        /\ chan' = [chan EXCEPT ![d].phase = "failed"]
        /\ UNCHANGED <<kps, inbox>>
  /\ UNCHANGED <<importing, claim, starts, mishaps, removals, link>>

\* d takes the next frame, of the given type; Rest is what remains.
Next1(d, type) == inbox[d] # <<>> /\ Head(inbox[d]).type = type
Body(d) == Head(inbox[d]).body
Rest(d) == [inbox EXCEPT ![d] = Tail(@)]
Drop(d) == inbox' = Rest(d)

OnUploaded(d) ==
  /\ Next1(d, "uploaded")
  /\ GroupInfo(d, Rest(d), "group_info")
  /\ chan' = [chan EXCEPT ![d].phase = "asking"]
  /\ UNCHANGED <<mgr, importing, kps, starts, removals, link>>

\* MlsClient.createGroup: the group first, then a fresh CEK, imported later.
StartGroup(d) ==
  /\ CanCreateGroup(mgr[d])
  /\ mgr' = [mgr EXCEPT ![d] = CreateGroup(@)]
  /\ importing' = [importing EXCEPT ![d] = @ \cup {[key |-> mgr[d].me, own |-> TRUE]}]

\* The answer to the first question: the creator makes the group, or join
\* fails if there is one already; others wait.
OnGroupInfo(d) ==
  /\ Next1(d, "group_info")
  /\ Drop(d)
  /\ \/ /\ Body(d) /\ StartGroup(d)
        /\ chan' = [chan EXCEPT ![d].phase = "creating"]
     \/ /\ Body(d) /\ ~CanCreateGroup(mgr[d])
        /\ chan' = [chan EXCEPT ![d].phase = "failed"]
        /\ UNCHANGED <<mgr, importing>>
     \/ /\ ~Body(d)
        /\ chan' = [chan EXCEPT ![d].phase = "waiting"]
        /\ UNCHANGED <<mgr, importing>>
  /\ UNCHANGED <<claim, kps, starts, mishaps, removals, link>>

\* Five seconds have passed: join ends, also when the next question cannot be
\* sent, or asks again who the creator is.
Timeout(d) ==
  /\ chan[d].phase = "waiting"
  /\ \/ /\ chan[d].ready \/ link[d] = "down"
        /\ chan' = [chan EXCEPT ![d].phase = "resolved"]
        /\ UNCHANGED <<inbox, claim, mishaps>>
     \/ /\ ~chan[d].ready /\ link[d] # "down"
        /\ chan' = [chan EXCEPT ![d].phase = "late"]
        /\ claim' \in {Claimed(d), claim}
        /\ inbox' = Reply(inbox, d, Msg("group_info_late", claim' = d))
        /\ mishaps' = mishaps + 1
  /\ UNCHANGED <<mgr, importing, kps, starts, removals, link>>

\* Mutant: the error of createGroup is not caught.
OnGroupInfoLateUncaught(d) ==
  /\ Next1(d, "group_info_late")
  /\ Drop(d)
  /\ \/ /\ ~chan[d].ready /\ StartGroup(d)
        /\ UNCHANGED chan
     \/ /\ chan[d].ready
        /\ chan' = [chan EXCEPT ![d].phase = "resolved"]
        /\ UNCHANGED <<mgr, importing>>
     \/ /\ ~chan[d].ready /\ ~CanCreateGroup(mgr[d])
        /\ UNCHANGED <<chan, mgr, importing>>
  /\ UNCHANGED <<claim, kps, starts, mishaps, removals, link>>

\* Whatever the answer is, d tries to make a group of its own.
OnGroupInfoLate(d) ==
  /\ Next1(d, "group_info_late")
  /\ Drop(d)
  /\ \/ /\ ~chan[d].ready /\ StartGroup(d)
        /\ UNCHANGED chan
     \/ /\ chan[d].ready \/ ~CanCreateGroup(mgr[d])
        /\ chan' = [chan EXCEPT ![d].phase = "resolved"]
        /\ UNCHANGED <<mgr, importing>>
  /\ UNCHANGED <<claim, kps, starts, mishaps, removals, link>>

\* importCek is done, and what follows it in createGroup's caller or in the
\* handler of the CEK; setMlsReady ends the waiting.
ImportCek(d, i) ==
  /\ i \in importing[d]
  /\ importing' = [importing EXCEPT ![d] = @ \ {i}]
  /\ chan' = [chan EXCEPT ![d] =
       [phase |-> IF @.phase \in {"waiting", "late"} \/ (i.own /\ @.phase = "creating")
                  THEN "resolved" ELSE @.phase,
        ready |-> TRUE,
        isGroupCreator |-> @.isGroupCreator \/ i.own,
        cek |-> i.key]]
  /\ UNCHANGED <<mgr, inbox, claim, kps, starts, mishaps, removals, link>>

-----------------------------------------------------------------------------
\* Handlers of broadcasts.

OnCommit(d) ==
  /\ Next1(d, "commit")
  /\ Drop(d)
  /\ \/ /\ CanProcessCommit(mgr[d], Body(d)[1])
        /\ mgr' = [mgr EXCEPT ![d] = ProcessCommit(@, Body(d)[1])]
     \/ /\ ~CanProcessCommit(mgr[d], Body(d)[1])
        /\ UNCHANGED mgr
  /\ UNCHANGED <<chan, importing, claim, kps, starts, mishaps, removals, link>>

OnWelcome(d) ==
  /\ Next1(d, "welcome")
  /\ Drop(d)
  /\ LET welcome == Body(d).welcome[1]
         usable == /\ ~chan[d].ready /\ Body(d).uid = d
                   /\ CanProcessWelcome(mgr[d], welcome)
     IN  \/ usable /\ mgr' = [mgr EXCEPT ![d] = ProcessWelcome(@, welcome)]
         \/ (~usable \/ HasGroup(mgr[d])) /\ UNCHANGED mgr
  /\ UNCHANGED <<chan, importing, claim, kps, starts, mishaps, removals, link>>

\* tryDecryptCek, up to the import of the key.
OnCek(d) ==
  /\ Next1(d, "cek")
  /\ Drop(d)
  /\ importing' = [importing EXCEPT ![d] = @ \cup
       {[key |-> c.content, own |-> FALSE] :
          c \in {c \in {Body(d)} : ~chan[d].ready /\ CanDecrypt(mgr[d], c)}}]
  /\ UNCHANGED <<mgr, chan, claim, kps, starts, mishaps, removals, link>>

\* presence_join and mls:key_package: the creator fetches the key package of
\* the other user, as the first step of addNewMember.
OnNewcomer(d) ==
  /\ Next1(d, "presence_join") \/ Next1(d, "key_package")
  /\ LET uid == Body(d)
     IN  inbox' = IF chan[d].ready /\ chan[d].isGroupCreator /\ uid # d
                  THEN Reply(Rest(d), d, Msg("fetched", [uid |-> uid, package |-> kps[uid]]))
                  ELSE Rest(d)
  /\ UNCHANGED <<mgr, chan, importing, claim, kps, starts, mishaps, removals, link>>

\* addMember: the commit goes to the others first.
OnFetched(d) ==
  /\ Next1(d, "fetched")
  /\ LET uid == Body(d).uid
         package == Body(d).package
         addable == package # NoPackage /\ CanAddMember(mgr[d], package)
     IN  \/ /\ addable
            /\ LET packed == Pack(<<Commit(mgr[d], AddChange(mgr[d], package))>>,
                                  <<Welcome(mgr[d], package)>>)
                   result == UnpackAddMember(packed)
               IN  inbox' = Reply(BroadcastFrom(Rest(d), d, Msg("commit", result.commit)), d,
                                  Msg("committed", [uid |-> uid, welcome |-> result.welcome]))
            /\ mgr' = [mgr EXCEPT ![d] = AddMember(@, package)]
         \/ /\ ~addable
            /\ Drop(d)
            /\ UNCHANGED mgr
  /\ UNCHANGED <<chan, importing, claim, kps, starts, mishaps, removals, link>>

\* ... then the Welcome goes to everyone ...
OnCommitted(d) ==
  /\ Next1(d, "committed")
  /\ inbox' = Reply(Broadcast(Rest(d), Msg("welcome", Body(d))), d, Msg("welcomed", d))
  /\ UNCHANGED <<mgr, chan, importing, claim, kps, starts, mishaps, removals, link>>

\* ... and then the CEK, encrypted for the epoch that the group is in by now.
OnWelcomed(d) ==
  /\ Next1(d, "welcomed")
  /\ inbox' = IF IsOperational(mgr[d])
              THEN Broadcast(Rest(d), Msg("cek", Encrypt(mgr[d], chan[d].cek)))
              ELSE Rest(d)
  /\ UNCHANGED <<mgr, chan, importing, claim, kps, starts, mishaps, removals, link>>

-----------------------------------------------------------------------------
\* The application removes a member: Channel.removeMember.  The manager merges
\* the commit whether or not it can be sent.
Remove(d, who) ==
  /\ removals < MaxRemovals
  /\ chan[d].ready /\ CanRemoveMember(mgr[d], who)
  /\ inbox' = IF link[d] = "down" THEN inbox
              ELSE BroadcastFrom(inbox, d,
                     Msg("commit", <<Commit(mgr[d], RemoveChange(mgr[d], who))>>))
  /\ mgr' = [mgr EXCEPT ![d] = RemoveMember(@, who)]
  /\ removals' = removals + 1
  /\ UNCHANGED <<chan, importing, claim, kps, starts, mishaps, link>>

\* The socket of d breaks: replies and broadcasts on their way are lost.  The
\* call that waits for a reply stays in pendingReplies and join never ends
\* (transport.ts:64-67), unless a key that is being imported ends it.
Break(d) ==
  /\ chan[d].phase # "idle" /\ link[d] # "down" /\ mishaps < MaxMishaps
  /\ link' = [link EXCEPT ![d] = "down"]
  /\ inbox' = [inbox EXCEPT ![d] = <<>>]
  /\ \/ /\ \/ chan[d].phase \in {"joining", "uploading", "asking"}
           \/ chan[d].phase = "late" /\ importing[d] = {}
        /\ chan' = [chan EXCEPT ![d].phase = "stuck"]
     \/ /\ chan[d].phase \notin {"uploading", "asking"}
        /\ chan[d].phase = "late" => importing[d] # {}
        /\ UNCHANGED chan
  /\ mishaps' = mishaps + 1
  /\ UNCHANGED <<mgr, importing, claim, kps, starts, removals>>

\* scheduleReconnect: the topic is joined again; its bindings were deleted with
\* the old id and nothing binds them anew.
Rejoin(d) ==
  /\ link[d] = "down"
  /\ link' = [link EXCEPT ![d] = "deaf"]
  /\ inbox' = BroadcastFrom(inbox, d, Msg("presence_join", d))
  /\ UNCHANGED <<mgr, chan, importing, claim, kps, starts, mishaps, removals>>

\* The page is reloaded: memory is gone, the cache and the database are not.
Reload(d) ==
  /\ chan[d].phase # "idle" /\ starts[d] < MaxStarts /\ mishaps < MaxMishaps
  /\ starts' = [starts EXCEPT ![d] = @ + 1]
  /\ mgr' = [mgr EXCEPT ![d] = NewManager(<<d, starts'[d]>>)]
  /\ chan' = [chan EXCEPT ![d] = NewChannel]
  /\ importing' = [importing EXCEPT ![d] = {}]
  /\ inbox' = [inbox EXCEPT ![d] = <<>>]
  /\ link' = [link EXCEPT ![d] = "up"]
  /\ mishaps' = mishaps + 1
  /\ UNCHANGED <<claim, kps, removals>>

Handle(d) ==
  \/ OnUploaded(d) \/ OnGroupInfo(d) \/ OnGroupInfoLate(d)
  \/ OnCommit(d) \/ OnWelcome(d) \/ OnCek(d)
  \/ OnNewcomer(d) \/ OnFetched(d) \/ OnCommitted(d) \/ OnWelcomed(d)

Next ==
  \/ LoseClaim
  \/ \E d \in Devices :
       \/ Join(d) \/ Upload(d) \/ Handle(d) \/ Timeout(d) \/ Reload(d)
       \/ Break(d) \/ Rejoin(d)
       \/ \E i \in importing[d] : ImportCek(d, i)
       \/ \E who \in Session : Remove(d, who)

Spec == Init /\ [][Next]_vars

\* The gateway answers every frame, the browser runs every callback and timer;
\* sockets may break, and need not come back.
Fairness ==
  \A d \in Devices :
    /\ WF_vars(Upload(d)) /\ WF_vars(Handle(d)) /\ WF_vars(Timeout(d))
    /\ WF_vars(\E i \in importing[d] : ImportCek(d, i))

FairSpec == Spec /\ Fairness

-----------------------------------------------------------------------------
\* Type correctness of devices, cache and database.
TypeOK ==
  /\ chan \in [Devices -> [phase : Phases, ready : BOOLEAN, isGroupCreator : BOOLEAN,
                           cek : Session \cup {NoKey}]]
  /\ importing \in [Devices -> SUBSET [key : Session, own : BOOLEAN]]
  /\ claim \in Devices \cup {NoOne}
  /\ link \in [Devices -> {"up", "down", "deaf"}]
  /\ starts \in [Devices -> 1..MaxStarts]
  /\ mishaps \in Nat /\ removals \in 0..MaxRemovals
  /\ \A d \in Devices : mgr[d].me = <<d, starts[d]>>

\* "All messages are E2EE via MLS" (channel.ts:22): devices that are ready to
\* send use one key, as long as no claim was lost, no page reloaded, no socket
\* broke and no one waited in vain: the claim in the cache admits one creator, whoever joins when.
SharedKey ==
  mishaps = 0 => \A d, e \in Devices :
    chan[d].ready /\ chan[e].ready => chan[d].cek = chan[e].cek

\* A key that a device did not make itself came to it through a group that
\* another member added it to, and never by another way or from a group it
\* made: what is broadcast to the whole channel opens only for invited members.
OnlyInvited ==
  \A d \in Devices :
    chan[d].cek \notin {NoKey, mgr[d].me} =>
      \E i \in DOMAIN mgr[d].group.epoch :
        /\ mgr[d].group.epoch[i].op = "add"
        /\ mgr[d].group.epoch[i].who = mgr[d].me

\* Every join comes to an end, one way or the other, whoever else joins, leaves,
\* reloads or never answers, and also when the socket breaks while join waits
\* for its timer or a key; only the break of the socket under a call that waits
\* for its reply leaves it hanging.
JoinSettles ==
  \A d \in Devices :
    chan[d].phase = "joining" ~>
      chan[d].phase \in {"resolved", "failed", "idle", "stuck"}

\* "Call join() and await it before sending - it blocks until the MLS handshake
\* completes" (channel.ts:23): when join() has returned, the channel is ready.
JoinReady == \A d \in Devices : chan[d].phase = "resolved" => chan[d].ready

\* "CEK is rotated on member removal" (mls.ts:11): a session that a ready member
\* sees as removed does not hold the key this member uses.
CekRotated ==
  \A d, e \in Devices : chan[e].ready =>
    ~ \E i \in DOMAIN mgr[e].group.epoch :
        /\ mgr[e].group.epoch[i].op = "remove"
        /\ mgr[e].group.epoch[i].who = mgr[d].me
        /\ chan[d].cek = chan[e].cek

=============================================================================
