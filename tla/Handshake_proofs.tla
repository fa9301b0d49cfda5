-------------------------- MODULE Handshake_proofs --------------------------
(***************************************************************************)
(* Proofs about the MLS handshake, for any number of devices, page loads,  *)
(* mishaps and removals.                                                   *)
(***************************************************************************)
EXTENDS Handshake, SequenceTheorems, TLAPS

-----------------------------------------------------------------------------
(* Groups and what is sent about them.                                     *)

Packages == [owner : Session, no : Nat]
Managers == [me : Session, generated : Nat, packages : SUBSET Packages,
             group : Groups \cup {NoGroup}]
Commits == [kind : {"commit"}, epoch : Seq(Changes), content : Changes]
Texts == [kind : {"application"}, epoch : Seq(Changes), by : Session, content : Session]
Welcomes == [package : Packages, group : Groups]

Founder(E) == E[1].who
HasAdd(E, x) == \E i \in 1..Len(E) : E[i].op = "add" /\ E[i].who = x
Member(E, x) == x = Founder(E) \/ HasAdd(E, x)

\* An epoch of a group, with the sessions that exist and those of them that are
\* not ready: no group has grown before its founder was ready.
EpochOK(E, born, waiting) ==
  /\ E \in Seq(Changes) /\ Len(E) >= 1 /\ E[1].op = "create"
  /\ Founder(E) \in born
  /\ Len(E) >= 2 => Founder(E) \notin waiting
GroupOK(g, born, waiting) ==
  /\ g \in Groups /\ EpochOK(g.epoch, born, waiting)
  /\ \A x \in g.members : Member(g.epoch, x)
CommitOK(c, born, waiting) ==
  /\ c \in Commits /\ EpochOK(c.epoch, born, waiting)
  /\ Founder(c.epoch) \notin waiting
WelcomeOK(w, born, waiting) ==
  /\ w \in Welcomes /\ GroupOK(w.group, born, waiting)
  /\ HasAdd(w.group.epoch, w.package.owner)
TextOK(t, born, waiting) ==
  /\ t \in Texts /\ EpochOK(t.epoch, born, waiting)
  /\ Member(t.epoch, t.by)

\* What was sound stays so while sessions are born and become ready.
LEMMA SoundStays ==
  ASSUME NEW B, NEW W, NEW B2, NEW W2, B \subseteq B2, W2 \cap B \subseteq W
  PROVE  /\ \A E : EpochOK(E, B, W) => EpochOK(E, B2, W2)
         /\ \A g : GroupOK(g, B, W) => GroupOK(g, B2, W2)
         /\ \A c : CommitOK(c, B, W) => CommitOK(c, B2, W2)
         /\ \A w : WelcomeOK(w, B, W) => WelcomeOK(w, B2, W2)
         /\ \A t : TextOK(t, B, W) => TextOK(t, B2, W2)
<1>1. \A E : EpochOK(E, B, W) => EpochOK(E, B2, W2)
  BY DEF EpochOK
<1>2. \A g : GroupOK(g, B, W) => GroupOK(g, B2, W2)
  BY <1>1 DEF GroupOK
<1>3. \A c : CommitOK(c, B, W) => CommitOK(c, B2, W2)
  <2> SUFFICES ASSUME NEW c, CommitOK(c, B, W) PROVE CommitOK(c, B2, W2)
    OBVIOUS
  <2>1. Founder(c.epoch) \in B
    BY DEF CommitOK, EpochOK
  <2> QED
    BY <1>1, <2>1 DEF CommitOK
<1>4. \A w : WelcomeOK(w, B, W) => WelcomeOK(w, B2, W2)
  BY <1>2 DEF WelcomeOK
<1>5. \A t : TextOK(t, B, W) => TextOK(t, B2, W2)
  BY <1>1 DEF TextOK
<1> QED
  BY <1>1, <1>2, <1>3, <1>4, <1>5

\* A founder that is alone, or somebody in a group that has grown: when a
\* member is ready, the founder is.
LEMMA ReadyFounder ==
  ASSUME NEW B, NEW W, NEW g, GroupOK(g, B, W), NEW me \in g.members, me \notin W
  PROVE  Founder(g.epoch) \notin W
<1>1. EpochOK(g.epoch, B, W) /\ Member(g.epoch, me)
  BY DEF GroupOK
<1>2. CASE Len(g.epoch) >= 2
  BY <1>1, <1>2 DEF EpochOK
<1>3. CASE ~(Len(g.epoch) >= 2)
  <2>1. Len(g.epoch) = 1
    <3>1. g.epoch \in Seq(Changes) /\ Len(g.epoch) >= 1
      BY <1>1 DEF EpochOK
    <3>2. Len(g.epoch) \in Nat
      BY <3>1, LenProperties
    <3>3. PICK n \in Nat : n = Len(g.epoch)
      BY <3>2
    <3>4. n >= 1 /\ ~(n >= 2)
      BY <1>3, <3>1, <3>3
    <3>5. n = 1
      BY <3>4
    <3> QED
      BY <3>3, <3>5
  <2>2. ~HasAdd(g.epoch, me)
    BY <1>1, <2>1 DEF HasAdd, EpochOK
  <2> QED
    BY <1>1, <2>2 DEF Member
<1> QED
  BY <1>2, <1>3

\* A member that is not ready and reads what another member sent was added.
LEMMA ReaderInvited ==
  ASSUME NEW B, NEW W, NEW E, EpochOK(E, B, W), NEW me \in W, NEW by, by # me,
         Member(E, me), Member(E, by)
  PROVE  HasAdd(E, me)
<1> SUFFICES ASSUME ~HasAdd(E, me) PROVE FALSE
  OBVIOUS
<1>1. Founder(E) = me /\ HasAdd(E, by)
  BY DEF Member
<1>2. PICK i \in 1..Len(E) : E[i].op = "add"
  BY <1>1 DEF HasAdd
<1>3. E[1].op = "create" /\ Len(E) \in Nat
  BY LenProperties DEF EpochOK
<1>4. i # 1
  BY <1>2, <1>3
<1>5. Len(E) >= 2
  BY <1>3, <1>4
<1> QED
  BY <1>1, <1>5 DEF EpochOK

\* A change extends the epoch of a group.
LEMMA AfterOK ==
  ASSUME NEW B, NEW W, NEW g, GroupOK(g, B, W), Founder(g.epoch) \notin W,
         NEW c \in Changes
  PROVE  /\ GroupOK(After(g, c), B, W)
         /\ \A x : HasAdd(g.epoch, x) => HasAdd(After(g, c).epoch, x)
         /\ c.op = "add" => HasAdd(After(g, c).epoch, c.who)
<1> DEFINE E == g.epoch
           F == Append(E, c)
           M == IF c.op = "add" THEN g.members \cup {c.who} ELSE g.members \ {c.who}
           a == After(g, c)
<1>1. E \in Seq(Changes) /\ Len(E) \in Nat /\ Len(E) >= 1 /\ g.members \in SUBSET Session
  BY LenProperties DEF GroupOK, EpochOK, Groups
<1>2. c.who \in Session
  BY DEF Changes
<1>3. a.epoch = F /\ a.members = M /\ a = [epoch |-> F, members |-> M]
  BY DEF After
<1> HIDE DEF a, E
<1>4. F \in Seq(Changes) /\ Len(F) = Len(E) + 1 /\ F[Len(E) + 1] = c
      /\ \A i \in 1..Len(E) : F[i] = E[i]
  BY <1>1, AppendProperties
<1>5. a \in Groups
  BY <1>1, <1>2, <1>3, <1>4 DEF Groups
<1> HIDE DEF F
<1>6. F[1] = E[1] /\ Founder(F) = Founder(E)
  BY <1>1, <1>4 DEF Founder
<1>7. EpochOK(F, B, W)
  <2>1. EpochOK(E, B, W) /\ Founder(E) \notin W
    BY DEF GroupOK, E
  <2> QED
    BY <1>1, <1>4, <1>6, <2>1 DEF EpochOK
<1>8. \A x : HasAdd(E, x) => HasAdd(F, x)
  <2> SUFFICES ASSUME NEW x, HasAdd(E, x) PROVE HasAdd(F, x)
    OBVIOUS
  <2>1. PICK i \in 1..Len(E) : E[i].op = "add" /\ E[i].who = x
    BY DEF HasAdd
  <2>2. i \in 1..Len(F) /\ F[i] = E[i]
    BY <1>1, <1>4
  <2> QED
    BY <2>1, <2>2 DEF HasAdd
<1>9. c.op = "add" => HasAdd(F, c.who)
  <2>1. Len(E) + 1 \in 1..Len(F)
    BY <1>1, <1>4
  <2> QED
    BY <1>4, <2>1 DEF HasAdd
<1>10. ASSUME NEW x \in M PROVE Member(F, x)
  <2>1. CASE x \in g.members
    <3>1. Member(E, x)
      BY <2>1 DEF GroupOK, E
    <3> QED
      BY <1>6, <1>8, <3>1 DEF Member
  <2>2. CASE x \notin g.members
    BY <1>9, <2>2 DEF Member
  <2> QED
    BY <2>1, <2>2
<1>11. GroupOK(a, B, W)
  BY <1>3, <1>5, <1>7, <1>10 DEF GroupOK
<1> QED
  BY <1>3, <1>8, <1>9, <1>11 DEF a, E

-----------------------------------------------------------------------------
(* The inductive invariant.                                                *)

Chans == [phase : Phases, ready : BOOLEAN, isGroupCreator : BOOLEAN,
          cek : Session \cup {NoKey}]
Imports == [key : Session, own : BOOLEAN]
Invitations == [uid : Devices, welcome : Seq(Welcomes)]
Fetched == [uid : Devices, package : Packages \cup {NoPackage}]
Types == {"presence_join", "key_package", "uploaded", "welcomed", "group_info",
          "group_info_late", "commit", "welcome", "committed", "cek", "fetched"}
Bodies == Devices \cup BOOLEAN \cup Seq(Commits) \cup Invitations \cup Texts \cup Fetched
Messages == [type : Types, body : Bodies]

Typed ==
  /\ mgr \in [Devices -> Managers]
  /\ chan \in [Devices -> Chans]
  /\ importing \in [Devices -> SUBSET Imports]
  /\ inbox \in [Devices -> Seq(Messages)]
  /\ claim \in Devices \cup {NoOne}
  /\ kps \in [Devices -> Packages \cup {NoPackage}]
  /\ starts \in [Devices -> 1..MaxStarts]
  /\ mishaps \in Nat /\ removals \in 0..MaxRemovals
  /\ \A d \in Devices : mgr[d].me = <<d, starts[d]>>

\* The sessions so far, and those that run and are not ready.
Born == {s \in Session : s[2] <= starts[s[1]]}
Waiting == {mgr[d].me : d \in {e \in Devices : ~chan[e].ready}}

Mail(q, d) == {q[d][i] : i \in 1..Len(q[d])}

\* A message for a device that is ready or not.
MsgOK(m, born, waiting, ready) ==
  /\ m.type = "commit" => CommitOK(m.body[1], born, waiting)
  /\ m.type \in {"welcome", "committed"} =>
       m.body \in Invitations /\ WelcomeOK(m.body.welcome[1], born, waiting)
  /\ m.type = "cek" => TextOK(m.body, born, waiting)
  /\ m.type \in {"presence_join", "key_package"} => m.body \in Devices
  /\ m.type = "fetched" => m.body \in Fetched
  /\ m.type \in {"fetched", "committed", "welcomed"} => ready

\* Another member added the session of this manager to its group.
Invited(m) == HasGroup(m) /\ HasAdd(m.group.epoch, m.me)

Sound ==
  /\ \A d \in Devices : \A p \in mgr[d].packages : p.owner = mgr[d].me
  /\ \A d \in Devices : HasGroup(mgr[d]) => GroupOK(mgr[d].group, Born, Waiting)
  /\ \A d \in Devices : \A m \in Mail(inbox, d) : MsgOK(m, Born, Waiting, chan[d].ready)
  /\ \A d \in Devices : \A i \in importing[d] : i.key = mgr[d].me \/ Invited(mgr[d])
  /\ \A d \in Devices : chan[d].cek \in {NoKey, mgr[d].me} \/ Invited(mgr[d])
  /\ \A d \in Devices : chan[d].ready => chan[d].cek \in Session

\* Without a mishap there is one founder, the device of the claim, and one key.
KeyOf(c) == <<c, 1>>
KeyMsgOK(m, d, c) ==
  /\ m.type # "group_info_late"
  /\ m.type = "group_info" => (m.body = TRUE => c = d) /\ m.body \in BOOLEAN
  /\ m.type = "cek" => c \in Devices /\ m.body.content = KeyOf(c)
OneKey ==
  /\ \A d \in Devices : starts[d] = 1
  /\ \A d \in Devices : \A i \in importing[d] : claim \in Devices /\ i.key = KeyOf(claim)
  /\ \A d \in Devices : chan[d].ready => claim \in Devices /\ chan[d].cek = KeyOf(claim)
  /\ \A d \in Devices : \A m \in Mail(inbox, d) : KeyMsgOK(m, d, claim)

HandInv == Typed /\ Sound /\ (mishaps = 0 => OneKey)

-----------------------------------------------------------------------------
(* Inboxes.                                                                *)

Inboxes == [Devices -> Seq(Messages)]

\* A reply is the only new message.
LEMMA ReplyMail ==
  ASSUME NEW q \in Inboxes, NEW d \in Devices, NEW msg \in Messages
  PROVE  /\ Reply(q, d, msg) \in Inboxes
         /\ \A e \in Devices : Mail(Reply(q, d, msg), e) \subseteq
              Mail(q, e) \cup (IF e = d THEN {msg} ELSE {})
<1> DEFINE r == Reply(q, d, msg)
<1>1. q[d] \in Seq(Messages) /\ Len(q[d]) \in Nat
  BY LenProperties DEF Inboxes
<1>2. Append(q[d], msg) \in Seq(Messages)
  BY <1>1
<1>3. r \in Inboxes /\ r[d] = Append(q[d], msg) /\ \A e \in Devices : e # d => r[e] = q[e]
  BY <1>2 DEF Reply, Inboxes
<1>4. Len(r[d]) = Len(q[d]) + 1 /\ r[d][Len(q[d]) + 1] = msg
      /\ \A i \in 1..Len(q[d]) : r[d][i] = q[d][i]
  BY <1>1, <1>3, AppendProperties
<1> HIDE DEF r
<1>5. ASSUME NEW i \in 1..Len(r[d]) PROVE r[d][i] \in Mail(q, d) \cup {msg}
  <2>1. CASE i = Len(q[d]) + 1
    BY <1>4, <2>1
  <2>2. CASE i # Len(q[d]) + 1
    <3>1. i \in 1..Len(q[d])
      BY <1>1, <1>4, <2>2
    <3> QED
      BY <1>4, <3>1 DEF Mail
  <2> QED
    BY <2>1, <2>2
<1>6. Mail(r, d) \subseteq Mail(q, d) \cup {msg}
  BY <1>5 DEF Mail
<1>7. \A e \in Devices : e # d => Mail(r, e) = Mail(q, e)
  BY <1>3 DEF Mail
<1> QED
  BY <1>3, <1>6, <1>7 DEF r

\* A broadcast brings one message to some devices.
Spread(q, to, msg) == [e \in Devices |-> IF e \in to THEN Append(q[e], msg) ELSE q[e]]

LEMMA SpreadMail ==
  ASSUME NEW q \in Inboxes, NEW to, NEW msg \in Messages
  PROVE  /\ Spread(q, to, msg) \in Inboxes
         /\ \A e \in Devices : Mail(Spread(q, to, msg), e) \subseteq Mail(q, e) \cup {msg}
<1> DEFINE r == Spread(q, to, msg)
<1>0. r = [e \in Devices |-> IF e \in to THEN Append(q[e], msg) ELSE q[e]]
  BY DEF Spread
<1> HIDE DEF r
<1>1. \A e \in Devices : q[e] \in Seq(Messages) /\ Len(q[e]) \in Nat
                         /\ Append(q[e], msg) \in Seq(Messages)
  BY LenProperties DEF Inboxes
<1>2. r \in Inboxes
  BY <1>0, <1>1 DEF Inboxes
<1>3. ASSUME NEW e \in Devices, e \in to PROVE Mail(r, e) \subseteq Mail(q, e) \cup {msg}
  <2>1. r[e] = Append(q[e], msg)
    BY <1>0, <1>3
  <2>2. Len(r[e]) = Len(q[e]) + 1 /\ r[e][Len(q[e]) + 1] = msg
        /\ \A i \in 1..Len(q[e]) : r[e][i] = q[e][i]
    BY <1>1, <2>1, AppendProperties
  <2>3. ASSUME NEW i \in 1..Len(r[e]) PROVE r[e][i] \in Mail(q, e) \cup {msg}
    <3>1. CASE i = Len(q[e]) + 1
      BY <2>2, <3>1
    <3>2. CASE i # Len(q[e]) + 1
      <4>1. i \in 1..Len(q[e])
        BY <1>1, <2>2, <3>2
      <4> QED
        BY <2>2, <4>1 DEF Mail
    <3> QED
      BY <3>1, <3>2
  <2> QED
    BY <2>3 DEF Mail
<1>4. ASSUME NEW e \in Devices, e \notin to PROVE Mail(r, e) = Mail(q, e)
  BY <1>0, <1>4 DEF Mail
<1> QED
  BY <1>2, <1>3, <1>4 DEF r

\* Both kinds of broadcast.
LEMMA BroadcastMail ==
  ASSUME NEW q \in Inboxes, NEW d \in Devices, NEW msg \in Messages
  PROVE  /\ Broadcast(q, msg) \in Inboxes /\ BroadcastFrom(q, d, msg) \in Inboxes
         /\ \A e \in Devices : Mail(Broadcast(q, msg), e) \subseteq Mail(q, e) \cup {msg}
         /\ \A e \in Devices : Mail(BroadcastFrom(q, d, msg), e) \subseteq Mail(q, e) \cup {msg}
<1>1. PICK to : to = Subscribed
  OBVIOUS
<1>2. Broadcast(q, msg) = Spread(q, to, msg)
      /\ BroadcastFrom(q, d, msg) = Spread(q, to \ {d}, msg)
  BY <1>1 DEF Broadcast, BroadcastFrom, Spread
<1>3. /\ Spread(q, to, msg) \in Inboxes
      /\ \A e \in Devices : Mail(Spread(q, to, msg), e) \subseteq Mail(q, e) \cup {msg}
  BY SpreadMail
<1>4. /\ Spread(q, to \ {d}, msg) \in Inboxes
      /\ \A e \in Devices : Mail(Spread(q, to \ {d}, msg), e) \subseteq Mail(q, e) \cup {msg}
  BY SpreadMail
<1> QED
  BY <1>2, <1>3, <1>4

\* The next message of a device, and what remains.
LEMMA RestMail ==
  ASSUME inbox \in Inboxes, NEW d \in Devices, inbox[d] # <<>>
  PROVE  /\ Rest(d) \in Inboxes
         /\ \A e \in Devices : Mail(Rest(d), e) \subseteq Mail(inbox, e)
         /\ Head(inbox[d]) \in Mail(inbox, d) /\ Head(inbox[d]) \in Messages
<1> DEFINE s == inbox[d]
           r == Rest(d)
<1>1. s \in Seq(Messages) /\ Len(s) \in Nat
  BY LenProperties DEF Inboxes
<1>2. Tail(s) \in Seq(Messages) /\ Len(s) >= 1 /\ Head(s) = s[1] /\ Head(s) \in Messages
  BY <1>1
<1>3. Len(Tail(s)) = Len(s) - 1 /\ \A i \in 1..(Len(s) - 1) : Tail(s)[i] = s[i + 1]
  BY <1>1, HeadTailProperties
<1>4. r \in Inboxes /\ r[d] = Tail(s) /\ \A e \in Devices : e # d => r[e] = inbox[e]
  BY <1>2 DEF Rest, Inboxes
<1>5. Head(s) \in Mail(inbox, d)
  <2>1. 1 \in 1..Len(s)
    BY <1>1, <1>2
  <2> QED
    BY <1>2, <2>1 DEF Mail
<1> HIDE DEF r
<1>6. ASSUME NEW i \in 1..Len(r[d]) PROVE r[d][i] \in Mail(inbox, d)
  <2>1. i \in 1..(Len(s) - 1) /\ i + 1 \in 1..Len(s) /\ r[d][i] = s[i + 1]
    BY <1>1, <1>2, <1>3, <1>4
  <2> QED
    BY <2>1 DEF Mail
<1>7. \A e \in Devices : e # d => Mail(r, e) = Mail(inbox, e)
  BY <1>4 DEF Mail
<1>8. Mail(r, d) \subseteq Mail(inbox, d)
  BY <1>6 DEF Mail
<1> QED
  BY <1>2, <1>4, <1>5, <1>7, <1>8 DEF r

\* A broadcast and a reply to its sender.
LEMMA SendMail ==
  ASSUME NEW q \in Inboxes, NEW d \in Devices, NEW m \in Messages, NEW n \in Messages
  PROVE  /\ Reply(Broadcast(q, m), d, n) \in Inboxes
         /\ Reply(BroadcastFrom(q, d, m), d, n) \in Inboxes
         /\ \A e \in Devices : Mail(Reply(Broadcast(q, m), d, n), e) \subseteq
              Mail(q, e) \cup {m} \cup (IF e = d THEN {n} ELSE {})
         /\ \A e \in Devices : Mail(Reply(BroadcastFrom(q, d, m), d, n), e) \subseteq
              Mail(q, e) \cup {m} \cup (IF e = d THEN {n} ELSE {})
<1>1. PICK b : b = Broadcast(q, m)
  OBVIOUS
<1>2. PICK f : f = BroadcastFrom(q, d, m)
  OBVIOUS
<1>3. b \in Inboxes /\ \A e \in Devices : Mail(b, e) \subseteq Mail(q, e) \cup {m}
  BY <1>1, BroadcastMail
<1>4. f \in Inboxes /\ \A e \in Devices : Mail(f, e) \subseteq Mail(q, e) \cup {m}
  BY <1>2, BroadcastMail
<1>5. Reply(b, d, n) \in Inboxes /\ \A e \in Devices : Mail(Reply(b, d, n), e) \subseteq
        Mail(b, e) \cup (IF e = d THEN {n} ELSE {})
  BY <1>3, ReplyMail
<1>6. Reply(f, d, n) \in Inboxes /\ \A e \in Devices : Mail(Reply(f, d, n), e) \subseteq
        Mail(f, e) \cup (IF e = d THEN {n} ELSE {})
  BY <1>4, ReplyMail
<1>7. \A e \in Devices : Mail(Reply(b, d, n), e) \subseteq
        Mail(q, e) \cup {m} \cup (IF e = d THEN {n} ELSE {})
  BY <1>3, <1>5
<1>8. \A e \in Devices : Mail(Reply(f, d, n), e) \subseteq
        Mail(q, e) \cup {m} \cup (IF e = d THEN {n} ELSE {})
  BY <1>4, <1>6
<1> QED
  BY <1>1, <1>2, <1>5, <1>6, <1>7, <1>8


-----------------------------------------------------------------------------
(* How the parts of the invariant survive a step.                          *)

\* Sessions are only born, and those that exist only become ready.
LEMMA SessionsGrow ==
  ASSUME Typed, Typed', starts' = starts,
         \A e \in Devices : chan[e].ready => chan'[e].ready
  PROVE  Born' = Born /\ Waiting' \subseteq Waiting
<1>1. \A e \in Devices : mgr'[e].me = mgr[e].me
  BY DEF Typed
<1> QED
  BY <1>1 DEF Born, Waiting

\* MsgOK stays.
LEMMA MsgStays ==
  ASSUME NEW B, NEW W, NEW B2, NEW W2, B \subseteq B2, W2 \cap B \subseteq W,
         NEW r, NEW r2, r => r2, NEW m, MsgOK(m, B, W, r)
  PROVE  MsgOK(m, B2, W2, r2)
<1>1. m.type = "commit" => CommitOK(m.body[1], B2, W2)
  BY SoundStays DEF MsgOK
<1>2. m.type \in {"welcome", "committed"} =>
        m.body \in Invitations /\ WelcomeOK(m.body.welcome[1], B2, W2)
  BY SoundStays DEF MsgOK
<1>3. m.type = "cek" => TextOK(m.body, B2, W2)
  BY SoundStays DEF MsgOK
<1>4. m.type \in {"fetched", "committed", "welcomed"} => r2
  BY DEF MsgOK
<1> QED
  BY <1>1, <1>2, <1>3, <1>4 DEF MsgOK

\* A step of device d that is no reload.
LEMMA SoundStep ==
  ASSUME Typed, Sound, Typed', NEW d \in Devices, starts' = starts,
         \A e \in Devices \ {d} :
           mgr'[e] = mgr[e] /\ chan'[e] = chan[e] /\ importing'[e] = importing[e],
         chan[d].ready => chan'[d].ready,
         \A p \in mgr'[d].packages : p.owner = mgr[d].me,
         HasGroup(mgr'[d]) => GroupOK(mgr'[d].group, Born, Waiting),
         \A e \in Devices : \A m \in Mail(inbox', e) :
           m \in Mail(inbox, e) \/ MsgOK(m, Born, Waiting, chan[e].ready),
         \A i \in importing'[d] : i.key = mgr[d].me \/ Invited(mgr'[d]),
         chan'[d].cek \in {NoKey, mgr[d].me} \/ Invited(mgr'[d]),
         chan'[d].ready => chan'[d].cek \in Session
  PROVE  Sound'
<1>1. Born' = Born /\ Waiting' \subseteq Waiting
  BY SessionsGrow
<1>2. \A e \in Devices : mgr'[e].me = mgr[e].me
  BY DEF Typed
<1>3. PICK B : B = Born
  OBVIOUS
<1>4. PICK W : W = Waiting
  OBVIOUS
<1>5. PICK W2 : W2 = Waiting'
  OBVIOUS
<1>6. Born' = B /\ W2 \cap B \subseteq W
  BY <1>1, <1>3, <1>4, <1>5
<1>7. \A e \in Devices : \A p \in mgr'[e].packages : p.owner = mgr'[e].me
  BY <1>2 DEF Sound
<1>8. \A e \in Devices : HasGroup(mgr'[e]) => GroupOK(mgr'[e].group, B, W2)
  <2>1. \A e \in Devices : HasGroup(mgr'[e]) => GroupOK(mgr'[e].group, B, W)
    BY <1>3, <1>4 DEF Sound
  <2> QED
    BY <1>6, <2>1, SoundStays
<1>9. ASSUME NEW e \in Devices, NEW m \in Mail(inbox', e)
      PROVE  MsgOK(m, B, W2, chan'[e].ready)
  <2>1. MsgOK(m, B, W, chan[e].ready)
    BY <1>3, <1>4 DEF Sound
  <2>2. chan[e].ready => chan'[e].ready
    OBVIOUS
  <2>3. PICK r : r = chan[e].ready
    OBVIOUS
  <2>4. PICK r2 : r2 = chan'[e].ready
    OBVIOUS
  <2>5. MsgOK(m, B, W, r) /\ (r => r2)
    BY <2>1, <2>2, <2>3, <2>4
  <2>6. MsgOK(m, B, W2, r2)
    BY <1>6, <2>5, MsgStays
  <2> QED
    BY <2>4, <2>6
<1>10. \A e \in Devices : \A i \in importing'[e] : i.key = mgr'[e].me \/ Invited(mgr'[e])
  BY <1>2 DEF Sound
<1>11. \A e \in Devices : chan'[e].cek \in {NoKey, mgr'[e].me} \/ Invited(mgr'[e])
  BY <1>2 DEF Sound
<1>12. \A e \in Devices : chan'[e].ready => chan'[e].cek \in Session
  BY DEF Sound
<1>13. \A e \in Devices : \A m \in Mail(inbox', e) : MsgOK(m, B, W2, chan'[e].ready)
  BY <1>9
<1> QED
  BY <1>5, <1>6, <1>7, <1>8, <1>10, <1>11, <1>12, <1>13 DEF Sound, Mail, HasGroup, Invited

\* A step that only changes what is under way.
LEMMA QuietStep ==
  ASSUME Typed, Sound, Typed', mgr' = mgr, importing' = importing, starts' = starts,
         \A e \in Devices : chan'[e].ready = chan[e].ready /\ chan'[e].cek = chan[e].cek,
         \A e \in Devices : \A m \in Mail(inbox', e) :
           m \in Mail(inbox, e) \/ MsgOK(m, Born, Waiting, chan[e].ready)
  PROVE  Sound'
<1>1. Born' = Born /\ Waiting' = Waiting
  BY DEF Born, Waiting
<1>2. \A e \in Devices : \A m \in Mail(inbox', e) : MsgOK(m, Born, Waiting, chan[e].ready)
  BY DEF Sound
<1>3. \A e \in Devices : \A m \in Mail(inbox', e) : MsgOK(m, Born', Waiting', chan'[e].ready)
  BY <1>1, <1>2
<1> QED
  BY <1>1, <1>3 DEF Sound, Mail, HasGroup, Invited

\* A step before the first mishap.
LEMMA KeyStep ==
  ASSUME OneKey, Typed, starts' = starts, claim \in Devices => claim' = claim,
         \A e \in Devices : \A i \in importing'[e] :
           i \in importing[e] \/ (claim' \in Devices /\ i.key = KeyOf(claim')),
         \A e \in Devices : chan'[e].ready =>
           \/ chan[e].ready /\ chan'[e].cek = chan[e].cek
           \/ claim' \in Devices /\ chan'[e].cek = KeyOf(claim'),
         \A e \in Devices : \A m \in Mail(inbox', e) :
           m \in Mail(inbox, e) \/ KeyMsgOK(m, e, claim')
  PROVE  OneKey'
<1>1. \A e \in Devices : starts'[e] = 1
  BY DEF OneKey
<1>2. \A e \in Devices : \A i \in importing'[e] : claim' \in Devices /\ i.key = KeyOf(claim')
  BY DEF OneKey
<1>3. \A e \in Devices : chan'[e].ready => claim' \in Devices /\ chan'[e].cek = KeyOf(claim')
  BY DEF OneKey
<1>4. ASSUME NEW e \in Devices, NEW m \in Mail(inbox', e) PROVE KeyMsgOK(m, e, claim')
  <2>1. CASE KeyMsgOK(m, e, claim')
    BY <2>1
  <2>2. CASE KeyMsgOK(m, e, claim)
    <3>1. CASE claim \in Devices
      BY <2>2, <3>1
    <3>2. CASE claim \notin Devices
      BY <2>2, <3>2 DEF KeyMsgOK
    <3> QED
      BY <3>1, <3>2
  <2> QED
    BY <2>1, <2>2 DEF OneKey
<1>5. \A e \in Devices : \A m \in Mail(inbox', e) : KeyMsgOK(m, e, claim')
  BY <1>4
<1> QED
  BY <1>1, <1>2, <1>3, <1>5 DEF OneKey, Mail, KeyMsgOK, KeyOf


\* The same when no key and no readiness changes.
LEMMA QuietKey ==
  ASSUME OneKey, Typed, starts' = starts, claim \in Devices => claim' = claim,
         importing' = importing,
         \A e \in Devices : chan'[e].ready = chan[e].ready /\ chan'[e].cek = chan[e].cek,
         \A e \in Devices : \A m \in Mail(inbox', e) :
           m \in Mail(inbox, e) \/ KeyMsgOK(m, e, claim')
  PROVE  OneKey'
<1>0. ASSUME NEW e \in Devices, NEW i \in importing'[e] PROVE i \in importing[e]
  OBVIOUS
<1>1. \A e \in Devices : \A i \in importing'[e] :
        i \in importing[e] \/ (claim' \in Devices /\ i.key = KeyOf(claim'))
  BY <1>0
<1>2. \A e \in Devices : chan'[e].ready =>
        \/ chan[e].ready /\ chan'[e].cek = chan[e].cek
        \/ claim' \in Devices /\ chan'[e].cek = KeyOf(claim')
  OBVIOUS
<1> QED
  BY <1>1, <1>2, KeyStep

\* The fields of a message, and the messages about which little is said.
LEMMA MsgFields ==
  ASSUME NEW t, NEW b
  PROVE  /\ Msg(t, b).type = t /\ Msg(t, b).body = b
         /\ t \in Types /\ b \in Bodies => Msg(t, b) \in Messages
BY DEF Msg, Messages

LEMMA PlainMsg ==
  ASSUME NEW t \in {"presence_join", "key_package", "uploaded", "group_info", "group_info_late"},
         NEW b, t \in {"presence_join", "key_package"} => b \in Devices,
         NEW B, NEW W, NEW r
  PROVE  MsgOK(Msg(t, b), B, W, r)
BY DEF Msg, MsgOK

LEMMA PlainKeyMsg ==
  ASSUME NEW t, t \notin {"group_info", "group_info_late", "cek"}, NEW b, NEW d, NEW c
  PROVE  KeyMsgOK(Msg(t, b), d, c)
BY DEF Msg, KeyMsgOK

\* A step of join that changes the phase.
LEMMA PhaseChange ==
  ASSUME chan \in [Devices -> Chans], NEW d \in Devices, NEW p \in Phases,
         chan' = [chan EXCEPT ![d].phase = p]
  PROVE  /\ chan' \in [Devices -> Chans]
         /\ \A e \in Devices : chan'[e].ready = chan[e].ready /\ chan'[e].cek = chan[e].cek
BY DEF Chans

-----------------------------------------------------------------------------
(* The cache and the steps of Channel.join.                                *)

LEMMA LoseClaimInv ==
  ASSUME HandInv, LoseClaim
  PROVE  HandInv'
<1>1. Typed'
  BY DEF HandInv, LoseClaim, Typed
<1>2. Sound'
  BY <1>1, QuietStep DEF HandInv, LoseClaim
<1>3. mishaps' # 0
  BY DEF HandInv, LoseClaim, Typed
<1> QED
  BY <1>1, <1>2, <1>3 DEF HandInv

LEMMA JoinInv ==
  ASSUME HandInv, NEW d \in Devices, Join(d)
  PROVE  HandInv'
<1> USE DEF HandInv
<1>1. PICK m : m = Msg("presence_join", d)
  OBVIOUS
<1>2. m \in Messages
  BY <1>1, MsgFields DEF Types, Bodies
<1>3. inbox \in Inboxes
  BY DEF Typed, Inboxes
<1>4. inbox' \in Inboxes /\ \A e \in Devices : Mail(inbox', e) \subseteq Mail(inbox, e) \cup {m}
  BY <1>1, <1>2, <1>3, BroadcastMail DEF Join
<1>5. /\ chan' \in [Devices -> Chans]
      /\ \A e \in Devices : chan'[e].ready = chan[e].ready /\ chan'[e].cek = chan[e].cek
  BY PhaseChange DEF Join, Typed, Phases
<1>6. Typed'
  BY <1>4, <1>5 DEF Join, Typed, Inboxes
<1>7. \A e \in Devices : MsgOK(m, Born, Waiting, chan[e].ready)
  BY <1>1, PlainMsg
<1>8. Sound'
  BY <1>4, <1>5, <1>6, <1>7, QuietStep DEF Join
<1>9. \A e \in Devices : KeyMsgOK(m, e, claim')
  BY <1>1, PlainKeyMsg
<1>10. ASSUME OneKey PROVE OneKey'
  BY <1>4, <1>5, <1>9, <1>10, QuietKey DEF Join
<1> QED
  BY <1>6, <1>8, <1>10 DEF Join

\* A package that d generates is its own; its group stays.
LEMMA UploadInv ==
  ASSUME HandInv, NEW d \in Devices, Upload(d)
  PROVE  HandInv'
<1> USE DEF HandInv
<1> DEFINE g == mgr[d]
           h == mgr'[d]
<1>1. PICK m : m = Msg("key_package", d)
  OBVIOUS
<1>2. PICK n : n = Msg("uploaded", d)
  OBVIOUS
<1>3. m \in Messages /\ n \in Messages
  BY <1>1, <1>2, MsgFields DEF Types, Bodies
<1>4. inbox \in Inboxes
  BY DEF Typed, Inboxes
<1>5. inbox' \in Inboxes /\ \A e \in Devices : Mail(inbox', e) \subseteq
        Mail(inbox, e) \cup {m} \cup (IF e = d THEN {n} ELSE {})
  BY <1>1, <1>2, <1>3, <1>4, SendMail DEF Upload
<1>6. /\ chan' \in [Devices -> Chans]
      /\ \A e \in Devices : chan'[e].ready = chan[e].ready /\ chan'[e].cek = chan[e].cek
  BY PhaseChange DEF Upload, Typed, Phases
<1>7. g \in Managers /\ g.me \in Session /\ g.generated \in Nat
      /\ g.packages \in SUBSET Packages
  BY DEF Typed, Managers
<1>8. NextPackage(g) \in Packages /\ NextPackage(g).owner = g.me
  BY <1>7 DEF NextPackage, Packages
<1>9. /\ h.me = g.me /\ h.group = g.group /\ h.packages = g.packages \cup {NextPackage(g)}
      /\ h \in Managers /\ mgr' \in [Devices -> Managers]
      /\ \A e \in Devices \ {d} : mgr'[e] = mgr[e]
  <2>1. mgr \in [Devices -> Managers] /\ mgr' = [mgr EXCEPT ![d] = GenerateKeyPackage(g)]
    BY DEF Upload, Typed
  <2>2. h = GenerateKeyPackage(g) /\ \A e \in Devices \ {d} : mgr'[e] = mgr[e]
    BY <2>1
  <2>3. PICK np : np = NextPackage(g)
    OBVIOUS
  <2>4. GenerateKeyPackage(g) =
          [g EXCEPT !.generated = g.generated + 1, !.packages = g.packages \cup {np}]
    BY <2>3 DEF GenerateKeyPackage
  <2> HIDE DEF g, h
  <2>5. h = [g EXCEPT !.generated = g.generated + 1, !.packages = g.packages \cup {np}]
    BY <2>2, <2>4
  <2>6. h.me = g.me /\ h.group = g.group /\ h.packages = g.packages \cup {np}
        /\ h.generated = g.generated + 1
        /\ h = [me |-> h.me, generated |-> h.generated, packages |-> h.packages,
                group |-> h.group]
    BY <1>7, <2>5 DEF Managers
  <2>7. h.group \in Groups \cup {NoGroup} /\ h.packages \in SUBSET Packages
        /\ h.generated \in Nat /\ h.me \in Session
    BY <1>7, <1>8, <2>3, <2>6 DEF Managers
  <2>8. h \in Managers
    BY <2>6, <2>7 DEF Managers
  <2> QED
    BY <2>1, <2>2, <2>3, <2>6, <2>8 DEF g, h
<1> HIDE DEF g, h
<1>10. kps' \in [Devices -> Packages \cup {NoPackage}]
  BY <1>8 DEF Upload, Typed, g
<1>11. \A e \in Devices : mgr'[e].me = mgr[e].me /\ mgr'[e].group = mgr[e].group
  BY <1>9 DEF g, h
<1>12. Typed'
  BY <1>5, <1>6, <1>9, <1>10, <1>11 DEF Upload, Typed, Inboxes
<1>13. \A e \in Devices : MsgOK(m, Born, Waiting, chan[e].ready)
                          /\ MsgOK(n, Born, Waiting, chan[e].ready)
  BY <1>1, <1>2, PlainMsg
<1>14. Born' = Born /\ Waiting' = Waiting
  BY <1>6, <1>11 DEF Born, Waiting, Upload
<1>15. \A e \in Devices : \A x \in Mail(inbox', e) : MsgOK(x, Born, Waiting, chan[e].ready)
  BY <1>5, <1>13 DEF Sound
<1>16. Sound'
  <2>1. \A e \in Devices : \A p \in mgr'[e].packages : p.owner = mgr'[e].me
    BY <1>8, <1>9, <1>11 DEF Sound, g, h
  <2>2. \A e \in Devices : HasGroup(mgr'[e]) => GroupOK(mgr'[e].group, Born, Waiting)
    BY <1>11 DEF Sound, HasGroup
  <2>3. \A e \in Devices : Invited(mgr[e]) => Invited(mgr'[e])
    BY <1>11 DEF Invited, HasGroup
  <2>4. \A e \in Devices : \A x \in Mail(inbox', e) : MsgOK(x, Born, Waiting, chan'[e].ready)
    BY <1>6, <1>15
  <2>5. importing' = importing
    BY DEF Upload
  <2>6. \A e \in Devices : \A i \in importing[e] : i.key = mgr'[e].me \/ Invited(mgr'[e])
    BY <1>11, <2>3 DEF Sound
  <2>7. \A e \in Devices : chan'[e].cek \in {NoKey, mgr'[e].me} \/ Invited(mgr'[e])
    BY <1>6, <1>11, <2>3 DEF Sound
  <2>8. \A e \in Devices : chan'[e].ready => chan'[e].cek \in Session
    BY <1>6 DEF Sound
  <2> QED
    BY <1>14, <2>1, <2>2, <2>4, <2>5, <2>6, <2>7, <2>8 DEF Sound, Mail, HasGroup, Invited
<1>17. \A e \in Devices : KeyMsgOK(m, e, claim') /\ KeyMsgOK(n, e, claim')
  BY <1>1, <1>2, PlainKeyMsg
<1>18. ASSUME OneKey PROVE OneKey'
  BY <1>5, <1>6, <1>17, <1>18, QuietKey DEF Upload
<1> QED
  BY <1>12, <1>16, <1>18 DEF Upload

\* The answer about the creator: before the first mishap it is the claim.
LEMMA OnUploadedInv ==
  ASSUME HandInv, NEW d \in Devices, OnUploaded(d)
  PROVE  HandInv'
<1> USE DEF HandInv
<1>1. inbox \in Inboxes /\ inbox[d] # <<>>
  BY DEF Typed, Inboxes, OnUploaded, Next1
<1>2. PICK q : q = Rest(d)
  OBVIOUS
<1>3. q \in Inboxes /\ \A e \in Devices : Mail(q, e) \subseteq Mail(inbox, e)
  BY <1>1, <1>2, RestMail
<1>4. PICK b \in BOOLEAN :
        /\ inbox' = Reply(q, d, Msg("group_info", b))
        /\ claim' \in {claim, Claimed(d)} /\ mishaps' \in {mishaps, mishaps + 1}
        /\ mishaps' = mishaps => claim' = Claimed(d) /\ (b => claim' = d)
  <2>1. CASE claim' = Claimed(d) /\ inbox' = Reply(q, d, Msg("group_info", claim' = d))
             /\ UNCHANGED mishaps
    <3> WITNESS (claim' = d) \in BOOLEAN
    <3> QED
      BY <2>1
  <2>2. CASE mishaps < MaxMishaps /\ mishaps' = mishaps + 1
             /\ inbox' = Reply(q, d, Msg("group_info", TRUE)) /\ UNCHANGED claim
    <3>1. mishaps' # mishaps
      BY <2>2 DEF Typed
    <3> WITNESS TRUE \in BOOLEAN
    <3> QED
      BY <2>2, <3>1
  <2> QED
    BY <1>2, <2>1, <2>2 DEF OnUploaded, GroupInfo
<1>5. PICK m : m = Msg("group_info", b)
  OBVIOUS
<1>6. m \in Messages
  BY <1>5, MsgFields DEF Types, Bodies
<1>7. inbox' \in Inboxes /\ \A e \in Devices : Mail(inbox', e) \subseteq
        Mail(q, e) \cup (IF e = d THEN {m} ELSE {})
  BY <1>3, <1>4, <1>5, <1>6, ReplyMail
<1>8. /\ chan' \in [Devices -> Chans]
      /\ \A e \in Devices : chan'[e].ready = chan[e].ready /\ chan'[e].cek = chan[e].cek
  BY PhaseChange DEF OnUploaded, Typed, Phases
<1>9. Typed'
  <2>1. mishaps' \in Nat /\ claim' \in Devices \cup {NoOne}
    BY <1>4 DEF Typed, Claimed
  <2> QED
    BY <1>7, <1>8, <2>1 DEF OnUploaded, Typed, Inboxes
<1>10. \A e \in Devices : MsgOK(m, Born, Waiting, chan[e].ready)
  BY <1>5, PlainMsg
<1>11. Sound'
  BY <1>3, <1>7, <1>8, <1>9, <1>10, QuietStep DEF OnUploaded
<1>12. ASSUME mishaps' = 0 PROVE OneKey'
  <2>1. mishaps = 0 /\ claim' = Claimed(d) /\ (b => claim' = d)
    BY <1>4, <1>12 DEF Typed
  <2>2. claim \in Devices => claim' = claim
    BY <2>1, HandshakeAssumption DEF Claimed
  <2>3. m.type = "group_info" /\ m.body = b
    BY <1>5, MsgFields
  <2>4. KeyMsgOK(m, d, claim')
    BY <2>1, <2>3 DEF KeyMsgOK
  <2> QED
    BY <1>3, <1>7, <1>8, <2>1, <2>2, <2>4, QuietKey DEF OnUploaded
<1> QED
  BY <1>9, <1>11, <1>12

LEMMA TimeoutInv ==
  ASSUME HandInv, NEW d \in Devices, Timeout(d)
  PROVE  HandInv'
<1> USE DEF HandInv
<1>1. inbox \in Inboxes
  BY DEF Typed, Inboxes
<1>2. CASE chan' = [chan EXCEPT ![d].phase = "resolved"]
           /\ UNCHANGED <<inbox, claim, mishaps>>
  <2>1. /\ chan' \in [Devices -> Chans]
        /\ \A e \in Devices : chan'[e].ready = chan[e].ready /\ chan'[e].cek = chan[e].cek
    BY <1>2, PhaseChange DEF Typed, Phases
  <2>2. Typed'
    BY <1>2, <2>1 DEF Timeout, Typed
  <2>3. Sound'
    BY <1>2, <2>1, <2>2, QuietStep DEF Timeout
  <2>4. ASSUME OneKey PROVE OneKey'
    BY <1>2, <2>1, <2>4, QuietKey DEF Timeout
  <2> QED
    BY <1>2, <2>2, <2>3, <2>4
<1>3. CASE /\ chan' = [chan EXCEPT ![d].phase = "late"]
           /\ claim' \in {Claimed(d), claim}
           /\ inbox' = Reply(inbox, d, Msg("group_info_late", claim' = d))
           /\ mishaps' = mishaps + 1
  <2>1. /\ chan' \in [Devices -> Chans]
        /\ \A e \in Devices : chan'[e].ready = chan[e].ready /\ chan'[e].cek = chan[e].cek
    BY <1>3, PhaseChange DEF Typed, Phases
  <2>2. PICK b \in BOOLEAN : inbox' = Reply(inbox, d, Msg("group_info_late", b))
    <3> WITNESS (claim' = d) \in BOOLEAN
    <3> QED
      BY <1>3
  <2>3. PICK m : m = Msg("group_info_late", b)
    OBVIOUS
  <2>4. m \in Messages
    BY <2>3, MsgFields DEF Types, Bodies
  <2>5. inbox' \in Inboxes /\ \A e \in Devices : Mail(inbox', e) \subseteq
          Mail(inbox, e) \cup (IF e = d THEN {m} ELSE {})
    BY <1>1, <2>2, <2>3, <2>4, ReplyMail
  <2>6. Typed'
    <3>1. mishaps' \in Nat /\ claim' \in Devices \cup {NoOne}
      BY <1>3 DEF Typed, Claimed
    <3> QED
      BY <2>1, <2>5, <3>1 DEF Timeout, Typed, Inboxes
  <2>7. \A e \in Devices : MsgOK(m, Born, Waiting, chan[e].ready)
    BY <2>3, PlainMsg
  <2>8. Sound'
    BY <2>1, <2>5, <2>6, <2>7, QuietStep DEF Timeout
  <2>9. mishaps' # 0
    BY <1>3 DEF Typed
  <2> QED
    BY <2>6, <2>8, <2>9
<1> QED
  BY <1>2, <1>3 DEF Timeout


-----------------------------------------------------------------------------
(* Steps that change a group or the keys to import.                        *)

\* The manager of d gets another group.
LEMMA GroupChange ==
  ASSUME Typed, NEW d \in Devices, NEW G \in Groups,
         mgr' = [mgr EXCEPT ![d] = [mgr[d] EXCEPT !.group = G]]
  PROVE  /\ mgr' \in [Devices -> Managers]
         /\ \A e \in Devices \ {d} : mgr'[e] = mgr[e]
         /\ mgr'[d].me = mgr[d].me /\ mgr'[d].packages = mgr[d].packages /\ mgr'[d].group = G
<1>1. mgr \in [Devices -> Managers] /\ mgr[d] \in Managers
  BY DEF Typed
<1>2. PICK g \in Managers : g = mgr[d]
  BY <1>1
<1>3. PICK h : h = [g EXCEPT !.group = G]
  OBVIOUS
<1>4. h \in Managers /\ h.me = g.me /\ h.packages = g.packages /\ h.group = G
  BY <1>3 DEF Managers
<1>5. mgr' = [mgr EXCEPT ![d] = h]
  BY <1>2, <1>3
<1> QED
  BY <1>1, <1>2, <1>4, <1>5

LEMMA MineBorn ==
  ASSUME Typed, NEW d \in Devices
  PROVE  /\ mgr[d] \in Managers /\ mgr[d].me \in Session /\ mgr[d].me \in Born
         /\ ~chan[d].ready => mgr[d].me \in Waiting
<1>1. mgr[d] \in Managers /\ mgr[d].me \in Session /\ mgr[d].me = <<d, starts[d]>>
      /\ starts[d] \in 1..MaxStarts
  BY DEF Typed, Managers
<1>2. mgr[d].me \in Born
  <2>1. PICK s \in Session : s = mgr[d].me
    BY <1>1
  <2>2. s[1] = d /\ s[2] = starts[d] /\ starts[d] <= starts[d]
    BY <1>1, <2>1
  <2> QED
    BY <2>1, <2>2 DEF Born
<1> QED
  BY <1>1, <1>2 DEF Waiting

\* A session that is ready is not one that waits.
LEMMA ReadyHere ==
  ASSUME Typed, NEW d \in Devices, chan[d].ready
  PROVE  mgr[d].me \notin Waiting
<1> SUFFICES ASSUME NEW e \in Devices, ~chan[e].ready, mgr[d].me = mgr[e].me PROVE FALSE
  BY DEF Waiting
<1>1. <<d, starts[d]>> = <<e, starts[e]>>
  BY DEF Typed
<1> QED
  BY <1>1

\* A group that is started is sound, and the key to import is the own one.
LEMMA Started ==
  ASSUME Typed, Sound, NEW d \in Devices, StartGroup(d)
  PROVE  /\ mgr' \in [Devices -> Managers]
         /\ \A e \in Devices \ {d} : mgr'[e] = mgr[e] /\ importing'[e] = importing[e]
         /\ mgr'[d].me = mgr[d].me /\ mgr'[d].packages = mgr[d].packages
         /\ GroupOK(mgr'[d].group, Born, Waiting) /\ ~Invited(mgr[d])
         /\ importing' \in [Devices -> SUBSET Imports]
         /\ \A i \in importing'[d] : i \in importing[d] \/ i.key = mgr[d].me
<1>1. PICK me \in Session : me = mgr[d].me
  BY MineBorn
<1>2. PICK c : c = Change(me, "create", me)
  OBVIOUS
<1>3. c \in Changes /\ c.op = "create" /\ c.who = me
  BY <1>2 DEF Change, Changes
<1>4. PICK E : E = <<c>>
  OBVIOUS
<1>5. E \in Seq(Changes) /\ Len(E) = 1 /\ E[1] = c
  BY <1>3, <1>4
<1>6. PICK G : G = [epoch |-> E, members |-> {me}]
  OBVIOUS
<1>7. G \in Groups /\ G.epoch = E /\ G.members = {me}
  BY <1>5, <1>6 DEF Groups
<1>8. PICK B : B = Born
  OBVIOUS
<1>9. PICK W : W = Waiting
  OBVIOUS
<1>10. me \in B
  BY <1>1, <1>8, MineBorn
<1>11. EpochOK(E, B, W) /\ Member(E, me)
  BY <1>3, <1>5, <1>10 DEF EpochOK, Founder, Member
<1>12. GroupOK(G, B, W)
  BY <1>7, <1>11 DEF GroupOK
<1>13. mgr' = [mgr EXCEPT ![d] = [mgr[d] EXCEPT !.group = G]]
  BY <1>1, <1>2, <1>4, <1>6 DEF StartGroup, CreateGroup
<1>14. /\ mgr' \in [Devices -> Managers]
       /\ \A e \in Devices \ {d} : mgr'[e] = mgr[e]
       /\ mgr'[d].me = mgr[d].me /\ mgr'[d].packages = mgr[d].packages /\ mgr'[d].group = G
  BY <1>7, <1>13, GroupChange
<1>15. PICK i : i = [key |-> me, own |-> TRUE]
  OBVIOUS
<1>16. i \in Imports /\ i.key = me
  BY <1>15 DEF Imports
<1>17. importing' = [importing EXCEPT ![d] = importing[d] \cup {i}]
  BY <1>1, <1>15 DEF StartGroup
<1>18. /\ importing' \in [Devices -> SUBSET Imports]
       /\ \A e \in Devices \ {d} : importing'[e] = importing[e]
       /\ importing'[d] = importing[d] \cup {i}
  BY <1>16, <1>17 DEF Typed
<1>19. ~Invited(mgr[d])
  BY DEF StartGroup, CanCreateGroup, Invited
<1>20. GroupOK(mgr'[d].group, Born, Waiting)
  BY <1>8, <1>9, <1>12, <1>14
<1>21. ASSUME NEW j \in importing'[d] PROVE j \in importing[d] \/ j.key = mgr[d].me
  <2>1. j \in importing[d] \/ j = i
    BY <1>18
  <2> QED
    BY <1>1, <1>16, <2>1
<1> QED
  BY <1>14, <1>18, <1>19, <1>20, <1>21

\* A step that starts a group.
LEMMA StartInv ==
  ASSUME HandInv, NEW d \in Devices, StartGroup(d), inbox[d] # <<>>, Drop(d),
         chan' \in [Devices -> Chans],
         \A e \in Devices : chan'[e].ready = chan[e].ready /\ chan'[e].cek = chan[e].cek,
         \A e \in Devices \ {d} : chan'[e] = chan[e],
         UNCHANGED <<claim, kps, starts, mishaps, removals>>,
         mishaps = 0 => claim = d
  PROVE  HandInv'
<1> USE DEF HandInv
<1>1. inbox \in Inboxes
  BY DEF Typed, Inboxes
<1>2. inbox' \in Inboxes /\ \A e \in Devices : Mail(inbox', e) \subseteq Mail(inbox, e)
  BY <1>1, RestMail DEF Drop
<1>3. /\ mgr' \in [Devices -> Managers]
      /\ \A e \in Devices \ {d} : mgr'[e] = mgr[e] /\ importing'[e] = importing[e]
      /\ mgr'[d].me = mgr[d].me /\ mgr'[d].packages = mgr[d].packages
      /\ GroupOK(mgr'[d].group, Born, Waiting) /\ ~Invited(mgr[d])
      /\ importing' \in [Devices -> SUBSET Imports]
      /\ \A i \in importing'[d] : i \in importing[d] \/ i.key = mgr[d].me
  BY Started
<1>4. Typed'
  <2>1. \A e \in Devices : mgr'[e].me = mgr[e].me
    BY <1>3
  <2> QED
    BY <1>2, <1>3, <2>1 DEF Typed, Inboxes
<1>5. /\ \A p \in mgr'[d].packages : p.owner = mgr[d].me
      /\ \A i \in importing'[d] : i.key = mgr[d].me
      /\ chan'[d].cek \in {NoKey, mgr[d].me}
      /\ chan'[d].ready => chan'[d].cek \in Session
  BY <1>3 DEF Sound
<1>6. Sound'
  BY <1>2, <1>3, <1>4, <1>5, SoundStep
<1>7. ASSUME mishaps = 0 PROVE OneKey'
  <2>1. claim' = claim /\ claim = d
    BY <1>7
  <2>2. mgr[d].me = KeyOf(claim)
    BY <1>7, <2>1 DEF Typed, OneKey, KeyOf
  <2>3. \A e \in Devices : \A i \in importing'[e] :
          i \in importing[e] \/ (claim' \in Devices /\ i.key = KeyOf(claim'))
    BY <1>3, <2>1, <2>2
  <2> QED
    BY <1>2, <1>7, <2>3, KeyStep
<1> QED
  BY <1>4, <1>6, <1>7

LEMMA OnGroupInfoInv ==
  ASSUME HandInv, NEW d \in Devices, OnGroupInfo(d)
  PROVE  HandInv'
<1> USE DEF HandInv
<1>1. inbox \in Inboxes /\ inbox[d] # <<>> /\ Drop(d) /\ Head(inbox[d]).type = "group_info"
  BY DEF Typed, Inboxes, OnGroupInfo, Next1
<1>2. /\ inbox' \in Inboxes /\ \A e \in Devices : Mail(inbox', e) \subseteq Mail(inbox, e)
      /\ Head(inbox[d]) \in Mail(inbox, d)
  BY <1>1, RestMail DEF Drop
<1>3. CASE Body(d) /\ StartGroup(d) /\ chan' = [chan EXCEPT ![d].phase = "creating"]
  <2>1. mishaps = 0 => claim = d
    BY <1>1, <1>2, <1>3 DEF OneKey, KeyMsgOK, Body
  <2>2. chan' \in [Devices -> Chans]
        /\ \A e \in Devices : chan'[e].ready = chan[e].ready /\ chan'[e].cek = chan[e].cek
    BY <1>3, PhaseChange DEF Typed, Phases
  <2>3. \A e \in Devices \ {d} : chan'[e] = chan[e]
    BY <1>3 DEF Typed
  <2> QED
    BY <1>1, <1>3, <2>1, <2>2, <2>3, StartInv DEF OnGroupInfo
<1>4. ASSUME NEW p \in Phases, chan' = [chan EXCEPT ![d].phase = p], UNCHANGED <<mgr, importing>>
      PROVE  HandInv'
  <2>1. chan' \in [Devices -> Chans]
        /\ \A e \in Devices : chan'[e].ready = chan[e].ready /\ chan'[e].cek = chan[e].cek
    BY <1>4, PhaseChange DEF Typed
  <2>2. Typed'
    BY <1>2, <1>4, <2>1 DEF OnGroupInfo, Typed, Inboxes
  <2>3. Sound'
    BY <1>2, <1>4, <2>1, <2>2, QuietStep DEF OnGroupInfo
  <2>4. ASSUME OneKey PROVE OneKey'
    BY <1>2, <1>4, <2>1, <2>4, QuietKey DEF OnGroupInfo
  <2> QED
    BY <2>2, <2>3, <2>4 DEF OnGroupInfo
<1>5. "failed" \in Phases /\ "waiting" \in Phases
  BY DEF Phases
<1> QED
  BY <1>3, <1>4, <1>5 DEF OnGroupInfo

LEMMA OnGroupInfoLateInv ==
  ASSUME HandInv, NEW d \in Devices, OnGroupInfoLate(d)
  PROVE  HandInv'
<1> USE DEF HandInv
<1>1. /\ inbox \in Inboxes /\ inbox[d] # <<>> /\ Drop(d)
      /\ Head(inbox[d]).type = "group_info_late"
  BY DEF Typed, Inboxes, OnGroupInfoLate, Next1
<1>2. /\ inbox' \in Inboxes /\ \A e \in Devices : Mail(inbox', e) \subseteq Mail(inbox, e)
      /\ Head(inbox[d]) \in Mail(inbox, d)
  BY <1>1, RestMail DEF Drop
<1>3. mishaps # 0
  BY <1>1, <1>2 DEF OneKey, KeyMsgOK
<1>4. CASE StartGroup(d) /\ UNCHANGED chan
  <2>1. chan' \in [Devices -> Chans]
    BY <1>4 DEF Typed
  <2> QED
    BY <1>1, <1>3, <1>4, <2>1, StartInv DEF OnGroupInfoLate
<1>5. CASE chan' = [chan EXCEPT ![d].phase = "resolved"] /\ UNCHANGED <<mgr, importing>>
  <2>1. chan' \in [Devices -> Chans]
        /\ \A e \in Devices : chan'[e].ready = chan[e].ready /\ chan'[e].cek = chan[e].cek
    BY <1>5, PhaseChange DEF Typed, Phases
  <2>2. Typed'
    BY <1>2, <1>5, <2>1 DEF OnGroupInfoLate, Typed, Inboxes
  <2>3. Sound'
    BY <1>2, <1>5, <2>1, <2>2, QuietStep DEF OnGroupInfoLate
  <2> QED
    BY <1>3, <2>2, <2>3 DEF OnGroupInfoLate
<1> QED
  BY <1>4, <1>5 DEF OnGroupInfoLate


LEMMA ImportCekInv ==
  ASSUME HandInv, NEW d \in Devices, NEW i \in importing[d], ImportCek(d, i)
  PROVE  HandInv'
<1> USE DEF HandInv
<1>1. i \in Imports /\ i.key \in Session /\ i.own \in BOOLEAN
  BY DEF Typed, Imports
<1>2. chan[d] \in Chans /\ chan[d].isGroupCreator \in BOOLEAN /\ chan[d].phase \in Phases
  BY DEF Typed, Chans
<1>3. PICK p \in Phases : \E own \in BOOLEAN :
        chan' = [chan EXCEPT ![d] = [phase |-> p, ready |-> TRUE, isGroupCreator |-> own,
                                     cek |-> i.key]]
  <2>1. (chan[d].isGroupCreator \/ i.own) \in BOOLEAN
    OBVIOUS
  <2>2. (IF chan[d].phase \in {"waiting", "late"} \/ (i.own /\ chan[d].phase = "creating")
         THEN "resolved" ELSE chan[d].phase) \in Phases
    BY <1>2 DEF Phases
  <2> QED
    BY <2>1, <2>2 DEF ImportCek
<1>4. PICK own \in BOOLEAN :
        chan' = [chan EXCEPT ![d] = [phase |-> p, ready |-> TRUE, isGroupCreator |-> own,
                                     cek |-> i.key]]
  BY <1>3
<1>5. /\ chan' \in [Devices -> Chans] /\ \A e \in Devices \ {d} : chan'[e] = chan[e]
      /\ chan'[d].ready = TRUE /\ chan'[d].cek = i.key
  BY <1>1, <1>4 DEF Typed, Chans
<1>6. /\ importing' \in [Devices -> SUBSET Imports]
      /\ \A e \in Devices : importing'[e] \subseteq importing[e]
      /\ \A e \in Devices \ {d} : importing'[e] = importing[e]
  BY DEF ImportCek, Typed
<1>7. Typed'
  BY <1>5, <1>6 DEF ImportCek, Typed
<1>8. /\ mgr' = mgr /\ inbox' = inbox /\ starts' = starts /\ claim' = claim
      /\ mishaps' = mishaps
  BY DEF ImportCek
<1>9. /\ \A p2 \in mgr'[d].packages : p2.owner = mgr[d].me
      /\ HasGroup(mgr'[d]) => GroupOK(mgr'[d].group, Born, Waiting)
  BY <1>8 DEF Sound
<1>10. /\ \A j \in importing'[d] : j.key = mgr[d].me \/ Invited(mgr'[d])
       /\ i.key = mgr[d].me \/ Invited(mgr'[d])
  BY <1>6, <1>8 DEF Sound
<1>11. Sound'
  BY <1>1, <1>5, <1>6, <1>7, <1>8, <1>9, <1>10, SoundStep
<1>12. ASSUME OneKey PROVE OneKey'
  <2>1. claim' \in Devices /\ i.key = KeyOf(claim')
    BY <1>8, <1>12 DEF OneKey
  <2>2. \A e \in Devices : chan'[e].ready =>
           \/ chan[e].ready /\ chan'[e].cek = chan[e].cek
           \/ claim' \in Devices /\ chan'[e].cek = KeyOf(claim')
    BY <1>5, <2>1
  <2>3. \A e \in Devices : \A j \in importing'[e] :
          j \in importing[e] \/ (claim' \in Devices /\ j.key = KeyOf(claim'))
    BY <1>6
  <2> QED
    BY <1>8, <1>12, <2>2, <2>3, KeyStep
<1> QED
  BY <1>7, <1>8, <1>11, <1>12

\* The next message of a device.
LEMMA HandlerMail ==
  ASSUME HandInv, NEW d \in Devices, inbox[d] # <<>>
  PROVE  /\ Rest(d) \in Inboxes
         /\ \A e \in Devices : Mail(Rest(d), e) \subseteq Mail(inbox, e)
         /\ Head(inbox[d]) \in Messages
         /\ MsgOK(Head(inbox[d]), Born, Waiting, chan[d].ready)
         /\ mishaps = 0 => KeyMsgOK(Head(inbox[d]), d, claim)
<1> USE DEF HandInv
<1>1. inbox \in Inboxes
  BY DEF Typed, Inboxes
<1>2. /\ Rest(d) \in Inboxes
      /\ \A e \in Devices : Mail(Rest(d), e) \subseteq Mail(inbox, e)
      /\ Head(inbox[d]) \in Mail(inbox, d) /\ Head(inbox[d]) \in Messages
  BY <1>1, RestMail
<1>3. MsgOK(Head(inbox[d]), Born, Waiting, chan[d].ready)
  BY <1>2 DEF Sound
<1>4. mishaps = 0 => KeyMsgOK(Head(inbox[d]), d, claim)
  BY <1>2 DEF OneKey
<1> QED
  BY <1>2, <1>3, <1>4

\* A handler that only gives the manager of d another group, in which d is
\* invited if it was before.
LEMMA GroupInv ==
  ASSUME HandInv, NEW d \in Devices, mgr' \in [Devices -> Managers],
         \A e \in Devices \ {d} : mgr'[e] = mgr[e],
         mgr'[d].me = mgr[d].me, mgr'[d].packages \subseteq mgr[d].packages,
         HasGroup(mgr'[d]) => GroupOK(mgr'[d].group, Born, Waiting),
         Invited(mgr[d]) => Invited(mgr'[d]),
         inbox' \in Inboxes,
         \A e \in Devices : \A m \in Mail(inbox', e) :
           \/ m \in Mail(inbox, e)
           \/ /\ MsgOK(m, Born, Waiting, chan[e].ready)
              /\ mishaps = 0 => KeyMsgOK(m, e, claim),
         removals' \in 0..MaxRemovals,
         UNCHANGED <<chan, importing, claim, kps, starts, mishaps>>
  PROVE  HandInv'
<1> USE DEF HandInv
<1>1. \A e \in Devices : mgr'[e].me = mgr[e].me
  OBVIOUS
<1>2. Typed'
  BY <1>1 DEF Typed, Inboxes
<1>3. \A p \in mgr'[d].packages : p.owner = mgr[d].me
  BY DEF Sound
<1>4. \A i \in importing'[d] : i.key = mgr[d].me \/ Invited(mgr'[d])
  BY DEF Sound
<1>5. /\ chan'[d].cek \in {NoKey, mgr[d].me} \/ Invited(mgr'[d])
      /\ chan'[d].ready => chan'[d].cek \in Session
  BY DEF Sound
<1>6. Sound'
  BY <1>2, <1>3, <1>4, <1>5, SoundStep
<1>7. ASSUME mishaps' = 0 PROVE OneKey'
  BY <1>7, QuietKey
<1> QED
  BY <1>2, <1>6, <1>7

LEMMA OnCommitInv ==
  ASSUME HandInv, NEW d \in Devices, OnCommit(d)
  PROVE  HandInv'
<1>0. Typed /\ Sound
  BY DEF HandInv
<1>1. inbox[d] # <<>> /\ Head(inbox[d]).type = "commit" /\ Head(inbox[d]).body = Body(d)
      /\ inbox' = Rest(d)
  BY DEF OnCommit, Next1, Drop, Body
<1>2. PICK c : c = Body(d)[1]
  OBVIOUS
<1>3. /\ inbox' \in Inboxes /\ \A e \in Devices : Mail(inbox', e) \subseteq Mail(inbox, e)
      /\ MsgOK(Head(inbox[d]), Born, Waiting, chan[d].ready)
  BY <1>1, HandlerMail
<1>4. CommitOK(c, Born, Waiting)
  BY <1>1, <1>2, <1>3 DEF MsgOK
<1>5. UNCHANGED <<chan, importing, claim, kps, starts, mishaps, removals>>
      /\ removals' \in 0..MaxRemovals
  BY <1>0 DEF OnCommit, Typed
<1>6. CASE UNCHANGED mgr
  <2>1. mgr \in [Devices -> Managers]
    BY <1>0 DEF Typed
  <2>2. HasGroup(mgr[d]) => GroupOK(mgr[d].group, Born, Waiting)
    BY <1>0 DEF Sound
  <2> QED
    BY <1>3, <1>5, <1>6, <2>1, <2>2, GroupInv
<1>7. CASE CanProcessCommit(mgr[d], c) /\ mgr' = [mgr EXCEPT ![d] = ProcessCommit(mgr[d], c)]
  <2>1. PICK g : g = mgr[d].group
    OBVIOUS
  <2>2. PICK B : B = Born
    OBVIOUS
  <2>3. PICK W : W = Waiting
    OBVIOUS
  <2>4. GroupOK(g, B, W) /\ c.epoch = g.epoch
    BY <1>0, <1>7, <2>1, <2>2, <2>3 DEF CanProcessCommit, IsOperational, Sound
  <2>5. Founder(g.epoch) \notin W /\ c.content \in Changes
    BY <1>4, <2>3, <2>4 DEF CommitOK, Commits
  <2>6. PICK G : G = After(g, c.content)
    OBVIOUS
  <2>7. GroupOK(G, B, W)
    BY <2>4, <2>5, <2>6, AfterOK
  <2>8. \A x : HasAdd(g.epoch, x) => HasAdd(G.epoch, x)
    BY <2>4, <2>5, <2>6, AfterOK
  <2>9. G \in Groups /\ mgr' = [mgr EXCEPT ![d] = [mgr[d] EXCEPT !.group = G]]
    BY <1>7, <2>1, <2>6, <2>7 DEF GroupOK, ProcessCommit
  <2>10. /\ mgr' \in [Devices -> Managers]
         /\ \A e \in Devices \ {d} : mgr'[e] = mgr[e]
         /\ mgr'[d].me = mgr[d].me /\ mgr'[d].packages = mgr[d].packages
         /\ mgr'[d].group = G
    BY <1>0, <2>9, GroupChange
  <2>11. GroupOK(mgr'[d].group, Born, Waiting)
    BY <2>2, <2>3, <2>7, <2>10
  <2>12. HasGroup(mgr'[d])
    BY <2>9, <2>10, HandshakeAssumption DEF HasGroup
  <2>13. Invited(mgr[d]) => Invited(mgr'[d])
    BY <2>1, <2>8, <2>10, <2>12 DEF Invited
  <2> QED
    BY <1>3, <1>5, <2>10, <2>11, <2>13, GroupInv
<1> QED
  BY <1>2, <1>6, <1>7 DEF OnCommit


\* A Welcome that d can open names a package of its own: whoever made it has
\* added the session of d.
LEMMA OnWelcomeInv ==
  ASSUME HandInv, NEW d \in Devices, OnWelcome(d)
  PROVE  HandInv'
<1>0. Typed /\ Sound
  BY DEF HandInv
<1>1. inbox[d] # <<>> /\ Head(inbox[d]).type = "welcome" /\ Head(inbox[d]).body = Body(d)
      /\ inbox' = Rest(d)
  BY DEF OnWelcome, Next1, Drop, Body
<1>2. PICK w : w = Body(d).welcome[1]
  OBVIOUS
<1>3. /\ inbox' \in Inboxes /\ \A e \in Devices : Mail(inbox', e) \subseteq Mail(inbox, e)
      /\ MsgOK(Head(inbox[d]), Born, Waiting, chan[d].ready)
  BY <1>1, HandlerMail
<1>4. WelcomeOK(w, Born, Waiting)
  BY <1>1, <1>2, <1>3 DEF MsgOK
<1>5. UNCHANGED <<chan, importing, claim, kps, starts, mishaps, removals>>
      /\ removals' \in 0..MaxRemovals
  BY <1>0 DEF OnWelcome, Typed
<1>6. CASE UNCHANGED mgr
  <2>1. mgr \in [Devices -> Managers]
    BY <1>0 DEF Typed
  <2>2. HasGroup(mgr[d]) => GroupOK(mgr[d].group, Born, Waiting)
    BY <1>0 DEF Sound
  <2> QED
    BY <1>3, <1>5, <1>6, <2>1, <2>2, GroupInv
<1>7. CASE CanProcessWelcome(mgr[d], w) /\ mgr' = [mgr EXCEPT ![d] = ProcessWelcome(mgr[d], w)]
  <2>1. PICK g \in Managers : g = mgr[d]
    BY <1>0 DEF Typed
  <2>2. PICK P \in SUBSET Packages : P = g.packages \ {w.package}
    BY <2>1 DEF Managers
  <2>3. PICK G \in Groups : G = w.group
    BY <1>4 DEF WelcomeOK, GroupOK
  <2>4. PICK h : h = ProcessWelcome(g, w)
    OBVIOUS
  <2>5. h = [g EXCEPT !.group = G, !.packages = P]
    BY <2>2, <2>3, <2>4 DEF ProcessWelcome
  <2>6. h \in Managers /\ h.me = g.me /\ h.packages = P /\ h.group = G
    <3>1. /\ h.me = g.me /\ h.generated = g.generated /\ h.packages = P /\ h.group = G
          /\ h = [me |-> h.me, generated |-> h.generated, packages |-> h.packages,
                  group |-> h.group]
      BY <2>5 DEF Managers
    <3> QED
      BY <3>1 DEF Managers
  <2>7. mgr \in [Devices -> Managers] /\ mgr' = [mgr EXCEPT ![d] = h]
    BY <1>0, <1>7, <2>1, <2>4 DEF Typed
  <2>8. mgr' \in [Devices -> Managers] /\ mgr'[d] = h
        /\ \A e \in Devices \ {d} : mgr'[e] = mgr[e]
    BY <2>6, <2>7
  <2>9. mgr'[d].me = mgr[d].me /\ mgr'[d].packages \subseteq mgr[d].packages
    BY <2>1, <2>2, <2>6, <2>8
  <2>10. GroupOK(mgr'[d].group, Born, Waiting)
    BY <1>4, <2>3, <2>6, <2>8 DEF WelcomeOK
  <2>11. w.package.owner = mgr[d].me
    BY <1>0, <1>7 DEF CanProcessWelcome, Sound
  <2>12. HasAdd(G.epoch, h.me)
    BY <1>4, <2>1, <2>3, <2>6, <2>11 DEF WelcomeOK
  <2>13. Invited(mgr'[d])
    BY <2>6, <2>8, <2>12, HandshakeAssumption DEF Invited, HasGroup
  <2> QED
    BY <1>3, <1>5, <2>8, <2>9, <2>10, <2>13, GroupInv
<1> QED
  BY <1>2, <1>6, <1>7 DEF OnWelcome

\* The CEK that d can read while it waits was sent in a group that added it.
LEMMA OnCekInv ==
  ASSUME HandInv, NEW d \in Devices, OnCek(d)
  PROVE  HandInv'
<1>0. Typed /\ Sound
  BY DEF HandInv
<1>1. inbox[d] # <<>> /\ Head(inbox[d]).type = "cek" /\ Head(inbox[d]).body = Body(d)
      /\ inbox' = Rest(d)
  BY DEF OnCek, Next1, Drop, Body
<1>2. PICK t : t = Body(d)
  OBVIOUS
<1>3. /\ inbox' \in Inboxes /\ \A e \in Devices : Mail(inbox', e) \subseteq Mail(inbox, e)
      /\ MsgOK(Head(inbox[d]), Born, Waiting, chan[d].ready)
      /\ mishaps = 0 => KeyMsgOK(Head(inbox[d]), d, claim)
  BY <1>1, HandlerMail
<1>4. TextOK(t, Born, Waiting) /\ (mishaps = 0 => claim \in Devices /\ t.content = KeyOf(claim))
  BY <1>1, <1>2, <1>3 DEF MsgOK, KeyMsgOK
<1>5. PICK i : i = [key |-> t.content, own |-> FALSE]
  OBVIOUS
<1>6. i \in Imports /\ i.key = t.content
  BY <1>4, <1>5 DEF TextOK, Texts, Imports
<1>7. PICK new : new = {[key |-> c.content, own |-> FALSE] :
                          c \in {c \in {t} : ~chan[d].ready /\ CanDecrypt(mgr[d], c)}}
  OBVIOUS
<1>8. new \subseteq {i} /\ (new # {} => ~chan[d].ready /\ CanDecrypt(mgr[d], t))
  BY <1>5, <1>7
<1>9. importing' = [importing EXCEPT ![d] = importing[d] \cup new]
  BY <1>2, <1>7 DEF OnCek
<1>10. /\ importing' \in [Devices -> SUBSET Imports]
       /\ \A e \in Devices \ {d} : importing'[e] = importing[e]
       /\ importing'[d] = importing[d] \cup new
  BY <1>0, <1>6, <1>8, <1>9 DEF Typed
<1>11. new # {} => Invited(mgr[d])
  <2> SUFFICES ASSUME new # {} PROVE Invited(mgr[d])
    OBVIOUS
  <2>1. ~chan[d].ready /\ CanDecrypt(mgr[d], t)
    BY <1>8
  <2>2. PICK B : B = Born
    OBVIOUS
  <2>3. PICK W : W = Waiting
    OBVIOUS
  <2>4. PICK E : E = mgr[d].group.epoch
    OBVIOUS
  <2>5. PICK me \in W : me = mgr[d].me
    BY <1>0, <2>1, <2>3, MineBorn
  <2>6. HasGroup(mgr[d]) /\ me \in mgr[d].group.members /\ t.epoch = E /\ t.by # me
    BY <2>1, <2>4, <2>5 DEF CanDecrypt, IsOperational
  <2>7. GroupOK(mgr[d].group, B, W)
    BY <1>0, <2>2, <2>3, <2>6 DEF Sound
  <2>8. EpochOK(E, B, W) /\ Member(E, me)
    BY <2>4, <2>6, <2>7 DEF GroupOK
  <2>9. Member(E, t.by)
    BY <1>4, <2>6 DEF TextOK
  <2>10. HasAdd(E, me)
    BY <2>6, <2>8, <2>9, ReaderInvited
  <2> QED
    BY <2>4, <2>5, <2>6, <2>10 DEF Invited
<1>12. /\ mgr' = mgr /\ chan' = chan /\ starts' = starts /\ claim' = claim
       /\ mishaps' = mishaps /\ removals' = removals /\ kps' = kps
  BY DEF OnCek
<1>13. Typed'
  BY <1>0, <1>3, <1>10, <1>12 DEF Typed, Inboxes
<1>14. \A j \in importing'[d] : j.key = mgr[d].me \/ Invited(mgr'[d])
  BY <1>0, <1>10, <1>11, <1>12 DEF Sound
<1>15. /\ \A p \in mgr'[d].packages : p.owner = mgr[d].me
       /\ HasGroup(mgr'[d]) => GroupOK(mgr'[d].group, Born, Waiting)
       /\ chan'[d].cek \in {NoKey, mgr[d].me} \/ Invited(mgr'[d])
       /\ chan'[d].ready => chan'[d].cek \in Session
  BY <1>0, <1>12 DEF Sound
<1>16. Sound'
  BY <1>0, <1>3, <1>10, <1>12, <1>13, <1>14, <1>15, SoundStep
<1>17. ASSUME mishaps = 0 PROVE OneKey'
  <2>1. OneKey
    BY <1>17 DEF HandInv
  <2>2. \A e \in Devices : \A j \in importing'[e] :
          j \in importing[e] \/ (claim' \in Devices /\ j.key = KeyOf(claim'))
    BY <1>4, <1>6, <1>8, <1>10, <1>12, <1>17
  <2>3. \A e \in Devices : chan'[e].ready =>
           \/ chan[e].ready /\ chan'[e].cek = chan[e].cek
           \/ claim' \in Devices /\ chan'[e].cek = KeyOf(claim')
    BY <1>12
  <2> QED
    BY <1>0, <1>3, <1>12, <2>1, <2>2, <2>3, KeyStep
<1> QED
  BY <1>12, <1>13, <1>16, <1>17 DEF HandInv


-----------------------------------------------------------------------------
(* The creator adds members, and a member removes one.                     *)

\* A handler that only sends.
LEMMA SendInv ==
  ASSUME HandInv, NEW d \in Devices, inbox' \in Inboxes,
         \A e \in Devices : \A m \in Mail(inbox', e) :
           \/ m \in Mail(inbox, e)
           \/ /\ MsgOK(m, Born, Waiting, chan[e].ready)
              /\ mishaps = 0 => KeyMsgOK(m, e, claim),
         UNCHANGED <<mgr, chan, importing, claim, kps, starts, mishaps, removals>>
  PROVE  HandInv'
<1>1. Typed /\ Sound
  BY DEF HandInv
<1>2. mgr \in [Devices -> Managers] /\ removals' \in 0..MaxRemovals
  BY <1>1 DEF Typed
<1>3. HasGroup(mgr[d]) => GroupOK(mgr[d].group, Born, Waiting)
  BY <1>1 DEF Sound
<1> QED
  BY <1>2, <1>3, GroupInv

LEMMA OnNewcomerInv ==
  ASSUME HandInv, NEW d \in Devices, OnNewcomer(d)
  PROVE  HandInv'
<1>0. Typed /\ Sound
  BY DEF HandInv
<1>1. /\ inbox[d] # <<>> /\ Head(inbox[d]).type \in {"presence_join", "key_package"}
      /\ Head(inbox[d]).body = Body(d)
  BY DEF OnNewcomer, Next1, Body
<1>2. PICK q : q = Rest(d)
  OBVIOUS
<1>3. /\ q \in Inboxes /\ \A e \in Devices : Mail(q, e) \subseteq Mail(inbox, e)
      /\ MsgOK(Head(inbox[d]), Born, Waiting, chan[d].ready)
  BY <1>1, <1>2, HandlerMail
<1>4. PICK uid \in Devices : uid = Body(d)
  BY <1>1, <1>3 DEF MsgOK
<1>5. PICK b : b = [uid |-> uid, package |-> kps[uid]]
  OBVIOUS
<1>6. PICK m : m = Msg("fetched", b)
  OBVIOUS
<1>7. b \in Fetched
  BY <1>0, <1>5 DEF Fetched, Typed
<1>8. m \in Messages /\ m.type = "fetched" /\ m.body = b
  BY <1>6, <1>7, MsgFields DEF Types, Bodies
<1>9. UNCHANGED <<mgr, chan, importing, claim, kps, starts, mishaps, removals>>
  BY DEF OnNewcomer
<1>10. CASE chan[d].ready /\ inbox' = Reply(q, d, m)
  <2>1. inbox' \in Inboxes /\ \A e \in Devices : Mail(inbox', e) \subseteq
          Mail(q, e) \cup (IF e = d THEN {m} ELSE {})
    BY <1>3, <1>8, <1>10, ReplyMail
  <2>2. MsgOK(m, Born, Waiting, chan[d].ready)
    BY <1>7, <1>8, <1>10 DEF MsgOK
  <2>3. KeyMsgOK(m, d, claim)
    BY <1>8 DEF KeyMsgOK
  <2>4. \A e \in Devices : \A n \in Mail(inbox', e) :
           \/ n \in Mail(inbox, e)
           \/ /\ MsgOK(n, Born, Waiting, chan[e].ready)
              /\ mishaps = 0 => KeyMsgOK(n, e, claim)
    BY <1>3, <2>1, <2>2, <2>3
  <2> QED
    BY <1>9, <2>1, <2>4, SendInv
<1>11. CASE inbox' = q
  BY <1>3, <1>9, <1>11, SendInv
<1> QED
  BY <1>2, <1>4, <1>5, <1>6, <1>10, <1>11 DEF OnNewcomer

LEMMA OnCommittedInv ==
  ASSUME HandInv, NEW d \in Devices, OnCommitted(d)
  PROVE  HandInv'
<1>1. /\ inbox[d] # <<>> /\ Head(inbox[d]).type = "committed"
      /\ Head(inbox[d]).body = Body(d)
  BY DEF OnCommitted, Next1, Body
<1>2. PICK q : q = Rest(d)
  OBVIOUS
<1>3. /\ q \in Inboxes /\ \A e \in Devices : Mail(q, e) \subseteq Mail(inbox, e)
      /\ MsgOK(Head(inbox[d]), Born, Waiting, chan[d].ready)
  BY <1>1, <1>2, HandlerMail
<1>4. PICK b : b = Body(d)
  OBVIOUS
<1>5. b \in Invitations /\ WelcomeOK(b.welcome[1], Born, Waiting) /\ chan[d].ready
  BY <1>1, <1>3, <1>4 DEF MsgOK
<1>6. PICK m : m = Msg("welcome", b)
  OBVIOUS
<1>7. PICK n : n = Msg("welcomed", d)
  OBVIOUS
<1>8. m \in Messages /\ m.type = "welcome" /\ m.body = b
  BY <1>5, <1>6, MsgFields DEF Types, Bodies
<1>9. n \in Messages /\ n.type = "welcomed"
  BY <1>7, MsgFields DEF Types, Bodies
<1>10. UNCHANGED <<mgr, chan, importing, claim, kps, starts, mishaps, removals>>
       /\ inbox' = Reply(Broadcast(q, m), d, n)
  BY <1>2, <1>4, <1>6, <1>7 DEF OnCommitted
<1>11. inbox' \in Inboxes /\ \A e \in Devices : Mail(inbox', e) \subseteq
         Mail(q, e) \cup {m} \cup (IF e = d THEN {n} ELSE {})
  BY <1>3, <1>8, <1>9, <1>10, SendMail
<1>12. MsgOK(n, Born, Waiting, chan[d].ready) /\ KeyMsgOK(n, d, claim)
  BY <1>5, <1>9 DEF MsgOK, KeyMsgOK
<1>13. \A e \in Devices : MsgOK(m, Born, Waiting, chan[e].ready) /\ KeyMsgOK(m, e, claim)
  BY <1>5, <1>8 DEF MsgOK, KeyMsgOK
<1>14. \A e \in Devices : \A x \in Mail(inbox', e) :
           \/ x \in Mail(inbox, e)
           \/ /\ MsgOK(x, Born, Waiting, chan[e].ready)
              /\ mishaps = 0 => KeyMsgOK(x, e, claim)
  BY <1>3, <1>11, <1>12, <1>13
<1> QED
  BY <1>10, <1>11, <1>14, SendInv

\* A creator that is ready sends the key it uses.
LEMMA OnWelcomedInv ==
  ASSUME HandInv, NEW d \in Devices, OnWelcomed(d)
  PROVE  HandInv'
<1>0. Typed /\ Sound
  BY DEF HandInv
<1>1. inbox[d] # <<>> /\ Head(inbox[d]).type = "welcomed"
  BY DEF OnWelcomed, Next1
<1>2. PICK q : q = Rest(d)
  OBVIOUS
<1>3. /\ q \in Inboxes /\ \A e \in Devices : Mail(q, e) \subseteq Mail(inbox, e)
      /\ MsgOK(Head(inbox[d]), Born, Waiting, chan[d].ready)
  BY <1>1, <1>2, HandlerMail
<1>4. chan[d].ready /\ chan[d].cek \in Session
  BY <1>0, <1>1, <1>3 DEF MsgOK, Sound
<1>5. UNCHANGED <<mgr, chan, importing, claim, kps, starts, mishaps, removals>>
  BY DEF OnWelcomed
<1>6. CASE inbox' = q
  BY <1>3, <1>5, <1>6, SendInv
<1>7. CASE IsOperational(mgr[d])
           /\ inbox' = Broadcast(q, Msg("cek", Encrypt(mgr[d], chan[d].cek)))
  <2>1. PICK t : t = Encrypt(mgr[d], chan[d].cek)
    OBVIOUS
  <2>2. PICK B : B = Born
    OBVIOUS
  <2>3. PICK W : W = Waiting
    OBVIOUS
  <2>4. /\ GroupOK(mgr[d].group, B, W) /\ mgr[d].me \in mgr[d].group.members
        /\ mgr[d].me \in Session
    BY <1>0, <1>7, <2>2, <2>3, MineBorn DEF IsOperational, Sound
  <2>5. EpochOK(mgr[d].group.epoch, B, W) /\ Member(mgr[d].group.epoch, mgr[d].me)
    BY <2>4 DEF GroupOK
  <2>6. /\ t.epoch = mgr[d].group.epoch /\ t.by = mgr[d].me /\ t.content = chan[d].cek
        /\ t = [kind |-> "application", epoch |-> t.epoch, by |-> t.by, content |-> t.content]
    BY <2>1 DEF Encrypt
  <2>7. t \in Texts
    BY <1>4, <2>4, <2>5, <2>6 DEF Texts, EpochOK
  <2>8. TextOK(t, Born, Waiting)
    BY <2>2, <2>3, <2>5, <2>6, <2>7 DEF TextOK
  <2>9. PICK m : m = Msg("cek", t)
    OBVIOUS
  <2>10. m \in Messages /\ m.type = "cek" /\ m.body = t
    BY <2>7, <2>9, MsgFields DEF Types, Bodies
  <2>11. inbox' \in Inboxes /\ \A e \in Devices : Mail(inbox', e) \subseteq Mail(q, e) \cup {m}
    BY <1>3, <1>7, <2>1, <2>9, <2>10, BroadcastMail
  <2>12. \A e \in Devices : MsgOK(m, Born, Waiting, chan[e].ready)
    BY <2>8, <2>10 DEF MsgOK
  <2>13. mishaps = 0 => claim \in Devices /\ t.content = KeyOf(claim)
    BY <1>4, <2>6 DEF HandInv, OneKey
  <2>14. mishaps = 0 => \A e \in Devices : KeyMsgOK(m, e, claim)
    BY <2>10, <2>13 DEF KeyMsgOK
  <2>15. \A e \in Devices : \A x \in Mail(inbox', e) :
           \/ x \in Mail(inbox, e)
           \/ /\ MsgOK(x, Born, Waiting, chan[e].ready)
              /\ mishaps = 0 => KeyMsgOK(x, e, claim)
    BY <1>3, <2>11, <2>12, <2>14
  <2> QED
    BY <1>5, <2>11, <2>15, SendInv
<1> QED
  BY <1>2, <1>6, <1>7 DEF OnWelcomed


\* unpackAddMember gives back what add_member packed, one commit and one Welcome.
LEMMA Unpacked ==
  ASSUME NEW C, NEW c \in C, NEW W, NEW w \in W, NEW p, p = Pack(<<c>>, <<w>>)
  PROVE  /\ UnpackAddMember(p).commit \in Seq(C) /\ UnpackAddMember(p).commit[1] = c
         /\ UnpackAddMember(p).welcome \in Seq(W) /\ UnpackAddMember(p).welcome[1] = w
<1> DEFINE S == {1, c, w}
<1>1. <<1>> \in Seq(S) /\ <<c>> \in Seq(S) /\ <<w>> \in Seq(S)
  OBVIOUS
<1>2. Len(<<1>>) = 1 /\ Len(<<c>>) = 1 /\ Len(<<w>>) = 1
  OBVIOUS
<1>3. PICK h : h = <<1>> \o <<c>>
  OBVIOUS
<1>4. h \in Seq(S) /\ Len(h) = 2 /\ h[1] = 1 /\ h[2] = c
  BY <1>1, <1>2, <1>3
<1>5. PICK t : t = <<w>>
  OBVIOUS
<1>6. t \in Seq(S) /\ Len(t) = 1 /\ t[1] = w /\ p = h \o t
  BY <1>1, <1>2, <1>3, <1>5 DEF Pack
<1> HIDE DEF S
<1>7. Len(h \o t) = Len(h) + Len(t) /\ \A i \in 1..(Len(h) + Len(t)) :
        (h \o t)[i] = IF i <= Len(h) THEN h[i] ELSE t[i - Len(h)]
  BY <1>4, <1>6, ConcatProperties, Zenon
<1>8. Len(p) = 3 /\ p[1] = 1 /\ p[2] = c /\ p[3] = w
  <2>1. Len(p) = 2 + 1 /\ \A i \in 1..(2 + 1) : p[i] = IF i <= 2 THEN h[i] ELSE t[i - 2]
    BY <1>4, <1>6, <1>7, Zenon
  <2>2. PICK g : \A i \in 1..3 : g[i] = p[i]
    OBVIOUS
  <2>3. \A i \in 1..3 : g[i] = IF i <= 2 THEN h[i] ELSE t[i - 2]
    BY <2>1, <2>2
  <2>4. g[1] = h[1] /\ g[2] = h[2] /\ g[3] = t[1]
    BY <2>3
  <2>5. g[1] = p[1] /\ g[2] = p[2] /\ g[3] = p[3]
    <3>1. 1 \in 1..3 /\ 2 \in 1..3 /\ 3 \in 1..3
      OBVIOUS
    <3> QED
      BY <2>2, <3>1, Zenon
  <2>6. 2 + 1 = 3
    OBVIOUS
  <2> QED
    BY <1>4, <1>6, <2>1, <2>4, <2>5, <2>6, Zenon
<1>9. PICK a : a = SubSeq(p, 2, 2)
  OBVIOUS
<1>10. PICK b : b = SubSeq(p, 3, 3)
  OBVIOUS
<1>11. a \in Seq(C) /\ a[1] = c
  <2>1. \A i \in 2..2 : p[i] \in C
    BY <1>8
  <2>2. /\ SubSeq(p, 2, 2) \in Seq(C)
        /\ \A i \in 1..(2 - 2 + 1) : SubSeq(p, 2, 2)[i] = p[2 + i - 1]
    BY <2>1, SubSeqProperties
  <2> QED
    BY <1>8, <1>9, <2>2
<1>12. b \in Seq(W) /\ b[1] = w
  <2>1. \A i \in 3..3 : p[i] \in W
    BY <1>8
  <2>2. /\ SubSeq(p, 3, 3) \in Seq(W)
        /\ \A i \in 1..(3 - 3 + 1) : SubSeq(p, 3, 3)[i] = p[3 + i - 1]
    BY <2>1, SubSeqProperties
  <2> QED
    BY <1>8, <1>10, <2>2
<1>13. UnpackAddMember(p) = [commit |-> a, welcome |-> b]
  <2>1. p[1] + 1 = 2 /\ p[1] + 2 = 3 /\ Len(p) = 3
    BY <1>8
  <2> QED
    BY <1>9, <1>10, <2>1, Zenon DEF UnpackAddMember
<1>14. UnpackAddMember(p).commit = a /\ UnpackAddMember(p).welcome = b
  BY <1>13
<1> QED
  BY <1>11, <1>12, <1>14

\* The changes that a member that is ready may make.
LEMMA ChangeOK ==
  ASSUME HandInv, NEW d \in Devices, chan[d].ready, IsOperational(mgr[d]),
         NEW op \in {"add", "remove"}, NEW who \in Session,
         NEW c, c = Change(mgr[d].me, op, who),
         NEW G, G = After(mgr[d].group, c)
  PROVE  /\ c \in Changes /\ c.op = op /\ c.who = who
         /\ GroupOK(G, Born, Waiting) /\ (op = "add" => HasAdd(G.epoch, who))
         /\ HasAdd(mgr[d].group.epoch, mgr[d].me) => HasAdd(G.epoch, mgr[d].me)
         /\ CommitOK(Commit(mgr[d], c), Born, Waiting)
<1>0. Typed /\ Sound
  BY DEF HandInv
<1>1. PICK g : g = mgr[d].group
  OBVIOUS
<1>2. PICK B : B = Born
  OBVIOUS
<1>3. PICK W : W = Waiting
  OBVIOUS
<1>4. PICK me \in Session : me = mgr[d].me
  BY <1>0, MineBorn
<1>5. c \in Changes /\ c.op = op /\ c.who = who
  BY <1>4 DEF Change, Changes
<1>6. GroupOK(g, B, W) /\ me \in g.members
  BY <1>0, <1>1, <1>2, <1>3, <1>4 DEF IsOperational, Sound
<1>7. me \notin W
  BY <1>0, <1>3, <1>4, ReadyHere
<1>8. Founder(g.epoch) \notin W
  BY <1>6, <1>7, ReadyFounder
<1>9. G = After(g, c)
  BY <1>1
<1>10. GroupOK(After(g, c), B, W)
  BY <1>5, <1>6, <1>8, AfterOK
<1>11. \A x : HasAdd(g.epoch, x) => HasAdd(After(g, c).epoch, x)
  BY <1>5, <1>6, <1>8, AfterOK
<1>12. c.op = "add" => HasAdd(After(g, c).epoch, c.who)
  BY <1>5, <1>6, <1>8, AfterOK
<1>13. CommitOK(Commit(mgr[d], c), B, W)
  <2>1. PICK k : k = Commit(mgr[d], c)
    OBVIOUS
  <2>2. k = [kind |-> "commit", epoch |-> g.epoch, content |-> c]
    BY <1>1, <2>1 DEF Commit
  <2>3. EpochOK(g.epoch, B, W) /\ g.epoch \in Seq(Changes)
    BY <1>6 DEF GroupOK, EpochOK
  <2>4. k.epoch = g.epoch /\ k \in Commits
    BY <1>5, <2>2, <2>3 DEF Commits
  <2>5. CommitOK(k, B, W)
    BY <1>8, <2>3, <2>4 DEF CommitOK
  <2> QED
    BY <2>1, <2>5
<1>14. GroupOK(G, Born, Waiting)
  BY <1>2, <1>3, <1>9, <1>10
<1>15. op = "add" => HasAdd(G.epoch, who)
  BY <1>5, <1>9, <1>12
<1>16. HasAdd(mgr[d].group.epoch, mgr[d].me) => HasAdd(G.epoch, mgr[d].me)
  BY <1>1, <1>9, <1>11
<1>17. CommitOK(Commit(mgr[d], c), Born, Waiting)
  BY <1>2, <1>3, <1>13
<1> QED
  BY <1>5, <1>14, <1>15, <1>16, <1>17

LEMMA RemoveInv ==
  ASSUME HandInv, NEW d \in Devices, NEW who \in Session, Remove(d, who)
  PROVE  HandInv'
<1>0. Typed /\ Sound /\ inbox \in Inboxes
  BY DEF HandInv, Typed, Inboxes
<1>1. PICK c : c = Change(mgr[d].me, "remove", who)
  OBVIOUS
<1>2. PICK G : G = After(mgr[d].group, c)
  OBVIOUS
<1>3. chan[d].ready /\ IsOperational(mgr[d]) /\ HasGroup(mgr[d])
  BY DEF Remove, CanRemoveMember, IsOperational
<1>4. GroupOK(G, Born, Waiting)
  BY <1>1, <1>2, <1>3, ChangeOK
<1>5. HasAdd(mgr[d].group.epoch, mgr[d].me) => HasAdd(G.epoch, mgr[d].me)
  BY <1>1, <1>2, <1>3, ChangeOK
<1>6. CommitOK(Commit(mgr[d], c), Born, Waiting)
  BY <1>1, <1>2, <1>3, ChangeOK
<1>7. G \in Groups /\ mgr' = [mgr EXCEPT ![d] = [mgr[d] EXCEPT !.group = G]]
  BY <1>1, <1>2, <1>4 DEF GroupOK, Remove, RemoveMember, RemoveChange
<1>8. /\ mgr' \in [Devices -> Managers]
      /\ \A e \in Devices \ {d} : mgr'[e] = mgr[e]
      /\ mgr'[d].me = mgr[d].me /\ mgr'[d].packages = mgr[d].packages /\ mgr'[d].group = G
  BY <1>0, <1>7, GroupChange
<1>9. Invited(mgr[d]) => Invited(mgr'[d])
  BY <1>5, <1>7, <1>8, HandshakeAssumption DEF Invited, HasGroup
<1>10. PICK k : k = Commit(mgr[d], c)
  OBVIOUS
<1>11. PICK m : m = Msg("commit", <<k>>)
  OBVIOUS
<1>12. k \in Commits /\ <<k>> \in Seq(Commits) /\ <<k>>[1] = k
  BY <1>6, <1>10 DEF CommitOK
<1>13. m \in Messages /\ m.type = "commit" /\ m.body[1] = k
  <2>1. PICK b \in Seq(Commits) : b = <<k>> /\ b[1] = k
    BY <1>12
  <2>2. m = Msg("commit", b) /\ "commit" \in Types /\ b \in Bodies
    BY <1>11, <2>1 DEF Types, Bodies
  <2>3. m \in Messages /\ m.type = "commit" /\ m.body = b
    BY <2>2, MsgFields
  <2> QED
    BY <2>1, <2>3
<1>14. inbox' = inbox \/ inbox' = BroadcastFrom(inbox, d, m)
  BY <1>1, <1>10, <1>11 DEF Remove, RemoveChange
<1>15. inbox' \in Inboxes /\ \A e \in Devices : Mail(inbox', e) \subseteq Mail(inbox, e) \cup {m}
  <2>1. CASE inbox' = inbox
    BY <1>0, <2>1
  <2>2. CASE inbox' = BroadcastFrom(inbox, d, m)
    BY <1>0, <1>13, <2>2, BroadcastMail
  <2> QED
    BY <1>14, <2>1, <2>2
<1>16. \A e \in Devices : MsgOK(m, Born, Waiting, chan[e].ready) /\ KeyMsgOK(m, e, claim)
  BY <1>6, <1>10, <1>13 DEF MsgOK, KeyMsgOK
<1>17. \A e \in Devices : \A x \in Mail(inbox', e) :
           \/ x \in Mail(inbox, e)
           \/ /\ MsgOK(x, Born, Waiting, chan[e].ready)
              /\ mishaps = 0 => KeyMsgOK(x, e, claim)
  BY <1>15, <1>16
<1>18. removals' \in 0..MaxRemovals
       /\ UNCHANGED <<chan, importing, claim, kps, starts, mishaps>>
  BY <1>0, HandshakeAssumption DEF Remove, Typed
<1>19. HasGroup(mgr'[d]) => GroupOK(mgr'[d].group, Born, Waiting)
  BY <1>4, <1>8
<1> QED
  BY <1>8, <1>9, <1>15, <1>17, <1>18, <1>19, GroupInv


\* addMember: the commit for the others, and the Welcome that follows it.
LEMMA OnFetchedInv ==
  ASSUME HandInv, NEW d \in Devices, OnFetched(d)
  PROVE  HandInv'
<1>0. Typed /\ Sound
  BY DEF HandInv
<1>1. /\ inbox[d] # <<>> /\ Head(inbox[d]).type = "fetched"
      /\ Head(inbox[d]).body = Body(d)
  BY DEF OnFetched, Next1, Body
<1>2. PICK q : q = Rest(d)
  OBVIOUS
<1>3. /\ q \in Inboxes /\ \A e \in Devices : Mail(q, e) \subseteq Mail(inbox, e)
      /\ MsgOK(Head(inbox[d]), Born, Waiting, chan[d].ready)
  BY <1>1, <1>2, HandlerMail
<1>4. Body(d) \in Fetched /\ chan[d].ready
  BY <1>1, <1>3 DEF MsgOK
<1>5. PICK uid \in Devices : uid = Body(d).uid
  BY <1>4 DEF Fetched
<1>6. PICK package \in Packages \cup {NoPackage} : package = Body(d).package
  BY <1>4 DEF Fetched
<1>7. UNCHANGED <<chan, importing, claim, kps, starts, mishaps, removals>>
      /\ removals' \in 0..MaxRemovals
  BY <1>0 DEF OnFetched, Typed
<1>8. CASE inbox' = q /\ UNCHANGED mgr
  BY <1>3, <1>7, <1>8, SendInv
<1>9. CASE /\ package # NoPackage /\ CanAddMember(mgr[d], package)
           /\ LET packed == Pack(<<Commit(mgr[d], AddChange(mgr[d], package))>>,
                                 <<Welcome(mgr[d], package)>>)
                  result == UnpackAddMember(packed)
              IN  inbox' = Reply(BroadcastFrom(q, d, Msg("commit", result.commit)), d,
                                 Msg("committed", [uid |-> uid, welcome |-> result.welcome]))
           /\ mgr' = [mgr EXCEPT ![d] = AddMember(mgr[d], package)]
  <2>1. package \in Packages /\ IsOperational(mgr[d]) /\ HasGroup(mgr[d])
    BY <1>9 DEF CanAddMember, IsOperational
  <2>2. PICK who \in Session : who = package.owner
    BY <2>1 DEF Packages
  <2>3. PICK c : c = Change(mgr[d].me, "add", who)
    OBVIOUS
  <2>4. PICK G : G = After(mgr[d].group, c)
    OBVIOUS
  <2>5. GroupOK(G, Born, Waiting)
    BY <1>4, <2>1, <2>3, <2>4, ChangeOK
  <2>6. HasAdd(G.epoch, who)
    BY <1>4, <2>1, <2>3, <2>4, ChangeOK
  <2>7. HasAdd(mgr[d].group.epoch, mgr[d].me) => HasAdd(G.epoch, mgr[d].me)
    BY <1>4, <2>1, <2>3, <2>4, ChangeOK
  <2>8. PICK k : k = Commit(mgr[d], c)
    OBVIOUS
  <2>9. CommitOK(k, Born, Waiting)
    BY <1>4, <2>1, <2>3, <2>4, <2>8, ChangeOK
  <2>10. PICK w : w = [package |-> package, group |-> G]
    OBVIOUS
  <2>11. w \in Welcomes /\ WelcomeOK(w, Born, Waiting)
    <3>1. w \in Welcomes /\ w.group = G /\ w.package.owner = who
      BY <2>1, <2>2, <2>5, <2>10 DEF Welcomes, GroupOK
    <3> QED
      BY <2>5, <2>6, <3>1 DEF WelcomeOK
  <2>12. PICK p : p = Pack(<<k>>, <<w>>)
    OBVIOUS
  <2>13. k \in Commits
    BY <2>9 DEF CommitOK
  <2>14. PICK cs : cs = UnpackAddMember(p).commit
    OBVIOUS
  <2>15. PICK ws : ws = UnpackAddMember(p).welcome
    OBVIOUS
  <2>16. cs \in Seq(Commits) /\ cs[1] = k
    BY <2>11, <2>12, <2>13, <2>14, Unpacked
  <2>17. ws \in Seq(Welcomes) /\ ws[1] = w
    BY <2>11, <2>12, <2>13, <2>15, Unpacked
  <2>18. PICK b : b = [uid |-> uid, welcome |-> ws]
    OBVIOUS
  <2>19. b \in Invitations /\ b.welcome = ws
    BY <2>17, <2>18 DEF Invitations
  <2>20. PICK m : m = Msg("commit", cs)
    OBVIOUS
  <2>21. PICK n : n = Msg("committed", b)
    OBVIOUS
  <2>22. m \in Messages /\ m.type = "commit" /\ m.body = cs
    <3>1. "commit" \in Types /\ cs \in Bodies
      BY <2>16 DEF Types, Bodies
    <3> QED
      BY <2>20, <3>1, MsgFields
  <2>23. n \in Messages /\ n.type = "committed" /\ n.body = b
    <3>1. "committed" \in Types /\ b \in Bodies
      BY <2>19 DEF Types, Bodies
    <3> QED
      BY <2>21, <3>1, MsgFields
  <2>24. Commit(mgr[d], AddChange(mgr[d], package)) = k /\ Welcome(mgr[d], package) = w
    BY <2>2, <2>3, <2>4, <2>8, <2>10 DEF AddChange, Welcome
  <2>25. inbox' = Reply(BroadcastFrom(q, d, m), d, n)
    BY <1>9, <2>12, <2>14, <2>15, <2>18, <2>20, <2>21, <2>24
  <2>26. inbox' \in Inboxes
    BY <1>3, <2>22, <2>23, <2>25, SendMail
  <2>27. \A e \in Devices : Mail(inbox', e) \subseteq
           Mail(q, e) \cup {m} \cup (IF e = d THEN {n} ELSE {})
    BY <1>3, <2>22, <2>23, <2>25, SendMail
  <2>28. \A e \in Devices : MsgOK(m, Born, Waiting, chan[e].ready) /\ KeyMsgOK(m, e, claim)
    BY <2>9, <2>16, <2>22 DEF MsgOK, KeyMsgOK
  <2>29. MsgOK(n, Born, Waiting, chan[d].ready) /\ KeyMsgOK(n, d, claim)
    BY <1>4, <2>11, <2>17, <2>19, <2>23 DEF MsgOK, KeyMsgOK
  <2>30. \A e \in Devices : \A x \in Mail(inbox', e) :
           \/ x \in Mail(inbox, e)
           \/ /\ MsgOK(x, Born, Waiting, chan[e].ready)
              /\ mishaps = 0 => KeyMsgOK(x, e, claim)
    BY <1>3, <2>27, <2>28, <2>29
  <2>31. G \in Groups /\ mgr' = [mgr EXCEPT ![d] = [mgr[d] EXCEPT !.group = G]]
    BY <1>9, <2>2, <2>3, <2>4, <2>5 DEF GroupOK, AddMember, AddChange
  <2>32. /\ mgr' \in [Devices -> Managers]
         /\ \A e \in Devices \ {d} : mgr'[e] = mgr[e]
         /\ mgr'[d].me = mgr[d].me /\ mgr'[d].packages = mgr[d].packages
         /\ mgr'[d].group = G
    BY <1>0, <2>31, GroupChange
  <2>33. Invited(mgr[d]) => Invited(mgr'[d])
    BY <2>7, <2>31, <2>32, HandshakeAssumption DEF Invited, HasGroup
  <2>34. HasGroup(mgr'[d]) => GroupOK(mgr'[d].group, Born, Waiting)
    BY <2>5, <2>32
  <2> QED
    BY <1>7, <2>26, <2>30, <2>32, <2>33, <2>34, GroupInv
<1> QED
  BY <1>2, <1>5, <1>6, <1>8, <1>9 DEF OnFetched, Drop

-----------------------------------------------------------------------------
(* Reload: another session of the device, with nothing in memory.          *)

LEMMA ReloadInv ==
  ASSUME HandInv, NEW d \in Devices, Reload(d)
  PROVE  HandInv'
<1>0. Typed /\ Sound
  BY DEF HandInv
<1>1. PICK s \in 1..MaxStarts : s = starts[d] + 1
  BY <1>0, HandshakeAssumption DEF Reload, Typed
<1>2. PICK me \in Session : me = <<d, s>>
  BY DEF Session
<1>3. /\ starts' \in [Devices -> 1..MaxStarts] /\ starts'[d] = s
      /\ \A e \in Devices \ {d} : starts'[e] = starts[e]
  BY <1>0, <1>1 DEF Reload, Typed
<1>4. PICK g : g = NewManager(me)
  OBVIOUS
<1>5. g \in Managers /\ g.me = me /\ g.packages = {} /\ g.group = NoGroup
  BY <1>4 DEF NewManager, Managers
<1>6. /\ mgr' \in [Devices -> Managers] /\ mgr'[d] = g
      /\ \A e \in Devices \ {d} : mgr'[e] = mgr[e]
  <2>1. mgr \in [Devices -> Managers] /\ mgr' = [mgr EXCEPT ![d] = g]
    BY <1>0, <1>2, <1>3, <1>4 DEF Reload, Typed
  <2> QED
    BY <1>5, <2>1
<1>7. /\ chan' \in [Devices -> Chans] /\ ~chan'[d].ready /\ chan'[d].cek = NoKey
      /\ \A e \in Devices \ {d} : chan'[e] = chan[e]
  BY <1>0 DEF Reload, Typed, Chans, NewChannel, Phases
<1>8. /\ importing' \in [Devices -> SUBSET Imports] /\ importing'[d] = {}
      /\ \A e \in Devices \ {d} : importing'[e] = importing[e]
  BY <1>0 DEF Reload, Typed
<1>9. /\ inbox' \in Inboxes /\ inbox'[d] = <<>>
      /\ \A e \in Devices \ {d} : inbox'[e] = inbox[e]
  BY <1>0 DEF Reload, Typed, Inboxes
<1>10. mishaps' \in Nat /\ mishaps' # 0 /\ UNCHANGED <<claim, kps, removals>>
  BY <1>0 DEF Reload, Typed
<1>11. \A e \in Devices : mgr'[e].me = <<e, starts'[e]>>
  BY <1>0, <1>2, <1>3, <1>5, <1>6 DEF Typed
<1>12. Typed'
  BY <1>0, <1>3, <1>6, <1>7, <1>8, <1>9, <1>10, <1>11 DEF Typed, Inboxes
<1>13. PICK B : B = Born
  OBVIOUS
<1>14. PICK W : W = Waiting
  OBVIOUS
<1>15. PICK B2 : B2 = Born'
  OBVIOUS
<1>16. PICK W2 : W2 = Waiting'
  OBVIOUS
<1>17. B \subseteq B2
  <2> SUFFICES ASSUME NEW x \in Session, x[2] <= starts[x[1]] PROVE x[2] <= starts'[x[1]]
    BY <1>13, <1>15 DEF Born
  <2>1. PICK e \in Devices, n \in 1..MaxStarts : x = <<e, n>>
    BY DEF Session
  <2>2. x[1] = e /\ x[2] = n
    BY <2>1
  <2>3. starts[e] \in 1..MaxStarts /\ starts[d] \in 1..MaxStarts
    BY <1>0 DEF Typed
  <2>4. CASE e = d
    BY <1>1, <1>3, <2>2, <2>3, <2>4
  <2>5. CASE e # d
    BY <1>3, <2>2, <2>3, <2>5
  <2> QED
    BY <2>4, <2>5
<1>18. me \notin B
  <2>1. me[1] = d /\ me[2] = s /\ starts[d] \in 1..MaxStarts
    BY <1>0, <1>2 DEF Typed
  <2>2. ~(s <= starts[d])
    BY <1>1, <2>1
  <2> QED
    BY <1>13, <2>1, <2>2 DEF Born
<1>19. W2 \cap B \subseteq W
  <2> SUFFICES ASSUME NEW e \in Devices, ~chan'[e].ready, mgr'[e].me \in B
               PROVE  mgr'[e].me \in W
    BY <1>16 DEF Waiting
  <2>1. e # d
    BY <1>5, <1>6, <1>18
  <2>2. mgr'[e] = mgr[e] /\ ~chan[e].ready
    BY <1>6, <1>7, <2>1
  <2> QED
    BY <1>14, <2>2 DEF Waiting
<1>20. Sound'
  <2>1. \A e \in Devices : \A p \in mgr'[e].packages : p.owner = mgr'[e].me
    BY <1>0, <1>5, <1>6 DEF Sound
  <2>2. \A e \in Devices : HasGroup(mgr'[e]) => GroupOK(mgr'[e].group, B2, W2)
    <3>1. \A e \in Devices : HasGroup(mgr'[e]) => GroupOK(mgr'[e].group, B, W)
      BY <1>0, <1>5, <1>6, <1>13, <1>14 DEF Sound, HasGroup
    <3>2. \A x : GroupOK(x, B, W) => GroupOK(x, B2, W2)
      BY <1>17, <1>19, SoundStays
    <3> QED
      BY <3>1, <3>2
  <2>3. ASSUME NEW e \in Devices, NEW m \in Mail(inbox', e)
        PROVE  MsgOK(m, B2, W2, chan'[e].ready)
    <3>1. e # d
      BY <1>9, <2>3 DEF Mail
    <3>2. m \in Mail(inbox, e) /\ chan'[e] = chan[e]
      BY <1>7, <1>9, <2>3, <3>1 DEF Mail
    <3>3. PICK r : r = chan[e].ready
      OBVIOUS
    <3>4. MsgOK(m, B, W, r)
      BY <1>0, <1>13, <1>14, <3>2, <3>3 DEF Sound
    <3>5. MsgOK(m, B2, W2, r)
      BY <1>17, <1>19, <3>4, MsgStays
    <3> QED
      BY <3>2, <3>3, <3>5
  <2>4. \A e \in Devices : \A i \in importing'[e] : i.key = mgr'[e].me \/ Invited(mgr'[e])
    BY <1>0, <1>6, <1>8 DEF Sound
  <2>5. \A e \in Devices : chan'[e].cek \in {NoKey, mgr'[e].me} \/ Invited(mgr'[e])
    BY <1>0, <1>6, <1>7 DEF Sound
  <2>6. \A e \in Devices : chan'[e].ready => chan'[e].cek \in Session
    BY <1>0, <1>7 DEF Sound
  <2>7. \A e \in Devices : \A m \in Mail(inbox', e) : MsgOK(m, B2, W2, chan'[e].ready)
    BY <2>3
  <2> QED
    BY <1>15, <1>16, <2>1, <2>2, <2>4, <2>5, <2>6, <2>7 DEF Sound, Mail, HasGroup, Invited
<1> QED
  BY <1>10, <1>12, <1>20 DEF HandInv

\* The socket of d breaks: its mail is lost, and its join may be stuck.
LEMMA BreakInv ==
  ASSUME HandInv, NEW d \in Devices, Break(d)
  PROVE  HandInv'
<1>1. Typed /\ Sound
  BY DEF HandInv
<1>2. /\ inbox' \in Inboxes /\ inbox'[d] = <<>>
      /\ \A e \in Devices \ {d} : inbox'[e] = inbox[e]
  BY <1>1 DEF Break, Typed, Inboxes
<1>3. ASSUME NEW e \in Devices, NEW m \in Mail(inbox', e) PROVE m \in Mail(inbox, e)
  <2>1. e # d
    BY <1>2, <1>3 DEF Mail
  <2> QED
    BY <1>2, <1>3, <2>1 DEF Mail
<1>4. /\ chan' \in [Devices -> Chans]
      /\ \A e \in Devices : chan'[e].ready = chan[e].ready /\ chan'[e].cek = chan[e].cek
  <2>1. CASE chan' = [chan EXCEPT ![d].phase = "stuck"]
    BY <1>1, <2>1, PhaseChange DEF Typed, Phases
  <2>2. CASE chan' = chan
    BY <1>1, <2>2 DEF Typed
  <2> QED
    BY <2>1, <2>2 DEF Break
<1>5. mishaps' \in Nat /\ mishaps' # 0
  BY <1>1 DEF Break, Typed
<1>6. Typed'
  BY <1>1, <1>2, <1>4, <1>5 DEF Break, Typed, Inboxes
<1>7. Sound'
  BY <1>1, <1>3, <1>4, <1>6, QuietStep DEF Break
<1> QED
  BY <1>5, <1>6, <1>7 DEF HandInv

\* The transport has joined the topic again.
LEMMA RejoinInv ==
  ASSUME HandInv, NEW d \in Devices, Rejoin(d)
  PROVE  HandInv'
<1> USE DEF HandInv
<1>1. PICK m : m = Msg("presence_join", d)
  OBVIOUS
<1>2. m \in Messages
  BY <1>1, MsgFields DEF Types, Bodies
<1>3. inbox \in Inboxes
  BY DEF Typed, Inboxes
<1>4. inbox' \in Inboxes /\ \A e \in Devices : Mail(inbox', e) \subseteq Mail(inbox, e) \cup {m}
  BY <1>1, <1>2, <1>3, BroadcastMail DEF Rejoin
<1>5. Typed'
  BY <1>4 DEF Rejoin, Typed, Inboxes
<1>6. \A e \in Devices : MsgOK(m, Born, Waiting, chan[e].ready)
  BY <1>1, PlainMsg
<1>7. Sound'
  BY <1>4, <1>5, <1>6, QuietStep DEF Rejoin
<1>8. \A e \in Devices : KeyMsgOK(m, e, claim')
  BY <1>1, PlainKeyMsg
<1>9. ASSUME OneKey PROVE OneKey'
  BY <1>4, <1>8, <1>9, QuietKey DEF Rejoin
<1> QED
  BY <1>5, <1>7, <1>9 DEF Rejoin

-----------------------------------------------------------------------------
(* The theorems.                                                           *)

LEMMA HandInit == Init => HandInv
<1> SUFFICES ASSUME Init PROVE HandInv
  OBVIOUS
<1>1. \A d \in Devices : <<d, 1>> \in Session /\ NewManager(<<d, 1>>) \in Managers
                         /\ NewManager(<<d, 1>>).me = <<d, 1>>
                         /\ NewManager(<<d, 1>>).packages = {}
                         /\ NewManager(<<d, 1>>).group = NoGroup
  BY HandshakeAssumption DEF NewManager, Managers, Session
<1>2. NewChannel \in Chans /\ ~NewChannel.ready /\ NewChannel.cek = NoKey
  BY DEF NewChannel, Chans, Phases
<1>3. \A d \in Devices : /\ mgr[d] \in Managers /\ mgr[d].me = <<d, 1>>
                         /\ mgr[d].packages = {} /\ mgr[d].group = NoGroup
                         /\ chan[d] \in Chans /\ ~chan[d].ready /\ chan[d].cek = NoKey
                         /\ starts[d] = 1 /\ importing[d] = {} /\ inbox[d] = <<>>
  BY <1>1, <1>2 DEF Init
<1>4. Typed
  <2>1. /\ mgr \in [Devices -> Managers] /\ chan \in [Devices -> Chans]
        /\ \A d \in Devices : mgr[d].me = <<d, starts[d]>>
    BY <1>1, <1>2, <1>3 DEF Init
  <2>2. inbox \in [Devices -> Seq(Messages)]
    BY DEF Init
  <2> QED
    BY <2>1, <2>2, HandshakeAssumption DEF Init, Typed
<1>5. \A d \in Devices : Mail(inbox, d) = {}
  BY <1>3 DEF Mail
<1>6. Sound
  BY <1>3, <1>5 DEF Sound, HasGroup
<1>7. OneKey
  BY <1>3, <1>5 DEF OneKey
<1> QED
  BY <1>4, <1>6, <1>7 DEF HandInv

LEMMA HandNext == HandInv /\ [Next]_vars => HandInv'
<1> SUFFICES ASSUME HandInv, [Next]_vars PROVE HandInv'
  OBVIOUS
<1>1. CASE LoseClaim
  BY <1>1, LoseClaimInv
<1>2. ASSUME NEW d \in Devices, Handle(d) PROVE HandInv'
  BY <1>2, OnUploadedInv, OnGroupInfoInv, OnGroupInfoLateInv, OnCommitInv, OnWelcomeInv,
     OnCekInv, OnNewcomerInv, OnFetchedInv, OnCommittedInv, OnWelcomedInv DEF Handle
<1>3. ASSUME NEW d \in Devices, Join(d) \/ Upload(d) \/ Timeout(d) \/ Reload(d) PROVE HandInv'
  BY <1>3, JoinInv, UploadInv, TimeoutInv, ReloadInv
<1>4. ASSUME NEW d \in Devices, NEW i \in importing[d], ImportCek(d, i) PROVE HandInv'
  BY <1>4, ImportCekInv
<1>5. ASSUME NEW d \in Devices, NEW who \in Session, Remove(d, who) PROVE HandInv'
  BY <1>5, RemoveInv
<1>6. ASSUME NEW d \in Devices, Break(d) \/ Rejoin(d) PROVE HandInv'
  BY <1>6, BreakInv, RejoinInv
<1>7. CASE UNCHANGED vars
  <2>1. UNCHANGED <<mgr, chan, importing, inbox, claim, kps, starts, mishaps, removals>>
        /\ Typed /\ Sound
    BY <1>7 DEF vars, HandInv
  <2>2. Typed'
    BY <2>1 DEF Typed
  <2>3. Sound'
    BY <2>1, <2>2, QuietStep
  <2>4. ASSUME OneKey PROVE OneKey'
    BY <2>1, <2>4, QuietKey
  <2> QED
    BY <2>1, <2>2, <2>3, <2>4 DEF HandInv
<1> QED
  BY <1>1, <1>2, <1>3, <1>4, <1>5, <1>6, <1>7 DEF Next

\* The link of a device, which the other parts of the invariant do not need.
LinkTyped == link \in [Devices -> {"up", "down", "deaf"}]

LEMMA LinkNext == LinkTyped /\ [Next]_vars => LinkTyped'
<1> SUFFICES ASSUME LinkTyped, [Next]_vars PROVE LinkTyped'
  OBVIOUS
<1>1. CASE UNCHANGED link
  BY <1>1 DEF LinkTyped
<1>2. ASSUME NEW d \in Devices, Break(d) \/ Rejoin(d) \/ Reload(d) PROVE LinkTyped'
  BY <1>2 DEF LinkTyped, Break, Rejoin, Reload
<1>3. ASSUME NEW d \in Devices, Handle(d) PROVE UNCHANGED link
  BY <1>3 DEF Handle, OnUploaded, OnGroupInfo, OnGroupInfoLate, OnCommit, OnWelcome, OnCek,
              OnNewcomer, OnFetched, OnCommitted, OnWelcomed
<1>4. ASSUME NEW d \in Devices, Join(d) \/ Upload(d) \/ Timeout(d) PROVE UNCHANGED link
  BY <1>4 DEF Join, Upload, Timeout
<1>5. ASSUME NEW d \in Devices, NEW i \in importing[d], ImportCek(d, i) PROVE UNCHANGED link
  BY <1>5 DEF ImportCek
<1>6. ASSUME NEW d \in Devices, NEW who \in Session, Remove(d, who) PROVE UNCHANGED link
  BY <1>6 DEF Remove
<1> QED
  BY <1>1, <1>2, <1>3, <1>4, <1>5, <1>6 DEF Next, LoseClaim, vars

LEMMA HandInvariant == Spec => []HandInv
<1> QED
  BY HandInit, HandNext, PTL DEF Spec

\* Type correctness of the devices, the cache and the database, for any number
\* of devices and page loads; the key that a ready device holds is a session's.
THEOREM HandTypeOK == Spec => []TypeOK
<1>1. HandInv /\ LinkTyped => TypeOK
  BY DEF HandInv, Typed, TypeOK, Chans, Imports, LinkTyped
<1>2. Init => LinkTyped
  BY DEF Init, LinkTyped
<1> QED
  BY <1>1, <1>2, LinkNext, HandInvariant, PTL DEF Spec

\* As long as no claim was lost, no page reloaded, no socket broke and no one waited
\* in vain, all ready devices hold the key of the session that made the claim in the cache.
THEOREM HandSharedKey == Spec => []SharedKey
<1>1. HandInv => SharedKey
  BY DEF HandInv, OneKey, SharedKey
<1> QED
  BY <1>1, HandInvariant, PTL

\* Whatever is lost or reloaded: a device that uses a key of another session was
\* added to its group by a commit, so CEK broadcasts open for invited members only.
THEOREM HandOnlyInvited == Spec => []OnlyInvited
<1>1. ASSUME HandInv PROVE OnlyInvited
  <2> SUFFICES ASSUME NEW d \in Devices, chan[d].cek \notin {NoKey, mgr[d].me}
               PROVE  \E i \in DOMAIN mgr[d].group.epoch :
                        /\ mgr[d].group.epoch[i].op = "add"
                        /\ mgr[d].group.epoch[i].who = mgr[d].me
    BY DEF OnlyInvited
  <2>1. Invited(mgr[d]) /\ GroupOK(mgr[d].group, Born, Waiting)
    BY <1>1 DEF HandInv, Sound, Invited
  <2>2. PICK E : E = mgr[d].group.epoch
    OBVIOUS
  <2>3. E \in Seq(Changes) /\ DOMAIN E = 1..Len(E)
    BY <2>1, <2>2, LenProperties DEF GroupOK, EpochOK
  <2>4. HasAdd(E, mgr[d].me)
    BY <2>1, <2>2 DEF Invited
  <2> QED
    BY <2>2, <2>3, <2>4 DEF HasAdd
<1> QED
  BY <1>1, HandInvariant, PTL


=============================================================================
