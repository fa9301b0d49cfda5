---------------------------- MODULE MessagePath -----------------------------
(***************************************************************************)
(* A message on its way: Channel.send encodes an envelope, the handler of  *)
(* msg:send decodes, validates, limits, stores and encodes it again for    *)
(* everybody on the channel, and their clients decode and show it.  The    *)
(* other events of a channel that carry Cap'n Proto structs take the same  *)
(* way: typing, read receipts, commits and key packages.                   *)
(*                                                                         *)
(* All connections have joined the one channel.  Encryption is left out:   *)
(* content stands for the ciphertext.                                      *)
(***************************************************************************)
EXTENDS Wire

CONSTANTS
  None,
  Conns, Users, UserOf,   \* connections and the user each one serves
  Tenant, Channel,
  Drafts,       \* <<size, time>> of the messages that clients send
  Overhead,     \* bytes of a push frame around the content
  MaxFrame,     \* max_frame_size of the endpoint
  Rate,         \* default_rate
  Window,       \* ticks until the rate counter expires
  MaxTime,      \* bound on the clock
  MaxSends,     \* bound: messages
  MaxEvents,    \* bound: other events
  Faults        \* whether the cache and the database may fail

\* The byte strings of the model, and the Cap'n Proto structs made of them.
Values == Nat \cup Users \cup {NoBytes, Tenant, Channel, "commit", "welcome", "package"}
ByteString == [kind : {"data"}, val : Values, size : Nat]
Pointer == ByteString \cup [kind : {"list"}, items : Seq(ByteString)]
Structs == [words : Seq(Nat), ptrs : Seq(Pointer)]

\* Garbage is no struct, and an error is no result of a codec.
ASSUME PathAssumption ==
  /\ IsFiniteSet(Conns) /\ UserOf \in [Conns -> Users] /\ Drafts \subseteq Nat \X Nat
  /\ {Overhead, MaxFrame, Rate, Window, MaxTime, MaxSends, MaxEvents} \subseteq Nat
  /\ Faults \in BOOLEAN
  /\ Garbage \notin Structs
  /\ \A x \in {Failed, Raised} :
       x \notin Structs \cup ByteString \cup [user : ByteString, message : ByteString]

VARIABLES
  now,        \* the clock of the cache
  open,       \* the connections that are up
  inbox,      \* inbox[c]: broadcasts on their way to c's client
  shown,      \* shown[c]: what c's client handed to its handlers
  counter,    \* counter[u]: the rate counter of u and when it expires
  tasks,      \* rows that a task is about to write
  rows,       \* mercury.messages
  packages,   \* packages[c]: the key package of c's device
  sends, events,   \* how many messages and other events there were
  said,       \* history: the facts that clients set out to tell
  accepted,   \* history: messages answered with ok
  refused,    \* history: messages answered with an error
  admitted    \* history: admitted[u]: when the counter let a message of u pass

server == <<counter, tasks, rows, packages>>
history == <<said, accepted, refused, admitted>>
vars == <<now, open, inbox, shown, server, sends, events, history>>

Mine(c) == Id(UserOf[c])

\* What an event tells: who did it, with the message and its content.
Fact(ev, user, message, ts, content) ==
  [ev |-> ev, user |-> user, message |-> message, ts |-> ts, content |-> content]
Event(ev, user, content) == Fact(ev, user, Empty, 0, content)
Entry(env) == Fact("msg:new", env.sender, env.message, env.timestamp, env.payload)

Init ==
  /\ now = 0 /\ open \in SUBSET Conns
  /\ inbox = [c \in Conns |-> <<>>] /\ shown = [c \in Conns |-> {}]
  /\ counter = [u \in Users |-> [n |-> 0, until |-> 0]]
  /\ tasks = {} /\ rows = {} /\ packages = [c \in Conns |-> None]
  /\ sends = 0 /\ events = 0
  /\ said = {} /\ accepted = {} /\ refused = {}
  /\ admitted = [u \in Users |-> <<>>]

-----------------------------------------------------------------------------
(* The gateway: what a handler does with the data of a push on c.          *)

\* broadcast_binary and broadcast_binary_from.
Broadcast(to, ev, data) ==
  inbox' = [c \in Conns |->
    IF c \in to \cap open THEN Append(inbox[c], [ev |-> ev, data |-> data]) ELSE inbox[c]]

\* Mutant: the expiry is set with the first message only, a fixed window.
RateCheckFixed(u) ==
  IF now < counter[u].until
  THEN [allow |-> counter[u].n + 1 <= Rate, next |-> [counter[u] EXCEPT !.n = @ + 1]]
  ELSE [allow |-> 1 <= Rate, next |-> [n |-> 1, until |-> now + Window]]

\* Cache.rate_check: INCR, then EXPIRE, which renews the expiry every time.
RateCheck(u) ==
  LET n == IF now < counter[u].until THEN counter[u].n + 1 ELSE 1
  IN  [allow |-> n <= Rate, next |-> [n |-> n, until |-> now + Window]]

\* RateLimiter.allow?: without the cache everything is allowed.
Limited(c, allowed) ==
  LET u == UserOf[c] check == RateCheck(u)
  IN  \/ /\ allowed = check.allow
         /\ counter' = [counter EXCEPT ![u] = check.next]
         /\ admitted' = IF allowed THEN [admitted EXCEPT ![u] = Append(@, now)]
                        ELSE admitted
      \/ /\ Faults /\ allowed /\ UNCHANGED <<counter, admitted>>

\* The row that persist_message writes.
RowOf(c, env, bucket) ==
  [ch |-> Channel, bucket |-> bucket, msg |-> env.message, sender |-> Mine(c),
   ts |-> env.timestamp, content |-> env.payload]

\* The envelope that goes out: only message id, time and payload come from the
\* one that came in.
Outgoing(c, env) ==
  NifEnvelopeEncode(Id(Tenant), Id(Channel), Mine(c), env.message, env.timestamp,
                    env.payload)

\* An error reply, which rejects the promise of send.
Refuse(c, env, reason) ==
  /\ refused' = refused \cup {[message |-> env.message, reason |-> reason]}
  /\ UNCHANGED <<inbox, tasks, accepted, shown>>

\* The sender's own client shows its message when the reply is there.
Accept(c, env, bucket) ==
  /\ tasks' = tasks \cup {RowOf(c, env, bucket)}
  /\ Broadcast(Conns, "msg:new", Outgoing(c, env))
  /\ accepted' = accepted \cup {env.message}
  /\ shown' = [shown EXCEPT ![c] = @ \cup
       {Fact("msg:new", Mine(c), env.message, env.timestamp, env.payload)}]
  /\ UNCHANGED refused

\* Mutant: the message goes out before its bucket is computed.
AdmitEarly(c, env) ==
  LET bucket == ComputeTimeBucket(env.timestamp)
  IN  IF bucket = Raised
      THEN /\ Broadcast(Conns, "msg:new", Outgoing(c, env))
           /\ refused' = refused \cup {[message |-> env.message, reason |-> "internal_error"]}
           /\ UNCHANGED <<tasks, accepted, shown>>
      ELSE Accept(c, env, bucket)

\* After the limiter: a bucket that does not fit raises, and handle_push
\* rescues; nothing has been stored or sent by then.
Admit(c, env) ==
  LET bucket == ComputeTimeBucket(env.timestamp)
  IN  IF bucket = Raised THEN Refuse(c, env, "internal_error")
      ELSE Accept(c, env, bucket)

\* msg:send.
MsgSend(c, data) ==
  LET env == NifEnvelopeDecode(data)
      verdict == ValidateMessage(Id(Tenant), Id(Channel), Mine(c), env.payload, Text)
  IN  /\ IF env = Raised
         THEN UNCHANGED <<inbox, tasks, accepted, shown, refused, counter, admitted>>
         ELSE IF verdict # "ok"
         THEN Refuse(c, env, verdict) /\ UNCHANGED <<counter, admitted>>
         ELSE \E allowed \in BOOLEAN :
                /\ Limited(c, allowed)
                /\ IF allowed THEN Admit(c, env)
                   ELSE Refuse(c, env, "rate_limited")
      /\ UNCHANGED <<now, open, rows, packages>>

\* The endpoint closes a connection whose frame is too large: the push never
\* reaches its handler and is not answered.
Overrun(c) ==
  /\ open' = open \ {c}
  /\ UNCHANGED <<now, inbox, shown, server, accepted, refused, admitted>>

\* An event for the others, answered with ok.
Relay(c, ev, data) ==
  /\ Broadcast(Conns \ {c}, ev, data)
  /\ UNCHANGED <<now, open, shown, server, accepted, refused, admitted>>

\* msg:read: the receipt goes out under the user of the connection.
MsgRead(c, data) ==
  Relay(c, "msg:read",
        NifReadReceiptEncode(Mine(c), NifReadReceiptDecode(data).message))

\* mls:commit: what can be decoded is sent on as it came.
MlsCommit(c, data) ==
  NifCommitDecode(data) # Raised /\ Relay(c, "mls:commit", data)

\* mls:welcome goes to everybody, in front of it the user it is for.
MlsWelcome(c, payload) ==
  /\ Broadcast(Conns, "mls:welcome", payload)
  /\ UNCHANGED <<now, open, shown, server, accepted, refused, admitted>>

\* msg:typing, which has no reply.
MsgTyping(c) ==
  /\ Broadcast(Conns \ {c}, "msg:typing", NifTypingEncode(Mine(c)))
  /\ UNCHANGED <<now, open, shown, server, accepted, refused, admitted>>

\* mls:key_package: the package of the device is replaced (for the event that
\* announces it see Handshake).
MlsKeyPackage(c, data) ==
  /\ packages' = [packages EXCEPT ![c] = NifKeyPackageDecode(data)]
  /\ UNCHANGED <<now, open, inbox, shown, counter, tasks, rows, accepted, refused,
                 admitted>>

\* mls:fetch_kp: the packages of all devices of a user, in any order.  The
\* client decodes the list.
MlsFetchKp(c, user) ==
  /\ LET of == {d \in Conns : Mine(d) = user /\ packages[d] # None}
     IN  \E order \in [1..Cardinality(of) -> of] :
           /\ \A d \in of : \E i \in DOMAIN order : order[i] = d
           /\ LET bin == NifKeyPackageListEncode([i \in DOMAIN order |-> packages[order[i]]])
                  list == IF bin = Raised THEN <<>> ELSE MlsKeyPackageListDecode(bin)
              IN  shown' = [shown EXCEPT ![c] = @ \cup
                              {Event("mls:fetch_kp", user, list[i]) : i \in DOMAIN list}]
  /\ UNCHANGED <<now, open, inbox, server, accepted, refused, admitted>>

\* msg:history: the rows, each as an envelope, which the client decodes (for
\* the limit, the buckets and the cache see Stores).
MsgHistory(c) ==
  /\ LET page == {NifEnvelopeEncode(Id(Tenant), Id(Channel), r.sender, r.msg, r.ts,
                                    r.content) : r \in rows}
     IN  shown' = [shown EXCEPT ![c] = @ \cup {Entry(EnvelopeFields(e)) : e \in page}]
  /\ UNCHANGED <<now, open, inbox, server, accepted, refused, admitted>>

\* The task of persist_message: Messages.write.
WriteMessage(r) ==
  /\ tasks' = tasks \ {r}
  /\ rows' = Upsert(rows, {[r EXCEPT !.bucket = IntColumn(@)]})
  /\ UNCHANGED <<now, open, inbox, shown, counter, packages, sends, events, history>>

\* The database fails, or the driver refuses a bucket that is no int.
WriteFails(r) ==
  /\ Faults \/ r.bucket > MaxInt
  /\ tasks' = tasks \ {r}
  /\ UNCHANGED <<now, open, inbox, shown, counter, rows, packages, sends, events, history>>

-----------------------------------------------------------------------------
(* The client's calls.  A push, its handling and its reply are one step:   *)
(* only the client waits for them.                                         *)

\* The number of bytes of a push with an envelope.
FrameSize(data) == Ptr(data, 5).size + Overhead

\* Channel.send while connected, with a fresh message id.
Send(c, size, ts) ==
  LET message == Id(sends + 1)
      content == Bytes(sends + 1, size)
      data == EnvelopeEncode(Id(Tenant), Id(Channel), Mine(c), message, ts, content)
  IN  /\ c \in open
      /\ sends < MaxSends /\ sends' = sends + 1 /\ UNCHANGED events
      /\ said' = said \cup {Fact("msg:new", Mine(c), message, ts, content)}
      /\ IF FrameSize(data) > MaxFrame THEN Overrun(c) ELSE MsgSend(c, data)

\* Bytes that are no envelope where one belongs, as from a client that is built
\* from another schema.
SendOther(c, data) ==
  /\ c \in open
  /\ events < MaxEvents /\ events' = events + 1 /\ UNCHANGED <<sends, said>>
  /\ MsgSend(c, data)

\* Another event of a channel.
Tell(c, fact) ==
  /\ c \in open
  /\ events < MaxEvents /\ events' = events + 1 /\ UNCHANGED sends
  /\ said' = said \cup {fact}

MarkRead(c, message) ==
  /\ Tell(c, Fact("msg:read", Mine(c), message, 0, Empty))
  /\ MsgRead(c, ReadReceiptEncode(Mine(c), message))
SendTyping(c) ==
  /\ Tell(c, Event("msg:typing", Mine(c), Empty))
  /\ MsgTyping(c)
SendCommit(c) ==
  LET commit == Bytes("commit", 1)
  IN  /\ Tell(c, Event("mls:commit", Empty, commit))
      /\ MlsCommit(c, MlsCommitEncode(commit))
SendWelcome(c, u) ==
  LET welcome == Bytes("welcome", 1)
  IN  /\ Tell(c, Event("mls:welcome", Id(u), welcome))
      /\ MlsWelcome(c, [uid |-> Id(u), capnp |-> MlsWelcomeEncode(welcome, Id(u))])
UploadKeyPackage(c) ==
  LET package == Bytes("package", 1)
  IN  /\ Tell(c, Event("mls:fetch_kp", Mine(c), package))
      /\ MlsKeyPackage(c, MlsKeyPackageEncode(package))

\* fetchKeyPackages of a user; it tells nothing.
FetchKeyPackages(c, u) ==
  /\ c \in open /\ MlsFetchKp(c, Id(u))
  /\ UNCHANGED <<sends, events, said>>

\* Channel.history.
History(c) == c \in open /\ MsgHistory(c) /\ UNCHANGED <<sends, events, said>>

-----------------------------------------------------------------------------
(* Back at the clients.                                                    *)

\* Mutant: only messages of the own user are shown.
ReadingOwn(c, e) ==
  IF e.ev # "msg:new" THEN None
  ELSE LET env == EnvelopeFields(e.data)
       IN  IF env.sender # Mine(c) THEN None
           ELSE Entry(env)

\* What the client reads out of an event; None when it shows nothing, as for
\* messages of its own user and Welcomes for others.
Reading(c, e) ==
  CASE e.ev = "msg:new" ->
         LET env == EnvelopeFields(e.data)
         IN  IF env.sender = Mine(c) THEN None
             ELSE Entry(env)
    [] e.ev = "msg:typing" -> Event("msg:typing", TypingDecode(e.data), Empty)
    [] e.ev = "msg:read" ->
         LET rr == ReadReceiptDecode(e.data)
         IN  Fact("msg:read", rr.user, rr.message, 0, Empty)
    [] e.ev = "mls:commit" -> Event("mls:commit", Empty, MlsCommitDecode(e.data))
    [] e.ev = "mls:welcome" ->
         IF e.data.uid # Mine(c) THEN None
         ELSE Event("mls:welcome", Mine(c), MlsWelcomeDecode(e.data.capnp).welcome)

\* The handlers that Channel.join registered.
Receive(c) ==
  /\ c \in open /\ inbox[c] # <<>>
  /\ inbox' = [inbox EXCEPT ![c] = Tail(@)]
  /\ shown' = [shown EXCEPT ![c] = @ \cup ({Reading(c, Head(inbox[c]))} \ {None})]
  /\ UNCHANGED <<now, open, server, sends, events, history>>

Tick ==
  /\ now < MaxTime /\ now' = now + 1
  /\ UNCHANGED <<open, inbox, shown, server, sends, events, history>>

Next ==
  \/ \E c \in Conns :
       \/ \E d \in Drafts : Send(c, d[1], d[2])
       \/ \E data \in {Garbage, TypingEncode(Mine(c))} : SendOther(c, data)
       \/ \E f \in shown[c] : f.ev = "msg:new" /\ MarkRead(c, f.message)
       \/ SendTyping(c) \/ SendCommit(c) \/ UploadKeyPackage(c)
       \/ \E u \in Users \ {UserOf[c]} : SendWelcome(c, u) \/ FetchKeyPackages(c, u)
       \/ History(c)
       \/ Receive(c)
  \/ \E r \in tasks : WriteMessage(r) \/ WriteFails(r)
  \/ Tick

Spec == Init /\ [][Next]_vars

\* A client reads what its connection delivers.
FairSpec == Spec /\ \A c \in Conns : WF_vars(Receive(c))

-----------------------------------------------------------------------------
\* Type correctness, whatever time a client puts into its envelope: a row that is
\* written lies in a bucket that the column, a signed int, can hold
\* (scylla-init.cql:11), a negative one when the bucket needs the 32nd bit.
TypeOK ==
  /\ now \in 0..MaxTime /\ open \subseteq Conns
  /\ \A u \in Users : counter[u].n \in 0..MaxSends
                      /\ counter[u].until \in 0..(MaxTime + Window)
  /\ \A r \in tasks : r.bucket \in 0..MaxBucket
  /\ \A r \in rows : r.bucket \in -(MaxInt + 1)..MaxInt
  /\ \A r \in tasks \cup rows :
       /\ \E d \in Drafts : d[2] = r.ts
       /\ r.content.size \in 1..MaxContent
  /\ \A c \in Conns : packages[c] # None => packages[c].kind = "data"

\* What anybody is shown, and what is stored, is what a client set out to tell,
\* with its user, message id, time and content, after it was encoded, decoded
\* by position and encoded again on the way (MsgSend, MsgRead, MlsFetchKp and
\* the codecs of proto.rs).
Authentic ==
  /\ \A c \in Conns : shown[c] \subseteq said
  /\ \A r \in tasks \cup rows : Fact("msg:new", r.sender, r.msg, r.ts, r.content) \in said

\* A message answered with an error, whether it was invalid, too many or made a
\* NIF panic, has left nothing behind: no row, no task and no broadcast, so that
\* sending it again does not double it.
RefusedLeavesNoTrace ==
  \A m \in {r.message : r \in refused} :
    /\ m \notin accepted /\ \A r \in tasks \cup rows : r.msg # m
    /\ \A c \in Conns :
         /\ \A f \in shown[c] : f.ev = "msg:new" => f.message # m
         /\ \A i \in DOMAIN inbox[c] :
              inbox[c][i].ev = "msg:new" => EnvelopeFields(inbox[c][i].data).message # m

\* Within any Window, not only between two expiries, the counter lets at most
\* Rate messages of a user pass, over all connections of the user, because every
\* message renews the expiry (cache.ex:190).
AtMostRate ==
  \A u \in Users : \A i \in 1..(Len(admitted[u]) - Rate) :
    admitted[u][i + Rate] - admitted[u][i] >= Window

\* The two implementations of the rules for a message agree: the gateway calls
\* invalid exactly what the validator for the browser rejects.
ValidatorsAgree ==
  \A f \in {g \in said : g.ev = "msg:new"} :
    LET answered == f.message \in accepted \cup {r.message : r \in refused}
        invalid == [message |-> f.message, reason |-> "invalid_message"] \in refused
    IN  answered => (invalid <=> ~SdkValidateMessage(f.content, Text))

\* An accepted message comes to every other user whose connection stays up,
\* whatever else is on the way to it.
Delivered ==
  \A m \in {Id(i) : i \in 1..MaxSends}, c \in Conns :
    (m \in accepted /\ c \in open) ~>
      \/ c \notin open
      \/ \E f \in said : f.ev = "msg:new" /\ f.message = m /\ f.user = Mine(c)
      \/ \E f \in shown[c] : f.ev = "msg:new" /\ f.message = m

=============================================================================
