-------------------------------- MODULE Wire --------------------------------
(***************************************************************************)
(* What crosses the wire: the Cap'n Proto codecs of mercury-core, their    *)
(* NIFs, and the validators that are written once for the server and once  *)
(* for the browser.                                                        *)
(*                                                                         *)
(* A Cap'n Proto struct carries no type: it is a list of data words and a  *)
(* list of pointers, read by position, and a reader takes what is missing  *)
(* for zero or empty.  A byte string is its value and its size.            *)
(***************************************************************************)
EXTENDS MessageStore, Sequences

CONSTANTS
  Garbage,      \* bytes that are no Cap'n Proto message
  Failed,       \* capnp::Error, or a panic
  Raised,       \* the exception that a NIF makes of it
  NoBytes,      \* the value of the empty byte string
  NoName,       \* a channel without a name
  IdSize,       \* 16
  MaxContent,   \* MAX_CONTENT_SIZE
  MaxName,      \* MAX_NAME_LEN
  MaxMembers,   \* MAX_CHANNEL_MEMBERS
  MaxPackages,  \* 10,000 key packages in a list
  MaxBucket,    \* u32::MAX
  MaxInt        \* i32::MAX, of a column of type int

ASSUME WireAssumption ==
  /\ IdSize \in Nat \ {0} /\ MaxContent \in Nat \ {0}
  /\ MaxName \in Nat /\ MaxMembers \in Nat /\ MaxPackages \in Nat
  /\ MaxInt \in Nat /\ MaxBucket \in Nat /\ MaxBucket <= 2 * MaxInt + 1

Bytes(val, size) == [kind |-> "data", val |-> val, size |-> size]
Empty == Bytes(NoBytes, 0)
Id(v) == Bytes(v, IdSize)
List(items) == [kind |-> "list", items |-> items]

\* Builder and write_message; Reader: missing fields have their default value,
\* and a list of byte strings is no byte string.
Struct(words, ptrs) == [words |-> words, ptrs |-> ptrs]
Word(s, i) == IF i <= Len(s.words) THEN s.words[i] ELSE 0
Ptr(s, i) == IF i <= Len(s.ptrs) THEN s.ptrs[i] ELSE Empty
Readable(s, n) == s # Garbage /\ \A i \in 1..n : Ptr(s, i).kind = "data"

-----------------------------------------------------------------------------
\* proto.rs, one pair per struct of the schema.  A decoder fails on bytes that
\* it cannot read, never on those of another struct.
EnvelopeEncode(tenant, channel, sender, message, timestamp, payload) ==
  Struct(<<timestamp>>, <<tenant, channel, sender, message, payload>>)
EnvelopeFields(s) ==
  [tenant |-> Ptr(s, 1), channel |-> Ptr(s, 2), sender |-> Ptr(s, 3),
   message |-> Ptr(s, 4), timestamp |-> Word(s, 1), payload |-> Ptr(s, 5)]

\* Mutant: the message id is read from the place before its own.
EnvelopeDecodeShifted(s) ==
  IF Readable(s, 5) THEN [EnvelopeFields(s) EXCEPT !.message = Ptr(s, 3)] ELSE Failed

EnvelopeDecode(s) == IF Readable(s, 5) THEN EnvelopeFields(s) ELSE Failed

TypingEncode(user) == Struct(<<>>, <<user>>)
TypingDecode(s) == IF Readable(s, 1) THEN Ptr(s, 1) ELSE Failed

ReadReceiptEncode(user, message) == Struct(<<>>, <<user, message>>)
ReadReceiptDecode(s) ==
  IF Readable(s, 2) THEN [user |-> Ptr(s, 1), message |-> Ptr(s, 2)] ELSE Failed

MlsKeyPackageEncode(package) == Struct(<<>>, <<package>>)
MlsKeyPackageDecode(s) == IF Readable(s, 1) THEN Ptr(s, 1) ELSE Failed

\* The assertion on the length of the list panics.
MlsKeyPackageListEncode(packages) ==
  IF Len(packages) <= MaxPackages THEN Struct(<<>>, <<List(packages)>>) ELSE Failed
MlsKeyPackageListDecode(s) ==
  IF s # Garbage /\ Ptr(s, 1).kind = "list" THEN Ptr(s, 1).items ELSE Failed

MlsCommitEncode(commit) == Struct(<<>>, <<commit>>)
MlsCommitDecode(s) == IF Readable(s, 1) THEN Ptr(s, 1) ELSE Failed

MlsWelcomeEncode(welcome, user) == Struct(<<>>, <<welcome, user>>)
MlsWelcomeDecode(s) ==
  IF Readable(s, 2) THEN [welcome |-> Ptr(s, 1), user |-> Ptr(s, 2)] ELSE Failed

-----------------------------------------------------------------------------
\* The NIFs around them copy byte strings; what fails in Rust raises in Elixir.
Nif(result) == IF result = Failed THEN Raised ELSE result
NifEnvelopeEncode(tenant, channel, sender, message, timestamp, payload) ==
  Nif(EnvelopeEncode(tenant, channel, sender, message, timestamp, payload))
NifEnvelopeDecode(s) == Nif(EnvelopeDecode(s))
NifTypingEncode(user) == Nif(TypingEncode(user))
NifReadReceiptEncode(user, message) == Nif(ReadReceiptEncode(user, message))
NifReadReceiptDecode(s) == Nif(ReadReceiptDecode(s))
NifKeyPackageDecode(s) == Nif(MlsKeyPackageDecode(s))
NifKeyPackageListEncode(packages) == Nif(MlsKeyPackageListEncode(packages))
NifCommitDecode(s) == Nif(MlsCommitDecode(s))

\* TimeBucket::from_timestamp_ms: a bucket that does not fit in a u32 panics.
BucketPanics(ts) == Bucket(ts) > MaxBucket

\* The NIF compute_time_bucket.
ComputeTimeBucket(ts) == Nif(IF BucketPanics(ts) THEN Failed ELSE Bucket(ts))

\* Mutant: the bucket is taken for a number without a sign.
UnsignedColumn(bucket) == bucket

\* The column bucket_id is an int: when the driver takes a bucket that needs the
\* 32nd bit, it writes the negative number with the same bits.
IntColumn(bucket) == IF bucket <= MaxInt THEN bucket ELSE bucket - (MaxBucket + 1)

\* ContentType and its parser.
Text == 0
Delete == 5
ContentTypes == 0..5

\* Message: what of it validate looks at.
Message(content, type, id, replyTo, createdAt) ==
  [content |-> content, type |-> type, id |-> id, replyTo |-> replyTo,
   createdAt |-> createdAt]

\* Mutant: empty content is not looked for.
ValidateLax(m) ==
  IF m.content.size > MaxContent \/ m.replyTo = m.id THEN "invalid_message" ELSE "ok"

\* Message::validate; a message of the epoch itself fails an assertion.
Validate(m) ==
  CASE \/ m.content.size = 0 /\ m.type # Delete
       \/ m.content.size > MaxContent
       \/ m.replyTo = m.id         -> "invalid_message"
    [] m.createdAt = 0             -> "panic"
    [] OTHER                       -> "ok"

\* The NIF validate_message: the ids must have their size; the message gets a
\* fresh id, no reply_to and the server's time, which is after the epoch.
ValidateMessage(tenant, channel, sender, content, type) ==
  CASE type \notin ContentTypes -> "invalid_content_type"
    [] \E id \in {tenant, channel, sender} : id.size # IdSize -> "invalid_message"
    [] OTHER -> Validate(Message(content, type, Id("fresh"), Empty, 1))

\* validateMessage of the SDK core, for the browser.
SdkValidateMessage(content, type) ==
  ~(content.size = 0 /\ type # Delete) /\ content.size <= MaxContent

-----------------------------------------------------------------------------
\* ChannelType and its parser.
Dm == 0
ChannelTypes == 0..2

\* Channel::validate; the name of a channel is NoName or a byte string.
ChannelOK(type, name, members) ==
  IF type = Dm THEN name = NoName /\ members \in {0, 2}
  ELSE name # NoName /\ name.size \in 1..MaxName /\ members <= MaxMembers

\* The NIF validate_channel: a new channel has no members yet.
ValidateChannel(tenant, type, name) ==
  CASE type \notin ChannelTypes  -> "invalid_channel_type"
    [] tenant.size # IdSize      -> "invalid_channel"
    [] ~ChannelOK(type, name, 0) -> "invalid_channel"
    [] OTHER                     -> "ok"

=============================================================================
