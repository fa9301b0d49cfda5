------------------------- MODULE MessagePath_proofs -------------------------
(***************************************************************************)
(* Proofs about the way of a message, for any users, connections, drafts,  *)
(* limits and rates, whether or not the cache and the database may fail.   *)
(***************************************************************************)
EXTENDS MessagePath, FiniteSetTheorems, SequenceTheorems, TLAPS

-----------------------------------------------------------------------------
(* Byte strings, and codecs that decode by position what they encoded.     *)

\* A byte string has its value and its size.
LEMMA BytesFields ==
  ASSUME NEW v \in Values, NEW n \in Nat
  PROVE  /\ Bytes(v, n) \in ByteString
         /\ Bytes(v, n).kind = "data" /\ Bytes(v, n).val = v /\ Bytes(v, n).size = n
  BY DEF Bytes, ByteString

\* The byte strings that the model names.
LEMMA NamedBytes ==
  /\ Empty \in ByteString /\ Empty.size = 0 /\ Empty.kind = "data"
  /\ Id(Tenant) \in ByteString /\ Id(Channel) \in ByteString
  /\ Id(Tenant).size = IdSize /\ Id(Channel).size = IdSize
  /\ \A u \in Users : Id(u) \in ByteString
  /\ \A c \in Conns : Mine(c) \in ByteString /\ Mine(c).size = IdSize
  /\ \A k \in Nat : Id(k) \in ByteString /\ Id(k).val = k /\ Id(k) # Empty
  /\ Bytes("commit", 1) \in ByteString /\ Bytes("welcome", 1) \in ByteString
  /\ Bytes("package", 1) \in ByteString
<1>1. IdSize \in Nat /\ IdSize # 0 /\ 0 \in Nat /\ 1 \in Nat
  BY WireAssumption
<1>2. \A c \in Conns : UserOf[c] \in Users
  BY PathAssumption
<1>3. NoBytes \in Values /\ Tenant \in Values /\ Channel \in Values
      /\ Users \subseteq Values /\ Nat \subseteq Values
      /\ "commit" \in Values /\ "welcome" \in Values /\ "package" \in Values
  BY DEF Values
<1>4. Empty \in ByteString /\ Empty.size = 0 /\ Empty.kind = "data"
  BY <1>1, <1>3, BytesFields DEF Empty
<1>5. \A v \in Values : Id(v) \in ByteString /\ Id(v).val = v /\ Id(v).size = IdSize
  BY <1>1, BytesFields DEF Id
<1>6. \A v \in Values : Id(v) # Empty
  BY <1>1, <1>4, <1>5
<1>7. Bytes("commit", 1) \in ByteString /\ Bytes("welcome", 1) \in ByteString
      /\ Bytes("package", 1) \in ByteString
  BY <1>1, <1>3, BytesFields
<1>8. \A c \in Conns : Mine(c) \in ByteString /\ Mine(c).size = IdSize
  BY <1>2, <1>3, <1>5 DEF Mine
<1> QED
  BY <1>3, <1>4, <1>5, <1>6, <1>7, <1>8

\* A struct is neither garbage nor an error.
LEMMA StructSound ==
  ASSUME NEW w \in Seq(Nat), NEW p \in Seq(Pointer)
  PROVE  /\ Struct(w, p) \in Structs
         /\ Struct(w, p) \notin {Garbage, Failed, Raised}
         /\ Struct(w, p).words = w /\ Struct(w, p).ptrs = p
<1>1. Struct(w, p) \in Structs
  BY DEF Struct, Structs
<1>2. Struct(w, p) \notin {Garbage, Failed, Raised}
  BY <1>1, PathAssumption
<1>3. Struct(w, p).words = w /\ Struct(w, p).ptrs = p
  BY DEF Struct
<1> QED
  BY <1>1, <1>2, <1>3

\* Structs of one and of two byte strings.
LEMMA SmallStructs ==
  ASSUME NEW a \in ByteString, NEW b \in ByteString
  PROVE  LET one == Struct(<<>>, <<a>>)
             two == Struct(<<>>, <<a, b>>)
         IN  /\ one \in Structs /\ one \notin {Garbage, Failed, Raised}
             /\ two \in Structs /\ two \notin {Garbage, Failed, Raised}
             /\ Ptr(one, 1) = a /\ Readable(one, 1)
             /\ Ptr(two, 1) = a /\ Ptr(two, 2) = b /\ Readable(two, 2)
<1> DEFINE one == Struct(<<>>, <<a>>)
           two == Struct(<<>>, <<a, b>>)
<1>1. a.kind = "data" /\ b.kind = "data" /\ a \in Pointer /\ b \in Pointer
  BY DEF ByteString, Pointer
<1>2. <<>> \in Seq(Nat) /\ <<a>> \in Seq(Pointer) /\ <<a, b>> \in Seq(Pointer)
  BY <1>1
<1>3. one \in Structs /\ one \notin {Garbage, Failed, Raised} /\ one.ptrs = <<a>>
  BY <1>2, StructSound
<1>4. two \in Structs /\ two \notin {Garbage, Failed, Raised} /\ two.ptrs = <<a, b>>
  BY <1>2, StructSound
<1> HIDE DEF one, two
<1>5. Ptr(one, 1) = a /\ Ptr(two, 1) = a /\ Ptr(two, 2) = b
  BY <1>3, <1>4 DEF Ptr
<1>6. Readable(one, 1)
  BY <1>1, <1>3, <1>5 DEF Readable
<1>7. Readable(two, 2)
  <2>1. \A i \in 1..2 : i = 1 \/ i = 2
    OBVIOUS
  <2> QED
    BY <1>1, <1>4, <1>5, <2>1 DEF Readable
<1> QED
  BY <1>3, <1>4, <1>5, <1>6, <1>7 DEF one, two

\* An envelope is read as it was written.
LEMMA EnvelopeRead ==
  ASSUME NEW t \in ByteString, NEW ch \in ByteString, NEW s \in ByteString,
         NEW m \in ByteString, NEW ts \in Nat, NEW p \in ByteString
  PROVE  LET e == EnvelopeEncode(t, ch, s, m, ts, p)
         IN  /\ e \in Structs
             /\ NifEnvelopeEncode(t, ch, s, m, ts, p) = e
             /\ EnvelopeFields(e).sender = s /\ EnvelopeFields(e).message = m
             /\ EnvelopeFields(e).timestamp = ts /\ EnvelopeFields(e).payload = p
             /\ Ptr(e, 5) = p
             /\ Entry(EnvelopeFields(e)) = Fact("msg:new", s, m, ts, p)
             /\ NifEnvelopeDecode(e) # Raised => NifEnvelopeDecode(e) = EnvelopeFields(e)
<1> DEFINE e == EnvelopeEncode(t, ch, s, m, ts, p)
<1>1. t \in Pointer /\ ch \in Pointer /\ s \in Pointer /\ m \in Pointer /\ p \in Pointer
  BY DEF Pointer
<1>2. <<ts>> \in Seq(Nat) /\ <<t, ch, s, m, p>> \in Seq(Pointer)
  BY <1>1
<1>3. e \in Structs /\ e \notin {Garbage, Failed, Raised}
      /\ e.words = <<ts>> /\ e.ptrs = <<t, ch, s, m, p>>
  BY <1>2, StructSound DEF EnvelopeEncode
<1>4. NifEnvelopeEncode(t, ch, s, m, ts, p) = e
  BY <1>3 DEF NifEnvelopeEncode, Nif
<1> HIDE DEF e
<1>5. Ptr(e, 3) = s /\ Ptr(e, 4) = m /\ Ptr(e, 5) = p /\ Word(e, 1) = ts
  BY <1>3 DEF Ptr, Word
<1>6. EnvelopeFields(e).sender = s /\ EnvelopeFields(e).message = m
      /\ EnvelopeFields(e).timestamp = ts /\ EnvelopeFields(e).payload = p
  BY <1>5 DEF EnvelopeFields
<1>7. Entry(EnvelopeFields(e)) = Fact("msg:new", s, m, ts, p)
  BY <1>6 DEF Entry
<1>8. NifEnvelopeDecode(e) # Raised => NifEnvelopeDecode(e) = EnvelopeFields(e)
  BY DEF NifEnvelopeDecode, EnvelopeDecode, Nif
<1> QED
  BY <1>3, <1>4, <1>5, <1>6, <1>7, <1>8 DEF e

\* What is no envelope is garbage, or reads as one without a message.
LEMMA OtherRead ==
  ASSUME NEW c \in Conns, NEW data \in {Garbage, TypingEncode(Mine(c))},
         NifEnvelopeDecode(data) # Raised
  PROVE  /\ NifEnvelopeDecode(data).message = Empty
         /\ NifEnvelopeDecode(data).payload = Empty
         /\ NifEnvelopeDecode(data).timestamp = 0
<1>1. Readable(data, 5) /\ NifEnvelopeDecode(data) = EnvelopeFields(data)
  BY DEF NifEnvelopeDecode, EnvelopeDecode, Nif
<1>2. data # Garbage
  BY <1>1 DEF Readable
<1>3. data.ptrs = <<Mine(c)>> /\ data.words = <<>>
  BY <1>2 DEF TypingEncode, Struct
<1>4. Ptr(data, 4) = Empty /\ Ptr(data, 5) = Empty /\ Word(data, 1) = 0
  BY <1>3 DEF Ptr, Word
<1> QED
  BY <1>1, <1>4 DEF EnvelopeFields

\* The gateway calls a text invalid exactly when the browser's validator does.
LEMMA VerdictAgrees ==
  ASSUME NEW c \in Conns, NEW p \in ByteString
  PROVE  LET verdict == ValidateMessage(Id(Tenant), Id(Channel), Mine(c), p, Text)
         IN  /\ verdict \in {"ok", "invalid_message"}
             /\ verdict = "ok" <=> SdkValidateMessage(p, Text)
             /\ verdict = "ok" => p.size \in 1..MaxContent
<1> DEFINE m == Message(p, Text, Id("fresh"), Empty, 1)
<1>1. Text \in ContentTypes /\ Text # Delete
  BY DEF Text, Delete, ContentTypes
<1>2. ~ \E id \in {Id(Tenant), Id(Channel), Mine(c)} : id.size # IdSize
  BY NamedBytes
<1>3. ValidateMessage(Id(Tenant), Id(Channel), Mine(c), p, Text) = Validate(m)
  BY <1>1, <1>2 DEF ValidateMessage
<1>4. m.content = p /\ m.type = Text /\ m.replyTo = Empty /\ m.id = Id("fresh")
      /\ m.createdAt = 1
  BY DEF Message
<1>5. Id("fresh") # Empty
  <2>1. Id("fresh").size = IdSize
    BY DEF Id, Bytes
  <2> QED
    BY <2>1, NamedBytes, WireAssumption
<1> HIDE DEF m
<1>6. p.size \in Nat /\ MaxContent \in Nat
  BY WireAssumption DEF ByteString
<1>7. CASE p.size = 0 \/ p.size > MaxContent
  <2>1. Validate(m) = "invalid_message"
    BY <1>1, <1>4, <1>7 DEF Validate
  <2>2. ~SdkValidateMessage(p, Text)
    BY <1>1, <1>6, <1>7 DEF SdkValidateMessage
  <2> QED
    BY <1>3, <2>1, <2>2
<1>8. CASE ~(p.size = 0 \/ p.size > MaxContent)
  <2>1. Validate(m) = "ok"
    BY <1>1, <1>4, <1>5, <1>8 DEF Validate
  <2>2. SdkValidateMessage(p, Text) /\ p.size \in 1..MaxContent
    BY <1>1, <1>6, <1>8 DEF SdkValidateMessage
  <2> QED
    BY <1>3, <2>1, <2>2
<1> QED
  BY <1>7, <1>8

-----------------------------------------------------------------------------
(* The inductive invariant.                                                *)

Kinds == {"msg:new", "msg:typing", "msg:read", "mls:commit", "mls:welcome"}
Facts == [ev : Kinds \cup {"mls:fetch_kp"}, user : ByteString, message : ByteString,
          ts : Nat, content : ByteString]
Frames == [ev : Kinds, data : Structs \cup [uid : ByteString, capnp : Structs]]
Rows == [ch : {Channel}, bucket : -(MaxInt + 1)..MaxBucket, msg : ByteString, sender : ByteString,
         ts : {d[2] : d \in Drafts}, content : {b \in ByteString : b.size \in 1..MaxContent}]

Reasons == {"invalid_message", "rate_limited", "internal_error"}
Refusals == [message : ByteString, reason : Reasons]

Typed ==
  /\ now \in 0..MaxTime /\ open \subseteq Conns
  /\ sends \in 0..MaxSends
  /\ inbox \in [Conns -> Seq(Frames)]
  /\ shown \in [Conns -> SUBSET Facts]
  /\ tasks \subseteq Rows /\ rows \subseteq Rows
  /\ \A r \in tasks : r.bucket \in 0..MaxBucket
  /\ \A r \in rows : r.bucket \in -(MaxInt + 1)..MaxInt
  /\ packages \in [Conns -> ByteString \cup {None}]
  /\ said \subseteq Facts /\ refused \subseteq Refusals

\* The broadcasts on their way to a client.
Mail(c) == {inbox[c][i] : i \in DOMAIN inbox[c]}

\* What was told is all that anybody can come to know: what is shown and stored
\* already, what a frame on its way will be read as, and what a package holds.
Honest ==
  /\ \A c \in Conns : shown[c] \subseteq said
  /\ \A r \in tasks \cup rows : Fact("msg:new", r.sender, r.msg, r.ts, r.content) \in said
  /\ \A c \in Conns : \A e \in Mail(c) : Reading(c, e) \in said \cup {None}
  /\ \A c \in Conns : packages[c] # None =>
       Event("mls:fetch_kp", Mine(c), packages[c]) \in said

\* The ids that were given out so far.
Given == {Id(k) : k \in 1..sends}

\* Every trace of a message is one of an accepted message.
Traced ==
  /\ \A r \in tasks \cup rows : r.msg \in accepted
  /\ \A c \in Conns : \A f \in shown[c] : f.ev = "msg:new" => f.message \in accepted
  /\ \A c \in Conns : \A e \in Mail(c) :
       e.ev = "msg:new" => EnvelopeFields(e.data).message \in accepted
  /\ \A r \in refused : r.message \notin accepted /\ r.message \in Given \cup {Empty}
  /\ accepted \subseteq Given
  /\ \A f \in said : f.ev = "msg:new" => f.message \in Given

\* The verdict on a message is the one of the browser's validator.
Judged ==
  \A f \in said : f.ev = "msg:new" =>
    /\ f.message \in accepted => SdkValidateMessage(f.content, Text)
    /\ \A r \in refused : r.message = f.message =>
         (r.reason = "invalid_message" <=> ~SdkValidateMessage(f.content, Text))

\* A counter that stands at n, expires at until and let messages pass at the
\* times of adm: those it counts come last, a Window after all the others, and
\* it does not expire within a Window of any of them.
Burst(n) == IF n <= Rate THEN n ELSE Rate
CounterOK(n, until, adm, time, sent) ==
  /\ n <= sent /\ until <= time + Window /\ (n = 0 => until = 0)
  /\ Burst(n) <= Len(adm)
  /\ \A i \in 1..Len(adm) : adm[i] <= time /\ adm[i] + Window <= until
  /\ \A i \in 1..(Len(adm) - Burst(n)), j \in (Len(adm) - Burst(n) + 1)..Len(adm) :
       adm[j] - adm[i] >= Window
  /\ \A i \in 1..(Len(adm) - Rate) : adm[i + Rate] - adm[i] >= Window

RateInv ==
  /\ counter \in [Users -> [n : Nat, until : Nat]]
  /\ admitted \in [Users -> Seq(Nat)]
  /\ \A u \in Users : CounterOK(counter[u].n, counter[u].until, admitted[u], now, sends)

PathInv == Typed /\ Honest /\ Traced /\ Judged /\ RateInv

-----------------------------------------------------------------------------
(* The rate counter.                                                       *)

\* A check that lets the message pass keeps the counter sound.
LEMMA CounterAdmits ==
  ASSUME NEW n \in Nat, NEW until \in Nat, NEW adm \in Seq(Nat), NEW time \in Nat,
         NEW sent \in Nat, CounterOK(n, until, adm, time, sent),
         NEW m \in Nat, m = IF time < until THEN n + 1 ELSE 1, m <= Rate
  PROVE  CounterOK(m, time + Window, Append(adm, time), time, sent + 1)
<1> DEFINE L == Len(adm)
           new == Append(adm, time)
<1>1. Rate \in Nat /\ Window \in Nat /\ L \in Nat
  BY PathAssumption, LenProperties
<1>2. Len(new) = L + 1 /\ new[L + 1] = time /\ \A i \in 1..L : new[i] = adm[i]
  BY <1>1, AppendProperties
<1>3. \A i \in 1..L : adm[i] \in Nat
  BY ElementOfSeq
<1>4. n <= sent /\ until <= time + Window /\ (n = 0 => until = 0) /\ Burst(n) <= L
      /\ \A i \in 1..L : adm[i] <= time /\ adm[i] + Window <= until
  BY DEF CounterOK
<1>5. \A i \in 1..(L - Burst(n)), j \in (L - Burst(n) + 1)..L : adm[j] - adm[i] >= Window
  BY DEF CounterOK
<1>6. \A i \in 1..(L - Rate) : adm[i + Rate] - adm[i] >= Window
  BY DEF CounterOK
<1>7. Burst(m) = m /\ m >= 1 /\ m <= L + 1
  BY <1>1, <1>4 DEF Burst
<1> HIDE DEF L, new
<1>8. \A i \in 1..(L + 1 - m) : time - adm[i] >= Window
  <2> SUFFICES ASSUME NEW i \in 1..(L + 1 - m) PROVE time - adm[i] >= Window
    OBVIOUS
  <2>1. CASE time < until
    <3>1. m = n + 1 /\ Burst(n) = n /\ n >= 1
      BY <1>1, <1>4, <2>1 DEF Burst
    <3>2. i \in 1..(L - Burst(n)) /\ L \in (L - Burst(n) + 1)..L /\ L \in 1..L
          /\ i \in 1..L
      BY <1>1, <1>4, <3>1
    <3>3. adm[L] - adm[i] >= Window /\ adm[L] <= time
      BY <1>4, <1>5, <3>2
    <3> QED
      BY <1>1, <1>3, <3>2, <3>3
  <2>2. CASE ~(time < until)
    <3>1. i \in 1..L /\ adm[i] \in Nat
      BY <1>1, <1>3, <1>7
    <3> QED
      BY <1>1, <1>4, <2>2, <3>1
  <2> QED
    BY <2>1, <2>2
<1>9. \A i \in 1..(L + 1 - m), j \in (L + 1 - m + 1)..(L + 1) : new[j] - new[i] >= Window
  <2> SUFFICES ASSUME NEW i \in 1..(L + 1 - m), NEW j \in (L + 1 - m + 1)..(L + 1)
               PROVE  new[j] - new[i] >= Window
    OBVIOUS
  <2>1. i \in 1..L /\ new[i] = adm[i] /\ adm[i] \in Nat
    BY <1>1, <1>2, <1>3, <1>7
  <2>2. CASE j = L + 1
    BY <1>2, <1>8, <2>1, <2>2
  <2>3. CASE j # L + 1
    <3>1. m = n + 1 /\ Burst(n) = n
      BY <1>1, <1>4, <1>7, <2>3 DEF Burst
    <3>2. j \in (L - Burst(n) + 1)..L /\ i \in 1..(L - Burst(n)) /\ j \in 1..L
      BY <1>1, <1>4, <2>3, <3>1
    <3> QED
      BY <1>2, <1>5, <2>1, <3>2
  <2> QED
    BY <2>2, <2>3
<1>10. \A i \in 1..(L + 1 - Rate) : new[i + Rate] - new[i] >= Window
  <2> SUFFICES ASSUME NEW i \in 1..(L + 1 - Rate) PROVE new[i + Rate] - new[i] >= Window
    OBVIOUS
  <2>1. Rate >= 1 /\ i \in 1..L /\ new[i] = adm[i]
    BY <1>1, <1>2, <1>7
  <2>2. CASE i = L + 1 - Rate
    <3>1. i \in 1..(L + 1 - m) /\ i + Rate = L + 1
      BY <1>1, <1>7, <2>1, <2>2
    <3> QED
      BY <1>2, <1>8, <2>1, <3>1
  <2>3. CASE i # L + 1 - Rate
    <3>1. i \in 1..(L - Rate) /\ i + Rate \in 1..L
      BY <1>1, <2>1, <2>3
    <3> QED
      BY <1>2, <1>6, <2>1, <3>1
  <2> QED
    BY <2>2, <2>3
<1>11. \A i \in 1..Len(new) : new[i] <= time /\ new[i] + Window <= time + Window
  <2> SUFFICES ASSUME NEW i \in 1..(L + 1) PROVE new[i] <= time /\ new[i] + Window <= time + Window
    BY <1>2
  <2>1. CASE i = L + 1
    BY <1>1, <1>2, <2>1
  <2>2. CASE i # L + 1
    <3>1. i \in 1..L
      BY <1>1, <2>2
    <3>2. new[i] = adm[i] /\ adm[i] \in Nat /\ adm[i] <= time
      BY <1>2, <1>3, <1>4, <3>1
    <3> QED
      BY <1>1, <3>2
  <2> QED
    BY <2>1, <2>2
<1>12. m <= sent + 1 /\ Burst(m) <= Len(new) /\ m # 0
  BY <1>1, <1>2, <1>4, <1>7
<1>13. CounterOK(m, time + Window, new, time, sent + 1)
  <2>1. \A i \in 1..(Len(new) - Burst(m)), j \in (Len(new) - Burst(m) + 1)..Len(new) :
          new[j] - new[i] >= Window
    <3>1. Len(new) - Burst(m) = L + 1 - m
      BY <1>1, <1>2, <1>7
    <3> QED
      BY <1>2, <1>9, <3>1
  <2>2. \A i \in 1..(Len(new) - Rate) : new[i + Rate] - new[i] >= Window
    <3>1. Len(new) - Rate = L + 1 - Rate
      BY <1>1, <1>2
    <3> QED
      BY <1>10, <3>1
  <2>3. time + Window <= time + Window
    BY <1>1
  <2> QED
    BY <1>11, <1>12, <2>1, <2>2, <2>3 DEF CounterOK
<1> QED
  BY <1>13 DEF new

\* A check that refuses only makes the counter expire later.
LEMMA CounterRefuses ==
  ASSUME NEW n \in Nat, NEW until \in Nat, NEW adm \in Seq(Nat), NEW time \in Nat,
         NEW sent \in Nat, CounterOK(n, until, adm, time, sent),
         NEW m \in Nat, m = IF time < until THEN n + 1 ELSE 1, ~(m <= Rate)
  PROVE  CounterOK(m, time + Window, adm, time, sent + 1)
<1>1. Rate \in Nat /\ Window \in Nat /\ Len(adm) \in Nat
  BY PathAssumption, LenProperties
<1>2. \A i \in 1..Len(adm) : adm[i] \in Nat
  BY ElementOfSeq
<1>3. Burst(m) = Burst(n) /\ m # 0 /\ m <= sent + 1
  BY <1>1 DEF Burst, CounterOK
<1>4. \A i \in 1..Len(adm) : adm[i] <= time /\ adm[i] + Window <= time + Window
  BY <1>1, <1>2 DEF CounterOK
<1> QED
  BY <1>1, <1>3, <1>4 DEF CounterOK

\* Time passes and messages are sent without the counter.
LEMMA CounterIdle ==
  ASSUME NEW n \in Nat, NEW until \in Nat, NEW adm \in Seq(Nat), NEW time \in Nat,
         NEW sent \in Nat, CounterOK(n, until, adm, time, sent),
         NEW later \in Nat, time <= later, NEW more \in Nat, sent <= more
  PROVE  CounterOK(n, until, adm, later, more)
<1>1. Rate \in Nat /\ Window \in Nat
  BY PathAssumption
<1>2. \A i \in 1..Len(adm) : adm[i] \in Nat
  BY ElementOfSeq
<1>3. n <= more /\ until <= later + Window
  BY <1>1 DEF CounterOK
<1>4. \A i \in 1..Len(adm) : adm[i] <= later
  BY <1>2 DEF CounterOK
<1> QED
  BY <1>3, <1>4 DEF CounterOK

\* The limiter keeps every counter sound.
LEMMA LimitedRate ==
  ASSUME Typed, RateInv, NEW c \in Conns, NEW allowed \in BOOLEAN, Limited(c, allowed),
         now' = now, sends' = sends + 1
  PROVE  RateInv'
<1> DEFINE u == UserOf[c]
           n == counter[u].n
           until == counter[u].until
           m == IF now < until THEN n + 1 ELSE 1
<1>1. u \in Users /\ Window \in Nat /\ now \in Nat /\ sends \in Nat /\ Rate \in Nat
  BY PathAssumption DEF Typed
<1>2. /\ counter \in [Users -> [n : Nat, until : Nat]] /\ admitted \in [Users -> Seq(Nat)]
      /\ \A v \in Users : counter[v].n \in Nat /\ counter[v].until \in Nat
                          /\ admitted[v] \in Seq(Nat)
                          /\ CounterOK(counter[v].n, counter[v].until, admitted[v], now, sends)
  BY DEF RateInv
<1>3. n \in Nat /\ until \in Nat /\ m \in Nat
  BY <1>1, <1>2
<1>4. RateCheck(u).allow = (m <= Rate)
      /\ RateCheck(u).next = [n |-> m, until |-> now + Window]
  BY DEF RateCheck
<1>5. \A v \in Users : CounterOK(counter[v].n, counter[v].until, admitted[v], now, sends + 1)
  BY <1>1, <1>2, CounterIdle
<1>6. CASE UNCHANGED <<counter, admitted>>
  BY <1>2, <1>5, <1>6 DEF RateInv
<1>7. CASE /\ allowed = (m <= Rate)
           /\ counter' = [counter EXCEPT ![u] = [n |-> m, until |-> now + Window]]
           /\ admitted' = IF allowed THEN [admitted EXCEPT ![u] = Append(@, now)] ELSE admitted
  <2> DEFINE a == IF allowed THEN Append(admitted[u], now) ELSE admitted[u]
  <2>1. a \in Seq(Nat)
    BY <1>1, <1>2
  <2>2. CounterOK(m, now + Window, a, now, sends + 1)
    <3>1. CASE m <= Rate
      BY <1>1, <1>2, <1>3, <1>7, <3>1, CounterAdmits
    <3>2. CASE ~(m <= Rate)
      BY <1>1, <1>2, <1>3, <1>7, <3>2, CounterRefuses
    <3> QED
      BY <3>1, <3>2
  <2>3. [n |-> m, until |-> now + Window] \in [n : Nat, until : Nat]
    BY <1>1, <1>3
  <2>4. counter' \in [Users -> [n : Nat, until : Nat]]
        /\ counter'[u].n = m /\ counter'[u].until = now + Window
        /\ \A v \in Users : v # u => counter'[v] = counter[v]
    BY <1>1, <1>2, <1>7, <2>3
  <2>5. admitted' \in [Users -> Seq(Nat)] /\ admitted'[u] = a
        /\ \A v \in Users : v # u => admitted'[v] = admitted[v]
    BY <1>1, <1>2, <1>7, <2>1
  <2> HIDE DEF a, m
  <2>6. ASSUME NEW v \in Users
        PROVE  CounterOK(counter'[v].n, counter'[v].until, admitted'[v], now, sends + 1)
    <3>1. CASE v = u
      BY <2>2, <2>4, <2>5, <3>1
    <3>2. CASE v # u
      BY <1>5, <2>4, <2>5, <3>2
    <3> QED
      BY <3>1, <3>2
  <2> QED
    BY <2>4, <2>5, <2>6 DEF RateInv
<1> QED
  BY <1>4, <1>6, <1>7 DEF Limited

\* Other steps leave the counters alone.
LEMMA IdleRate ==
  ASSUME Typed, RateInv, UNCHANGED <<counter, admitted>>, now' \in {now, now + 1},
         sends' \in {sends, sends + 1}
  PROVE  RateInv'
<1>1. now \in Nat /\ sends \in Nat /\ now' \in Nat /\ sends' \in Nat /\ now <= now' /\ sends <= sends'
  BY PathAssumption DEF Typed
<1>2. \A v \in Users : counter[v].n \in Nat /\ counter[v].until \in Nat
                       /\ admitted[v] \in Seq(Nat)
                       /\ CounterOK(counter[v].n, counter[v].until, admitted[v], now, sends)
  BY DEF RateInv
<1>3. \A v \in Users : CounterOK(counter[v].n, counter[v].until, admitted[v], now', sends')
  BY <1>1, <1>2, CounterIdle
<1> QED
  BY <1>3 DEF RateInv


-----------------------------------------------------------------------------
(* Frames on their way.                                                    *)

\* A broadcast adds one frame to some inboxes.
LEMMA BroadcastMail ==
  ASSUME inbox \in [Conns -> Seq(Frames)], NEW to, NEW ev, NEW data,
         [ev |-> ev, data |-> data] \in Frames, Broadcast(to, ev, data)
  PROVE  /\ inbox' \in [Conns -> Seq(Frames)]
         /\ \A c \in Conns : Mail(c)' \subseteq Mail(c) \cup {[ev |-> ev, data |-> data]}
<1> DEFINE e == [ev |-> ev, data |-> data]
<1>1. inbox' = [c \in Conns |-> IF c \in to \cap open THEN Append(inbox[c], e) ELSE inbox[c]]
  BY DEF Broadcast
<1>2. e \in Frames
  OBVIOUS
<1> HIDE DEF e
<1>3. \A c \in Conns : Append(inbox[c], e) \in Seq(Frames)
  BY <1>2
<1>4. inbox' \in [Conns -> Seq(Frames)]
  BY <1>1, <1>3
<1>5. ASSUME NEW c \in Conns PROVE Mail(c)' \subseteq Mail(c) \cup {e}
  <2>1. inbox[c] \in Seq(Frames)
    OBVIOUS
  <2>2. CASE inbox'[c] = inbox[c]
    BY <2>2 DEF Mail
  <2>3. CASE inbox'[c] = Append(inbox[c], e)
    <3> SUFFICES ASSUME NEW i \in DOMAIN (inbox'[c])
                 PROVE  inbox'[c][i] \in Mail(c) \cup {e}
      BY DEF Mail
    <3>1. i \in 1..(Len(inbox[c]) + 1)
      BY <1>2, <2>1, <2>3
    <3>2. CASE i = Len(inbox[c]) + 1
      BY <1>2, <2>1, <2>3, <3>2
    <3>3. CASE i # Len(inbox[c]) + 1
      <4>1. i \in 1..Len(inbox[c]) /\ i \in DOMAIN inbox[c]
        BY <2>1, <3>1, <3>3
      <4>2. inbox'[c][i] = inbox[c][i]
        BY <1>2, <2>1, <2>3, <4>1
      <4> QED
        BY <4>1, <4>2 DEF Mail
    <3> QED
      BY <3>2, <3>3
  <2> QED
    BY <1>1, <2>2, <2>3
<1> QED
  BY <1>4, <1>5 DEF e

\* Mail is made of frames; receiving takes the first one.
LEMMA TakeMail ==
  ASSUME inbox \in [Conns -> Seq(Frames)], NEW c \in Conns, inbox[c] # <<>>,
         inbox' = [inbox EXCEPT ![c] = Tail(@)]
  PROVE  /\ inbox' \in [Conns -> Seq(Frames)]
         /\ Head(inbox[c]) \in Mail(c) /\ Head(inbox[c]) \in Frames
         /\ \A d \in Conns : Mail(d)' \subseteq Mail(d)
<1>1. inbox[c] \in Seq(Frames) /\ Tail(inbox[c]) \in Seq(Frames)
  OBVIOUS
<1>2. inbox' \in [Conns -> Seq(Frames)]
  BY <1>1
<1>3. 1 \in DOMAIN inbox[c] /\ Head(inbox[c]) = inbox[c][1] /\ Head(inbox[c]) \in Frames
  BY <1>1
<1>4. Head(inbox[c]) \in Mail(c)
  BY <1>3 DEF Mail
<1>5. ASSUME NEW d \in Conns PROVE Mail(d)' \subseteq Mail(d)
  <2>1. CASE d # c
    <3>1. inbox'[d] = inbox[d]
      BY <2>1
    <3> QED
      BY <3>1 DEF Mail
  <2>2. CASE d = c
    <3> SUFFICES ASSUME NEW i \in DOMAIN Tail(inbox[c])
                 PROVE  Tail(inbox[c])[i] \in Mail(c)
      BY <2>2 DEF Mail
    <3>1. i + 1 \in DOMAIN inbox[c] /\ Tail(inbox[c])[i] = inbox[c][i + 1]
      BY <1>1
    <3> QED
      BY <3>1 DEF Mail
  <2> QED
    BY <2>1, <2>2
<1> QED
  BY <1>2, <1>3, <1>4, <1>5

\* Inboxes that stay.
LEMMA SameMail == ASSUME inbox' = inbox PROVE \A c \in Conns : Mail(c)' = Mail(c)
  BY DEF Mail

\* The parts of a fact.
LEMMA FactFields ==
  ASSUME NEW ev \in Kinds \cup {"mls:fetch_kp"}, NEW u \in ByteString, NEW m \in ByteString,
         NEW ts \in Nat, NEW p \in ByteString
  PROVE  LET f == Fact(ev, u, m, ts, p)
         IN  f \in Facts /\ f.ev = ev /\ f.message = m /\ f.content = p
  BY DEF Fact, Facts

\* Only a broadcast message is read as a message, under the id it carries.
LEMMA ReadingKind ==
  ASSUME NEW c \in Conns, NEW e \in Frames, Reading(c, e) # None,
         Reading(c, e).ev = "msg:new"
  PROVE  e.ev = "msg:new" /\ Reading(c, e).message = EnvelopeFields(e.data).message
<1>1. e.ev \in Kinds
  BY DEF Frames
<1>2. CASE e.ev = "msg:new"
  <2>1. Reading(c, e) = Entry(EnvelopeFields(e.data))
    BY <1>2 DEF Reading
  <2> QED
    BY <1>2, <2>1 DEF Entry, Fact
<1>3. CASE e.ev = "msg:typing"
  <2>1. Reading(c, e).ev = "msg:typing"
    BY <1>3 DEF Reading, Event, Fact
  <2> QED
    BY <2>1
<1>4. CASE e.ev = "msg:read"
  <2>1. Reading(c, e).ev = "msg:read"
    BY <1>4 DEF Reading, Fact
  <2> QED
    BY <2>1
<1>5. CASE e.ev = "mls:commit"
  <2>1. Reading(c, e).ev = "mls:commit"
    BY <1>5 DEF Reading, Event, Fact
  <2> QED
    BY <2>1
<1>6. CASE e.ev = "mls:welcome"
  <2>1. Reading(c, e).ev = "mls:welcome"
    BY <1>6 DEF Reading, Event, Fact
  <2> QED
    BY <2>1
<1> QED
  BY <1>1, <1>2, <1>3, <1>4, <1>5, <1>6 DEF Kinds

\* Ids given out stay given out, and the next one is new.
LEMMA GivenGrows ==
  ASSUME Typed, sends' = sends + 1
  PROVE  /\ Given' = Given \cup {Id(sends + 1)}
         /\ Id(sends + 1) \notin Given \cup {Empty}
<1>1. sends \in Nat /\ sends + 1 \in Nat
  BY PathAssumption DEF Typed
<1>2. 1..(sends + 1) = (1..sends) \cup {sends + 1}
  BY <1>1
<1>3. Given' = Given \cup {Id(sends + 1)}
  BY <1>2 DEF Given
<1>4. \A k \in 1..sends : Id(k) # Id(sends + 1)
  <2> SUFFICES ASSUME NEW k \in 1..sends PROVE Id(k) # Id(sends + 1)
    OBVIOUS
  <2>1. k \in Nat /\ k # sends + 1
    BY <1>1
  <2> QED
    BY <1>1, <2>1, NamedBytes
<1> QED
  BY <1>1, <1>3, <1>4, NamedBytes DEF Given


-----------------------------------------------------------------------------
(* Initial states, and the steps that send no message.                     *)

LEMMA InitPathInv == Init => PathInv
<1> SUFFICES ASSUME Init PROVE PathInv
  OBVIOUS
<1>1. \A n \in {MaxTime, MaxSends, Window, Rate} : n \in Nat
  BY PathAssumption
<1>2. Typed
  <2>1. inbox \in [Conns -> Seq(Frames)] /\ shown \in [Conns -> SUBSET Facts]
        /\ packages \in [Conns -> ByteString \cup {None}]
    BY DEF Init
  <2> QED
    BY <1>1, <2>1 DEF Init, Typed
<1>3. \A c \in Conns : Mail(c) = {}
  BY DEF Init, Mail
<1>4. Honest /\ Traced /\ Judged
  BY <1>3 DEF Init, Honest, Traced, Judged
<1>5. RateInv
  <2>1. counter \in [Users -> [n : Nat, until : Nat]] /\ admitted \in [Users -> Seq(Nat)]
    BY DEF Init
  <2>2. \A u \in Users : counter[u].n = 0 /\ counter[u].until = 0 /\ admitted[u] = <<>>
        /\ now = 0 /\ sends = 0
    BY DEF Init
  <2>3. CounterOK(0, 0, <<>>, 0, 0)
    <3>1. Burst(0) = 0 /\ Len(<<>>) = 0 /\ 0 <= 0 + Window
      BY <1>1 DEF Burst
    <3>2. 1..(0 - Rate) = {} /\ 1..0 = {}
      BY <1>1
    <3>3. 1..(Len(<<>>) - Rate) = {} /\ 1..Len(<<>>) = {}
          /\ 1..(Len(<<>>) - Burst(0)) = {}
      BY <3>1, <3>2
    <3> QED
      BY <3>1, <3>3 DEF CounterOK
  <2> QED
    BY <2>1, <2>2, <2>3 DEF RateInv
<1> QED
  BY <1>2, <1>4, <1>5 DEF PathInv

\* A client comes to show facts that were told.
LEMMA ShowStep ==
  ASSUME PathInv, NEW c \in Conns, NEW F \in SUBSET said,
         \A f \in F : f.ev = "msg:new" => f.message \in accepted,
         shown' = [shown EXCEPT ![c] = @ \cup F],
         inbox' \in [Conns -> Seq(Frames)],
         \A d \in Conns : Mail(d)' \subseteq Mail(d),
         UNCHANGED <<now, open, server, sends, history>>
  PROVE  PathInv'
<1>1. said \subseteq Facts /\ shown \in [Conns -> SUBSET Facts]
  BY DEF PathInv, Typed
<1>2. shown' \in [Conns -> SUBSET Facts]
  BY <1>1
<1>3. \A d \in Conns : shown'[d] \subseteq shown[d] \cup F
  BY <1>1
<1>4. Typed'
  BY <1>2 DEF PathInv, Typed, server, history
<1>5. Honest'
  BY <1>3 DEF PathInv, Honest, server, history
<1>6. Traced'
  <2>1. Given' = Given
    BY DEF Given
  <2> QED
    BY <1>3, <2>1 DEF PathInv, Traced, server, history
<1>7. Judged'
  BY DEF PathInv, Judged, history
<1>8. RateInv'
  BY IdleRate DEF PathInv, server, history
<1> QED
  BY <1>4, <1>5, <1>6, <1>7, <1>8 DEF PathInv

\* An event that is no message is told and broadcast.
LEMMA TellStep ==
  ASSUME PathInv, NEW c \in Conns, NEW fact \in Facts, fact.ev # "msg:new",
         NEW to, NEW ev, NEW data, [ev |-> ev, data |-> data] \in Frames, ev # "msg:new",
         \A d \in Conns : Reading(d, [ev |-> ev, data |-> data]) \in {fact, None},
         Tell(c, fact), Broadcast(to, ev, data),
         UNCHANGED <<now, open, shown, server, accepted, refused, admitted>>
  PROVE  PathInv'
<1> DEFINE e == [ev |-> ev, data |-> data]
<1>1. sends' = sends /\ said' = said \cup {fact}
  BY DEF Tell
<1>2. /\ inbox' \in [Conns -> Seq(Frames)]
      /\ \A d \in Conns : Mail(d)' \subseteq Mail(d) \cup {e}
  BY BroadcastMail DEF PathInv, Typed
<1>3. e.ev # "msg:new" /\ \A d \in Conns : Reading(d, e) \in {fact, None}
  OBVIOUS
<1> HIDE DEF e
<1>4. Typed'
  BY <1>1, <1>2 DEF PathInv, Typed, server
<1>5. Honest'
  BY <1>1, <1>2, <1>3 DEF PathInv, Honest, server
<1>6. Traced'
  <2>1. Given' = Given
    BY <1>1 DEF Given
  <2> QED
    BY <1>1, <1>2, <1>3, <2>1 DEF PathInv, Traced, server
<1>7. Judged'
  BY <1>1 DEF PathInv, Judged
<1>8. RateInv'
  BY <1>1, IdleRate DEF PathInv, server
<1> QED
  BY <1>4, <1>5, <1>6, <1>7, <1>8 DEF PathInv

LEMMA MarkReadInv ==
  ASSUME PathInv, NEW c \in Conns, NEW f \in shown[c], MarkRead(c, f.message)
  PROVE  PathInv'
<1> DEFINE m == f.message
           data == ReadReceiptEncode(Mine(c), m)
           fact == Fact("msg:read", Mine(c), m, 0, Empty)
           e == [ev |-> "msg:read", data |-> data]
<1>1. f \in Facts
  BY DEF PathInv, Typed
<1>2. m \in ByteString /\ Mine(c) \in ByteString
  BY <1>1, NamedBytes DEF Facts
<1>3. data \in Structs /\ data \notin {Garbage, Failed, Raised}
      /\ Ptr(data, 1) = Mine(c) /\ Ptr(data, 2) = m /\ Readable(data, 2)
  BY <1>2, SmallStructs DEF ReadReceiptEncode
<1> HIDE DEF m
<1>4. ReadReceiptDecode(data) = [user |-> Mine(c), message |-> m]
  BY <1>3 DEF ReadReceiptDecode
<1>5. [user |-> Mine(c), message |-> m] \in [user : ByteString, message : ByteString]
  BY <1>2
<1>6. [user |-> Mine(c), message |-> m] # Failed
  BY <1>5, PathAssumption
<1>7. NifReadReceiptDecode(data).message = m
  BY <1>4, <1>6 DEF NifReadReceiptDecode, Nif
<1>8. NifReadReceiptEncode(Mine(c), m) = data
  BY <1>3 DEF NifReadReceiptEncode, Nif
<1>9. fact \in Facts /\ fact.ev # "msg:new"
  <2>1. "msg:read" \in Kinds \cup {"mls:fetch_kp"} /\ 0 \in Nat /\ Empty \in ByteString
    BY NamedBytes DEF Kinds
  <2> QED
    BY <1>2, <2>1, FactFields
<1> HIDE DEF data
<1>10. \A d \in Conns : Reading(d, e) = fact
  BY <1>4 DEF Reading
<1>11. e \in Frames
  BY <1>3 DEF Frames, Kinds
<1>12. Tell(c, fact) /\ MsgRead(c, data)
  BY DEF MarkRead, data, m
<1>13. Broadcast(Conns \ {c}, "msg:read", data)
       /\ UNCHANGED <<now, open, shown, server, accepted, refused, admitted>>
  BY <1>7, <1>8, <1>12 DEF MsgRead, Relay
<1> HIDE DEF fact
<1> QED
  BY <1>9, <1>10, <1>11, <1>12, <1>13, TellStep

LEMMA SendTypingInv ==
  ASSUME PathInv, NEW c \in Conns, SendTyping(c)
  PROVE  PathInv'
<1> DEFINE data == TypingEncode(Mine(c))
           fact == Event("msg:typing", Mine(c), Empty)
           e == [ev |-> "msg:typing", data |-> data]
<1>1. Mine(c) \in ByteString /\ Empty \in ByteString
  BY NamedBytes
<1>2. data \in Structs /\ data \notin {Garbage, Failed, Raised}
      /\ Ptr(data, 1) = Mine(c) /\ Readable(data, 1)
  BY <1>1, SmallStructs DEF TypingEncode
<1>3. NifTypingEncode(Mine(c)) = data
  BY <1>2 DEF NifTypingEncode, Nif
<1>4. fact \in Facts /\ fact.ev # "msg:new"
  BY <1>1, FactFields DEF Kinds, Event
<1> HIDE DEF data
<1>5. \A d \in Conns : Reading(d, e) = fact
  BY <1>2 DEF Reading, TypingDecode
<1>6. e \in Frames
  BY <1>2 DEF Frames, Kinds
<1>7. Tell(c, fact) /\ Broadcast(Conns \ {c}, "msg:typing", data)
      /\ UNCHANGED <<now, open, shown, server, accepted, refused, admitted>>
  BY <1>3 DEF SendTyping, MsgTyping
<1> HIDE DEF fact
<1> QED
  BY <1>4, <1>5, <1>6, <1>7, TellStep

LEMMA SendCommitInv ==
  ASSUME PathInv, NEW c \in Conns, SendCommit(c)
  PROVE  PathInv'
<1> DEFINE commit == Bytes("commit", 1)
           data == MlsCommitEncode(commit)
           fact == Event("mls:commit", Empty, commit)
           e == [ev |-> "mls:commit", data |-> data]
<1>1. commit \in ByteString /\ Empty \in ByteString
  BY NamedBytes
<1> HIDE DEF commit
<1>2. data \in Structs /\ Ptr(data, 1) = commit /\ Readable(data, 1)
  BY <1>1, SmallStructs DEF MlsCommitEncode
<1>3. fact \in Facts /\ fact.ev # "msg:new"
  BY <1>1, FactFields DEF Kinds, Event
<1>4. Tell(c, fact) /\ Broadcast(Conns \ {c}, "mls:commit", data)
      /\ UNCHANGED <<now, open, shown, server, accepted, refused, admitted>>
  BY DEF SendCommit, MlsCommit, Relay, commit
<1> HIDE DEF data
<1>5. \A d \in Conns : Reading(d, e) = fact
  BY <1>2 DEF Reading, MlsCommitDecode
<1>6. e \in Frames
  BY <1>2 DEF Frames, Kinds
<1> HIDE DEF fact
<1> QED
  BY <1>3, <1>4, <1>5, <1>6, TellStep

LEMMA SendWelcomeInv ==
  ASSUME PathInv, NEW c \in Conns, NEW u \in Users, SendWelcome(c, u)
  PROVE  PathInv'
<1> DEFINE welcome == Bytes("welcome", 1)
           capnp == MlsWelcomeEncode(welcome, Id(u))
           data == [uid |-> Id(u), capnp |-> capnp]
           fact == Event("mls:welcome", Id(u), welcome)
           e == [ev |-> "mls:welcome", data |-> data]
<1>1. welcome \in ByteString /\ Empty \in ByteString /\ Id(u) \in ByteString
  BY NamedBytes
<1> HIDE DEF welcome
<1>2. capnp \in Structs /\ Ptr(capnp, 1) = welcome /\ Readable(capnp, 2)
  BY <1>1, SmallStructs DEF MlsWelcomeEncode
<1>3. fact \in Facts /\ fact.ev # "msg:new"
  BY <1>1, FactFields DEF Kinds, Event
<1>4. Tell(c, fact) /\ Broadcast(Conns, "mls:welcome", data)
      /\ UNCHANGED <<now, open, shown, server, accepted, refused, admitted>>
  BY DEF SendWelcome, MlsWelcome, welcome
<1> HIDE DEF capnp
<1>5. MlsWelcomeDecode(capnp).welcome = welcome
  BY <1>2 DEF MlsWelcomeDecode
<1>6. \A d \in Conns : Reading(d, e) \in {fact, None}
  BY <1>5 DEF Reading
<1>7. e \in Frames
  BY <1>1, <1>2 DEF Frames, Kinds
<1> HIDE DEF fact, data
<1> QED
  BY <1>3, <1>4, <1>6, <1>7, TellStep


LEMMA UploadInv ==
  ASSUME PathInv, NEW c \in Conns, UploadKeyPackage(c)
  PROVE  PathInv'
<1> DEFINE package == Bytes("package", 1)
           data == MlsKeyPackageEncode(package)
           fact == Event("mls:fetch_kp", Mine(c), package)
<1>1. package \in ByteString /\ Mine(c) \in ByteString /\ Empty \in ByteString
  BY NamedBytes
<1> HIDE DEF package
<1>2. data \in Structs /\ Ptr(data, 1) = package /\ Readable(data, 1)
  BY <1>1, SmallStructs DEF MlsKeyPackageEncode
<1>3. fact \in Facts /\ fact.ev # "msg:new"
  <2>1. "mls:fetch_kp" \in Kinds \cup {"mls:fetch_kp"} /\ 0 \in Nat
    OBVIOUS
  <2> QED
    BY <1>1, <2>1, FactFields DEF Event
<1>4. package # Failed
  BY <1>1, PathAssumption
<1>5. Tell(c, fact) /\ MlsKeyPackage(c, data)
  BY DEF UploadKeyPackage, package
<1> HIDE DEF data
<1>6. NifKeyPackageDecode(data) = package
  BY <1>2, <1>4 DEF NifKeyPackageDecode, MlsKeyPackageDecode, Nif
<1>7. packages' = [packages EXCEPT ![c] = package]
      /\ UNCHANGED <<now, open, inbox, shown, counter, tasks, rows, accepted, refused, admitted>>
  BY <1>5, <1>6 DEF MlsKeyPackage
<1>8. sends' = sends /\ said' = said \cup {fact}
  BY <1>5 DEF Tell
<1>9. packages \in [Conns -> ByteString \cup {None}]
  BY DEF PathInv, Typed
<1>10. packages' \in [Conns -> ByteString \cup {None}]
  BY <1>1, <1>7, <1>9
<1>11. \A d \in Conns : Mail(d)' = Mail(d)
  BY <1>7, SameMail
<1>12. Typed'
  BY <1>3, <1>7, <1>8, <1>10 DEF PathInv, Typed
<1>13. Honest'
  <2>1. ASSUME NEW d \in Conns, packages'[d] # None
        PROVE  Event("mls:fetch_kp", Mine(d), packages'[d]) \in said'
    <3>1. CASE d = c
      BY <1>7, <1>8, <1>9, <3>1
    <3>2. CASE d # c
      BY <1>7, <1>8, <1>9, <2>1, <3>2 DEF PathInv, Honest
    <3> QED
      BY <3>1, <3>2
  <2> QED
    BY <1>7, <1>8, <1>11, <2>1 DEF PathInv, Honest
<1>14. Traced'
  <2>1. Given' = Given
    BY <1>8 DEF Given
  <2> QED
    BY <1>3, <1>7, <1>8, <1>11, <2>1 DEF PathInv, Traced
<1>15. Judged'
  BY <1>3, <1>7, <1>8 DEF PathInv, Judged
<1>16. RateInv'
  BY <1>7, <1>8, IdleRate DEF PathInv
<1> QED
  BY <1>12, <1>13, <1>14, <1>15, <1>16 DEF PathInv

LEMMA FetchInv ==
  ASSUME PathInv, NEW c \in Conns, NEW u \in Users, FetchKeyPackages(c, u)
  PROVE  PathInv'
<1> DEFINE user == Id(u)
           of == {d \in Conns : Mine(d) = user /\ packages[d] # None}
           bin(order) == NifKeyPackageListEncode([i \in DOMAIN order |-> packages[order[i]]])
           list(order) == IF bin(order) = Raised THEN <<>> ELSE MlsKeyPackageListDecode(bin(order))
           F(order) == {Event("mls:fetch_kp", user, list(order)[i]) : i \in DOMAIN list(order)}
<1>1. PICK order \in [1..Cardinality(of) -> of] :
             shown' = [shown EXCEPT ![c] = @ \cup F(order)]
  BY DEF FetchKeyPackages, MlsFetchKp
<1>2. UNCHANGED <<now, open, inbox, server, sends, history>>
  BY DEF FetchKeyPackages, MlsFetchKp, history
<1> DEFINE s == [i \in DOMAIN order |-> packages[order[i]]]
<1>3. \A i \in DOMAIN s : s[i] \in ByteString /\ Event("mls:fetch_kp", user, s[i]) \in said
  <2> SUFFICES ASSUME NEW i \in 1..Cardinality(of)
               PROVE  /\ packages[order[i]] \in ByteString
                      /\ Event("mls:fetch_kp", user, packages[order[i]]) \in said
    OBVIOUS
  <2>1. order[i] \in of
    OBVIOUS
  <2> QED
    BY <2>1 DEF PathInv, Typed, Honest
<1>4. s \in Seq(ByteString)
  <2>1. IsFiniteSet(of)
    BY PathAssumption, FS_Subset
  <2> DEFINE n == Cardinality(of)
  <2>2. n \in Nat
    BY <2>1, FS_CardinalityType
  <2>3. DOMAIN order = 1..n
    OBVIOUS
  <2> HIDE DEF n, of
  <2>4. s \in [1..n -> ByteString]
    BY <1>3, <2>3
  <2> QED
    BY <2>2, <2>4, SeqDef
<1> HIDE DEF s
<1>5. bin(order) = NifKeyPackageListEncode(s)
  BY DEF s
<1> DEFINE e == Struct(<<>>, <<List(s)>>)
<1>6. e # Garbage /\ e.ptrs = <<List(s)>>
  <2>1. List(s) \in Pointer
    BY <1>4 DEF List, Pointer
  <2>2. <<>> \in Seq(Nat) /\ <<List(s)>> \in Seq(Pointer)
    BY <2>1
  <2> QED
    BY <2>2, StructSound
<1>7. List(s).kind = "list" /\ List(s).items = s
  BY DEF List
<1> HIDE DEF e, bin
<1>8. Ptr(e, 1) = List(s)
  BY <1>6 DEF Ptr
<1>9. bin(order) = Raised \/ bin(order) = e
  BY <1>5 DEF NifKeyPackageListEncode, MlsKeyPackageListEncode, Nif, e
<1>10. MlsKeyPackageListDecode(e) = s
  BY <1>6, <1>7, <1>8 DEF MlsKeyPackageListDecode
<1>11. list(order) = <<>> \/ list(order) = s
  BY <1>9, <1>10
<1> HIDE DEF list
<1>12. F(order) \in SUBSET said
  <2> SUFFICES ASSUME NEW i \in DOMAIN list(order)
               PROVE  Event("mls:fetch_kp", user, list(order)[i]) \in said
    OBVIOUS
  <2>1. list(order) = s
    BY <1>11
  <2> QED
    BY <1>3, <2>1
<1>13. \A f \in F(order) : f.ev # "msg:new"
  BY DEF Event, Fact
<1> HIDE DEF F
<1>14. inbox' \in [Conns -> Seq(Frames)] /\ \A d \in Conns : Mail(d)' \subseteq Mail(d)
  BY <1>2, SameMail DEF PathInv, Typed
<1> QED
  BY <1>1, <1>2, <1>12, <1>13, <1>14, ShowStep

\* The rows are shown as the messages that they were made of.
LEMMA HistoryInv ==
  ASSUME PathInv, NEW c \in Conns, History(c)
  PROVE  PathInv'
<1> DEFINE env(r) == NifEnvelopeEncode(Id(Tenant), Id(Channel), r.sender, r.msg, r.ts, r.content)
           page == {env(r) : r \in rows}
           F == {Entry(EnvelopeFields(e)) : e \in page}
<1>1. shown' = [shown EXCEPT ![c] = @ \cup F]
  BY DEF History, MsgHistory
<1>2. UNCHANGED <<now, open, inbox, server, sends, history>>
  BY DEF History, MsgHistory, history
<1>3. ASSUME NEW r \in rows
      PROVE  /\ Entry(EnvelopeFields(env(r))) = Fact("msg:new", r.sender, r.msg, r.ts, r.content)
             /\ Fact("msg:new", r.sender, r.msg, r.ts, r.content) \in said
             /\ r.msg \in accepted
  <2>1. r \in Rows
    BY DEF PathInv, Typed
  <2>2. r.sender \in ByteString /\ r.msg \in ByteString /\ r.content \in ByteString
    BY <2>1 DEF Rows
  <2>3. r.ts \in Nat
    <3>1. PICK d \in Drafts : r.ts = d[2]
      BY <2>1 DEF Rows
    <3> QED
      BY <3>1, PathAssumption
  <2>4. Entry(EnvelopeFields(env(r))) = Fact("msg:new", r.sender, r.msg, r.ts, r.content)
    <3> DEFINE s == r.sender
               m == r.msg
               ts == r.ts
               p == r.content
    <3>1. s \in ByteString /\ m \in ByteString /\ ts \in Nat /\ p \in ByteString
      BY <2>2, <2>3
    <3>2. Id(Tenant) \in ByteString /\ Id(Channel) \in ByteString
      BY NamedBytes
    <3> HIDE DEF s, m, ts, p
    <3>3. Entry(EnvelopeFields(NifEnvelopeEncode(Id(Tenant), Id(Channel), s, m, ts, p)))
            = Fact("msg:new", s, m, ts, p)
      BY <3>1, <3>2, EnvelopeRead
    <3> QED
      BY <3>3 DEF s, m, ts, p
  <2> QED
    BY <2>4 DEF PathInv, Honest, Traced
<1>4. F \in SUBSET said
  BY <1>3
<1>5. \A f \in F : f.message \in accepted
  <2> SUFFICES ASSUME NEW r \in rows
               PROVE  Entry(EnvelopeFields(env(r))).message \in accepted
    OBVIOUS
  <2>1. Fact("msg:new", r.sender, r.msg, r.ts, r.content).message = r.msg
    BY DEF Fact
  <2> QED
    BY <1>3, <2>1
<1> HIDE DEF F
<1>6. inbox' \in [Conns -> Seq(Frames)] /\ \A d \in Conns : Mail(d)' \subseteq Mail(d)
  BY <1>2, SameMail DEF PathInv, Typed
<1> QED
  BY <1>1, <1>2, <1>4, <1>5, <1>6, ShowStep

LEMMA ReceiveInv ==
  ASSUME PathInv, NEW c \in Conns, Receive(c)
  PROVE  PathInv'
<1> DEFINE e == Head(inbox[c])
           F == {Reading(c, e)} \ {None}
<1>1. inbox[c] # <<>> /\ inbox' = [inbox EXCEPT ![c] = Tail(@)]
      /\ shown' = [shown EXCEPT ![c] = @ \cup F]
      /\ UNCHANGED <<now, open, server, sends, history>>
  BY DEF Receive
<1>2. inbox \in [Conns -> Seq(Frames)]
  BY DEF PathInv, Typed
<1>3. inbox' \in [Conns -> Seq(Frames)] /\ e \in Mail(c) /\ e \in Frames
      /\ \A d \in Conns : Mail(d)' \subseteq Mail(d)
  BY <1>1, <1>2, TakeMail
<1> HIDE DEF e
<1>4. F \in SUBSET said
  BY <1>3 DEF PathInv, Honest
<1>5. \A f \in F : f.ev = "msg:new" => f.message \in accepted
  BY <1>3, ReadingKind DEF PathInv, Traced
<1> HIDE DEF F
<1> QED
  BY <1>1, <1>3, <1>4, <1>5, ShowStep

\* The task ends, with or without its row.
LEMMA WriteInv ==
  ASSUME PathInv, NEW r \in tasks, WriteMessage(r) \/ WriteFails(r)
  PROVE  PathInv'
<1> DEFINE n == [r EXCEPT !.bucket = IntColumn(r.bucket)]
<1>1. tasks' \subseteq tasks /\ rows' \subseteq rows \cup {n}
      /\ UNCHANGED <<now, open, inbox, shown, counter, packages, sends, history>>
  BY DEF WriteMessage, WriteFails, Upsert
<1>2. r \in Rows /\ r.bucket \in 0..MaxBucket /\ tasks \subseteq Rows /\ rows \subseteq Rows
  BY DEF PathInv, Typed
<1>3. PICK b : b = IntColumn(r.bucket)
  OBVIOUS
<1>4. b \in -(MaxInt + 1)..MaxInt /\ MaxInt \in Nat /\ MaxBucket \in Nat
  BY <1>2, <1>3, WireAssumption DEF IntColumn
<1>5. b \in -(MaxInt + 1)..MaxBucket
  BY <1>2, <1>3, <1>4, WireAssumption DEF IntColumn
<1>6. n = [r EXCEPT !.bucket = b]
  BY <1>3
<1> HIDE DEF n
<1>7. /\ n \in Rows /\ n.bucket = b /\ n.msg = r.msg /\ n.sender = r.sender
      /\ n.ts = r.ts /\ n.content = r.content
  BY <1>2, <1>5, <1>6 DEF Rows
<1>8. \A d \in Conns : Mail(d)' = Mail(d)
  BY <1>1, SameMail
<1>9. Typed'
  <2>1. tasks' \subseteq Rows /\ rows' \subseteq Rows
    BY <1>1, <1>2, <1>7
  <2>2. /\ \A x \in tasks' : x.bucket \in 0..MaxBucket
        /\ \A x \in rows' : x.bucket \in -(MaxInt + 1)..MaxInt
    BY <1>1, <1>4, <1>7 DEF PathInv, Typed
  <2> QED
    BY <1>1, <2>1, <2>2 DEF PathInv, Typed, history
<1>10. Honest'
  <2>1. \A x \in tasks' \cup rows' : Fact("msg:new", x.sender, x.msg, x.ts, x.content) \in said
    BY <1>1, <1>7 DEF PathInv, Honest
  <2> QED
    BY <1>1, <1>8, <2>1 DEF PathInv, Honest, history
<1>11. Traced'
  <2>1. Given' = Given
    BY <1>1 DEF Given
  <2>2. \A x \in tasks' \cup rows' : x.msg \in accepted
    BY <1>1, <1>7 DEF PathInv, Traced
  <2> QED
    BY <1>1, <1>8, <2>1, <2>2 DEF PathInv, Traced, history
<1>12. Judged'
  BY <1>1 DEF PathInv, Judged, history
<1>13. RateInv'
  BY <1>1, IdleRate DEF PathInv, history
<1> QED
  BY <1>9, <1>10, <1>11, <1>12, <1>13 DEF PathInv

LEMMA TickInv == ASSUME PathInv, Tick PROVE PathInv'
<1>1. now' = now + 1 /\ now < MaxTime
      /\ UNCHANGED <<open, inbox, shown, server, sends, history>>
  BY DEF Tick
<1>2. \A d \in Conns : Mail(d)' = Mail(d)
  BY <1>1, SameMail
<1>3. Typed'
  <2>1. now' \in 0..MaxTime
    BY <1>1, PathAssumption DEF PathInv, Typed
  <2> QED
    BY <1>1, <2>1 DEF PathInv, Typed, server, history
<1>4. Honest'
  BY <1>1, <1>2 DEF PathInv, Honest, server, history
<1>5. Traced'
  <2>1. Given' = Given
    BY <1>1 DEF Given
  <2> QED
    BY <1>1, <1>2, <2>1 DEF PathInv, Traced, server, history
<1>6. Judged'
  BY <1>1 DEF PathInv, Judged, history
<1>7. RateInv'
  BY <1>1, IdleRate DEF PathInv, server, history
<1> QED
  BY <1>3, <1>4, <1>5, <1>6, <1>7 DEF PathInv


-----------------------------------------------------------------------------
(* Sending a message.                                                      *)

\* What the handler does with a message: nothing, refuse it, or accept it.
NoTrace == UNCHANGED <<inbox, tasks, accepted, shown>>
RefusedAs(m, reason) ==
  NoTrace /\ refused' = refused \cup {[message |-> m, reason |-> reason]}
AcceptedAs(c, m, ts, p, bucket) ==
  /\ tasks' = tasks \cup {[ch |-> Channel, bucket |-> bucket, msg |-> m,
                           sender |-> Mine(c), ts |-> ts, content |-> p]}
  /\ Broadcast(Conns, "msg:new", EnvelopeEncode(Id(Tenant), Id(Channel), Mine(c), m, ts, p))
  /\ accepted' = accepted \cup {m}
  /\ shown' = [shown EXCEPT ![c] = @ \cup {Fact("msg:new", Mine(c), m, ts, p)}]
  /\ UNCHANGED refused
Handled(c, m, ts, p) ==
  \/ NoTrace /\ UNCHANGED refused
  \/ \E reason \in Reasons :
       RefusedAs(m, reason) /\ (reason = "invalid_message" <=> ~SdkValidateMessage(p, Text))
  \/ /\ SdkValidateMessage(p, Text) /\ p.size \in 1..MaxContent
     /\ \E bucket \in 0..MaxBucket : AcceptedAs(c, m, ts, p, bucket)

\* The handler of msg:send, for an envelope with message m, time ts and payload
\* p; only a valid message is counted.
LEMMA MsgSendHandles ==
  ASSUME NEW c \in Conns, NEW data, NEW m \in ByteString, NEW ts \in Nat, NEW p \in ByteString,
         NifEnvelopeDecode(data) # Raised =>
           /\ NifEnvelopeDecode(data).message = m
           /\ NifEnvelopeDecode(data).timestamp = ts
           /\ NifEnvelopeDecode(data).payload = p,
         MsgSend(c, data)
  PROVE  /\ UNCHANGED <<now, open, rows, packages>>
         /\ Handled(c, m, ts, p)
         /\ \/ UNCHANGED <<counter, admitted>>
            \/ SdkValidateMessage(p, Text) /\ \E allowed \in BOOLEAN : Limited(c, allowed)
<1> DEFINE env == NifEnvelopeDecode(data)
           verdict == ValidateMessage(Id(Tenant), Id(Channel), Mine(c), env.payload, Text)
<1>1. UNCHANGED <<now, open, rows, packages>>
  BY DEF MsgSend
<1>2. CASE env = Raised
  BY <1>1, <1>2 DEF MsgSend, Handled, NoTrace
<1>3. CASE env # Raised
  <2>1. env.message = m /\ env.timestamp = ts /\ env.payload = p
    BY <1>3
  <2>2. verdict \in {"ok", "invalid_message"} /\ (verdict = "ok" <=> SdkValidateMessage(p, Text))
        /\ (verdict = "ok" => p.size \in 1..MaxContent)
    BY <2>1, VerdictAgrees
  <2>3. IF verdict # "ok"
        THEN Refuse(c, env, verdict) /\ UNCHANGED <<counter, admitted>>
        ELSE \E allowed \in BOOLEAN :
               /\ Limited(c, allowed)
               /\ IF allowed THEN Admit(c, env) ELSE Refuse(c, env, "rate_limited")
    BY <1>3 DEF MsgSend
  <2> HIDE DEF verdict, env
  <2>4. ASSUME NEW reason, Refuse(c, env, reason) PROVE RefusedAs(m, reason)
    BY <2>1, <2>4 DEF Refuse, RefusedAs, NoTrace
  <2>5. CASE verdict # "ok"
    BY <1>1, <2>2, <2>3, <2>4, <2>5 DEF Handled, Reasons
  <2>6. CASE verdict = "ok"
    <3>1. PICK allowed \in BOOLEAN :
            /\ Limited(c, allowed)
            /\ IF allowed THEN Admit(c, env) ELSE Refuse(c, env, "rate_limited")
      BY <2>3, <2>6
    <3>2. CASE ~allowed
      <4>1. RefusedAs(m, "rate_limited")
        BY <2>4, <3>1, <3>2
      <4> QED
        BY <1>1, <2>2, <2>6, <3>1, <4>1 DEF Handled, Reasons
    <3>3. CASE allowed
      <4> DEFINE bucket == ComputeTimeBucket(ts)
      <4>1. Admit(c, env)
        BY <3>1, <3>3
      <4>2. CASE bucket = Raised
        <5>1. RefusedAs(m, "internal_error")
          BY <2>1, <2>4, <4>1, <4>2 DEF Admit
        <5> QED
          BY <1>1, <2>2, <2>6, <3>1, <5>1 DEF Handled, Reasons
      <4>3. CASE bucket # Raised
        <5>1. Accept(c, env, bucket)
          BY <2>1, <4>1, <4>3 DEF Admit
        <5>2. bucket = Bucket(ts) /\ ~(Bucket(ts) > MaxBucket)
          BY <4>3 DEF ComputeTimeBucket, Nif, BucketPanics
        <5>3. Bucket(ts) \in Nat
          <6>1. BucketSpan \in Nat \ {0}
            BY BucketAssumption
          <6> QED
            BY <6>1, SMT DEF Bucket
        <5>4. bucket \in 0..MaxBucket
          BY <5>2, <5>3, WireAssumption
        <5> HIDE DEF bucket
        <5>5. Outgoing(c, env) = EnvelopeEncode(Id(Tenant), Id(Channel), Mine(c), m, ts, p)
          <6> DEFINE t == Id(Tenant)
                     ch == Id(Channel)
                     s == Mine(c)
          <6>1. t \in ByteString /\ ch \in ByteString /\ s \in ByteString
            BY NamedBytes
          <6> HIDE DEF t, ch, s
          <6>2. NifEnvelopeEncode(t, ch, s, m, ts, p) = EnvelopeEncode(t, ch, s, m, ts, p)
            BY <6>1, EnvelopeRead
          <6> QED
            BY <2>1, <6>2 DEF Outgoing, t, ch, s
        <5>6. AcceptedAs(c, m, ts, p, bucket)
          BY <2>1, <5>1, <5>5 DEF Accept, AcceptedAs, RowOf
        <5> QED
          BY <1>1, <2>2, <2>6, <3>1, <5>4, <5>6 DEF Handled, Reasons
      <4> QED
        BY <4>2, <4>3
    <3> QED
      BY <3>2, <3>3
  <2> QED
    BY <2>5, <2>6
<1> QED
  BY <1>2, <1>3

\* A new message is handled: whatever becomes of it, what was said of the
\* others stays true of them, because its id is new.
LEMMA SendHandled ==
  ASSUME PathInv, RateInv', NEW c \in Conns, NEW d \in Drafts, NEW p \in ByteString,
         sends' = sends + 1, sends' \in 0..MaxSends,
         said' = said \cup {Fact("msg:new", Mine(c), Id(sends + 1), d[2], p)},
         Handled(c, Id(sends + 1), d[2], p),
         UNCHANGED <<now, rows, packages>>, open' \subseteq open
  PROVE  PathInv'
<1> DEFINE m == Id(sends + 1)
           ts == d[2]
           fact == Fact("msg:new", Mine(c), m, ts, p)
           data == EnvelopeEncode(Id(Tenant), Id(Channel), Mine(c), m, ts, p)
           e == [ev |-> "msg:new", data |-> data]
           row(b) == [ch |-> Channel, bucket |-> b, msg |-> m,
                      sender |-> Mine(c), ts |-> ts, content |-> p]
<1>1. m \in ByteString /\ ts \in Nat /\ Mine(c) \in ByteString
      /\ Id(Tenant) \in ByteString /\ Id(Channel) \in ByteString
  <2>1. sends + 1 \in Nat
    BY PathAssumption DEF PathInv, Typed
  <2> QED
    BY <2>1, NamedBytes, PathAssumption
<1>2. Given' = Given \cup {m} /\ m \notin Given \cup {Empty}
  BY GivenGrows DEF PathInv
<1>3. said' = said \cup {fact}
  OBVIOUS
<1>4. Handled(c, m, ts, p)
  OBVIOUS
<1> HIDE DEF m, ts
<1>5. fact \in Facts /\ fact.ev = "msg:new" /\ fact.message = m /\ fact.content = p
  BY <1>1 DEF Fact, Facts, Kinds
<1>6. data \in Structs /\ EnvelopeFields(data).message = m
      /\ Entry(EnvelopeFields(data)) = fact
  <2> DEFINE t == Id(Tenant)
             ch == Id(Channel)
             s == Mine(c)
  <2>1. t \in ByteString /\ ch \in ByteString /\ s \in ByteString
    BY <1>1
  <2> HIDE DEF t, ch, s
  <2>2. PICK id \in ByteString, time \in Nat : id = m /\ time = ts
    BY <1>1
  <2>3. EnvelopeEncode(t, ch, s, id, time, p) \in Structs
    BY <2>1, EnvelopeRead
  <2>4. EnvelopeFields(EnvelopeEncode(t, ch, s, id, time, p)).message = id
    BY <2>1, EnvelopeRead
  <2>5. Entry(EnvelopeFields(EnvelopeEncode(t, ch, s, id, time, p)))
          = Fact("msg:new", s, id, time, p)
    BY <2>1, EnvelopeRead
  <2> QED
    BY <2>2, <2>3, <2>4, <2>5 DEF t, ch, s
<1> HIDE DEF data, fact
<1>7. e \in Frames /\ e.ev = "msg:new" /\ EnvelopeFields(e.data).message = m
      /\ \A x \in Conns : Reading(x, e) \in {fact, None}
  BY <1>6 DEF Frames, Kinds, Reading
<1>8. m \notin accepted /\ \A r \in refused : r.message # m
  BY <1>2 DEF PathInv, Traced
<1>9. \A f \in said : f.ev = "msg:new" => f.message # m
  BY <1>2 DEF PathInv, Traced
<1>10. CASE NoTrace /\ UNCHANGED refused
  <2>1. \A x \in Conns : Mail(x)' = Mail(x)
    BY <1>10, SameMail DEF NoTrace
  <2>2. Typed'
    BY <1>3, <1>5, <1>10 DEF PathInv, Typed, NoTrace
  <2>3. Honest'
    BY <1>3, <1>10, <2>1 DEF PathInv, Honest, NoTrace
  <2>4. Traced'
    BY <1>2, <1>3, <1>5, <1>10, <2>1 DEF PathInv, Traced, NoTrace
  <2>5. Judged'
    BY <1>3, <1>5, <1>8, <1>10 DEF PathInv, Judged, NoTrace
  <2> QED
    BY <2>2, <2>3, <2>4, <2>5 DEF PathInv
<1>11. CASE \E reason \in Reasons :
              RefusedAs(m, reason) /\ (reason = "invalid_message" <=> ~SdkValidateMessage(p, Text))
  <2>1. PICK reason \in Reasons :
              RefusedAs(m, reason) /\ (reason = "invalid_message" <=> ~SdkValidateMessage(p, Text))
    BY <1>11
  <2> DEFINE new == [message |-> m, reason |-> reason]
  <2>2. NoTrace /\ refused' = refused \cup {new} /\ new.message = m /\ new.reason = reason
        /\ new \in Refusals
    BY <1>1, <2>1 DEF RefusedAs, Refusals
  <2> HIDE DEF new
  <2>3. \A x \in Conns : Mail(x)' = Mail(x)
    BY <2>2, SameMail DEF NoTrace
  <2>4. Typed'
    BY <1>3, <1>5, <2>2 DEF PathInv, Typed, NoTrace
  <2>5. Honest'
    BY <1>3, <2>2, <2>3 DEF PathInv, Honest, NoTrace
  <2>6. Traced'
    BY <1>2, <1>3, <1>5, <1>8, <2>2, <2>3 DEF PathInv, Traced, NoTrace
  <2>7. Judged'
    BY <1>3, <1>5, <1>8, <1>9, <2>1, <2>2 DEF PathInv, Judged, NoTrace
  <2> QED
    BY <2>4, <2>5, <2>6, <2>7 DEF PathInv
<1>12. CASE /\ SdkValidateMessage(p, Text) /\ p.size \in 1..MaxContent
            /\ \E bucket \in 0..MaxBucket : AcceptedAs(c, m, ts, p, bucket)
  <2>1. PICK b \in 0..MaxBucket : AcceptedAs(c, m, ts, p, b)
    BY <1>12
  <2>2. /\ tasks' = tasks \cup {row(b)} /\ refused' = refused
        /\ Broadcast(Conns, "msg:new", data)
        /\ accepted' = accepted \cup {m}
        /\ shown' = [shown EXCEPT ![c] = @ \cup {fact}]
    BY <2>1 DEF AcceptedAs, data, fact
  <2>3. row(b) \in Rows /\ row(b).bucket \in 0..MaxBucket
    <3>1. ts \in {x[2] : x \in Drafts}
      BY DEF ts
    <3>2. b \in -(MaxInt + 1)..MaxBucket
      BY <2>1, WireAssumption
    <3> QED
      BY <1>1, <1>12, <3>1, <3>2 DEF Rows
  <2>4. row(b).msg = m
        /\ Fact("msg:new", row(b).sender, row(b).msg, row(b).ts, row(b).content) = fact
    BY DEF fact
  <2> HIDE DEF row
  <2>5. inbox' \in [Conns -> Seq(Frames)]
        /\ \A x \in Conns : Mail(x)' \subseteq Mail(x) \cup {e}
    BY <1>7, <2>2, BroadcastMail DEF PathInv, Typed
  <2>6. shown \in [Conns -> SUBSET Facts]
    BY DEF PathInv, Typed
  <2>7. shown' \in [Conns -> SUBSET Facts]
        /\ \A x \in Conns : shown'[x] \subseteq shown[x] \cup {fact}
    BY <1>5, <2>2, <2>6
  <2> HIDE DEF e
  <2>8. Typed'
    <3>1. /\ tasks' \subseteq Rows /\ \A x \in tasks' : x.bucket \in 0..MaxBucket
      BY <2>2, <2>3 DEF PathInv, Typed
    <3> QED
      BY <1>3, <1>5, <2>2, <2>5, <2>7, <3>1 DEF PathInv, Typed
  <2>9. Honest'
    BY <1>3, <1>7, <2>2, <2>4, <2>5, <2>7 DEF PathInv, Honest
  <2>10. Traced'
    <3>1. \A r \in tasks' \cup rows' : r.msg \in accepted'
      BY <2>2, <2>4 DEF PathInv, Traced
    <3>2. \A x \in Conns : \A f \in shown'[x] : f.ev = "msg:new" => f.message \in accepted'
      BY <1>5, <2>2, <2>7 DEF PathInv, Traced
    <3>3. \A x \in Conns : \A f \in Mail(x)' :
            f.ev = "msg:new" => EnvelopeFields(f.data).message \in accepted'
      BY <1>7, <2>2, <2>5 DEF PathInv, Traced
    <3>4. \A r \in refused' : r.message \notin accepted' /\ r.message \in Given' \cup {Empty}
      BY <1>2, <1>8, <2>2 DEF PathInv, Traced
    <3>5. accepted' \subseteq Given'
      BY <1>2, <2>2 DEF PathInv, Traced
    <3>6. \A f \in said' : f.ev = "msg:new" => f.message \in Given'
      BY <1>2, <1>3, <1>5 DEF PathInv, Traced
    <3> QED
      BY <3>1, <3>2, <3>3, <3>4, <3>5, <3>6 DEF Traced
  <2>11. Judged'
    BY <1>3, <1>5, <1>8, <1>9, <1>12, <2>2 DEF PathInv, Judged
  <2> QED
    BY <2>8, <2>9, <2>10, <2>11 DEF PathInv
<1> QED
  BY <1>4, <1>10, <1>11, <1>12 DEF Handled

LEMMA SendInv ==
  ASSUME PathInv, NEW c \in Conns, NEW d \in Drafts, Send(c, d[1], d[2])
  PROVE  PathInv'
<1> DEFINE m == Id(sends + 1)
           p == Bytes(sends + 1, d[1])
           data == EnvelopeEncode(Id(Tenant), Id(Channel), Mine(c), m, d[2], p)
<1>1. d[1] \in Nat /\ d[2] \in Nat /\ sends \in Nat /\ sends + 1 \in Nat /\ MaxSends \in Nat
  BY PathAssumption DEF PathInv, Typed
<1>2. p \in ByteString /\ m \in ByteString /\ Mine(c) \in ByteString
      /\ Id(Tenant) \in ByteString /\ Id(Channel) \in ByteString
  <2>1. sends + 1 \in Values
    BY <1>1 DEF Values
  <2> QED
    BY <1>1, <2>1, NamedBytes, BytesFields
<1>3. /\ sends < MaxSends /\ sends' = sends + 1
      /\ said' = said \cup {Fact("msg:new", Mine(c), m, d[2], p)}
      /\ IF FrameSize(data) > MaxFrame THEN Overrun(c) ELSE MsgSend(c, data)
  BY DEF Send
<1>4. sends' \in 0..MaxSends
  BY <1>1, <1>3
<1> HIDE DEF m, p
<1>5. NifEnvelopeDecode(data) # Raised =>
        /\ NifEnvelopeDecode(data).message = m
        /\ NifEnvelopeDecode(data).timestamp = d[2]
        /\ NifEnvelopeDecode(data).payload = p
  <2> DEFINE t == Id(Tenant)
             ch == Id(Channel)
             s == Mine(c)
  <2>1. t \in ByteString /\ ch \in ByteString /\ s \in ByteString
    BY <1>2
  <2> HIDE DEF t, ch, s
  <2>2. PICK id \in ByteString, time \in Nat, body \in ByteString :
          id = m /\ time = d[2] /\ body = p
    BY <1>1, <1>2
  <2> DEFINE bin == EnvelopeEncode(t, ch, s, id, time, body)
  <2>3. EnvelopeFields(bin).message = id
    BY <2>1, EnvelopeRead
  <2>4. EnvelopeFields(bin).timestamp = time
    BY <2>1, EnvelopeRead
  <2>5. EnvelopeFields(bin).payload = body
    BY <2>1, EnvelopeRead
  <2>6. data = bin
    BY <2>2 DEF t, ch, s
  <2> HIDE DEF bin, data
  <2>7. NifEnvelopeDecode(bin) # Raised => NifEnvelopeDecode(bin) = EnvelopeFields(bin)
    BY DEF NifEnvelopeDecode, EnvelopeDecode, Nif
  <2> QED
    BY <2>2, <2>3, <2>4, <2>5, <2>6, <2>7
<1> HIDE DEF data
<1>6. CASE Overrun(c)
  <2>1. UNCHANGED <<now, inbox, shown, counter, tasks, rows, packages, accepted, refused, admitted>>
        /\ open' \subseteq open
    BY <1>6 DEF Overrun, server
  <2>2. Handled(c, m, d[2], p)
    BY <2>1 DEF Handled, NoTrace
  <2>3. RateInv'
    BY <1>3, <2>1, IdleRate DEF PathInv
  <2> QED
    BY <1>2, <1>3, <1>4, <2>1, <2>2, <2>3, SendHandled DEF m
<1>7. CASE MsgSend(c, data)
  <2>1. /\ UNCHANGED <<now, open, rows, packages>> /\ Handled(c, m, d[2], p)
        /\ \/ UNCHANGED <<counter, admitted>>
           \/ \E allowed \in BOOLEAN : Limited(c, allowed)
    BY <1>1, <1>2, <1>5, <1>7, MsgSendHandles
  <2>2. RateInv'
    BY <1>3, <2>1, IdleRate, LimitedRate DEF PathInv
  <2> QED
    BY <1>2, <1>3, <1>4, <2>1, <2>2, SendHandled DEF m
<1> QED
  BY <1>3, <1>6, <1>7

LEMMA SendOtherInv ==
  ASSUME PathInv, NEW c \in Conns, NEW data \in {Garbage, TypingEncode(Mine(c))},
         SendOther(c, data)
  PROVE  PathInv'
<1>1. MsgSend(c, data) /\ UNCHANGED <<sends, said>>
  BY DEF SendOther
<1>2. Empty \in ByteString /\ Empty.size = 0 /\ 0 \in Nat
  BY NamedBytes
<1>3. ~SdkValidateMessage(Empty, Text)
  BY <1>2 DEF SdkValidateMessage, Text, Delete
<1>4. /\ UNCHANGED <<now, open, rows, packages, counter, admitted>>
      /\ Handled(c, Empty, 0, Empty)
  BY <1>1, <1>2, <1>3, OtherRead, MsgSendHandles
<1>5. NoTrace
  BY <1>3, <1>4 DEF Handled, RefusedAs
<1>6. \A r \in refused' : r \in refused \/ (r.message = Empty /\ r \in Refusals)
  BY <1>2, <1>3, <1>4 DEF Handled, RefusedAs, Refusals
<1>7. \A x \in Conns : Mail(x)' = Mail(x)
  BY <1>5, SameMail DEF NoTrace
<1>8. \A k \in 1..sends : Id(k) # Empty
  BY NamedBytes
<1>9. Typed'
  BY <1>1, <1>4, <1>5, <1>6 DEF PathInv, Typed, NoTrace
<1>10. Honest'
  BY <1>1, <1>4, <1>5, <1>7 DEF PathInv, Honest, NoTrace
<1>11. Traced'
  <2>1. Given' = Given /\ Empty \notin Given
    BY <1>1, <1>8 DEF Given
  <2> QED
    BY <1>1, <1>4, <1>5, <1>6, <1>7, <2>1 DEF PathInv, Traced, NoTrace
<1>12. Judged'
  <2>1. \A f \in said : f.ev = "msg:new" => f.message # Empty
    BY <1>8 DEF PathInv, Traced, Given
  <2> QED
    BY <1>1, <1>5, <1>6, <2>1 DEF PathInv, Judged, NoTrace
<1>13. RateInv'
  BY <1>1, <1>4, IdleRate DEF PathInv
<1> QED
  BY <1>9, <1>10, <1>11, <1>12, <1>13 DEF PathInv


-----------------------------------------------------------------------------
(* The theorems.                                                           *)

\* The invariant holds in every reachable state.
LEMMA SpecPathInv == Spec => []PathInv
<1>1. Init => PathInv
  BY InitPathInv
<1>2. PathInv /\ [Next]_vars => PathInv'
  <2> SUFFICES ASSUME PathInv, [Next]_vars PROVE PathInv'
    OBVIOUS
  <2>1. ASSUME NEW c \in Conns, \E d \in Drafts : Send(c, d[1], d[2]) PROVE PathInv'
    BY <2>1, SendInv
  <2>2. ASSUME NEW c \in Conns,
               \E data \in {Garbage, TypingEncode(Mine(c))} : SendOther(c, data)
        PROVE  PathInv'
    BY <2>2, SendOtherInv
  <2>3. ASSUME NEW c \in Conns, \E f \in shown[c] : MarkRead(c, f.message) PROVE PathInv'
    BY <2>3, MarkReadInv
  <2>4. ASSUME NEW c \in Conns, SendTyping(c) \/ SendCommit(c) \/ UploadKeyPackage(c)
        PROVE  PathInv'
    BY <2>4, SendTypingInv, SendCommitInv, UploadInv
  <2>5. ASSUME NEW c \in Conns, \E u \in Users : SendWelcome(c, u) \/ FetchKeyPackages(c, u)
        PROVE  PathInv'
    BY <2>5, SendWelcomeInv, FetchInv
  <2>6. ASSUME NEW c \in Conns, History(c) \/ Receive(c) PROVE PathInv'
    BY <2>6, HistoryInv, ReceiveInv
  <2>7. CASE \E r \in tasks : WriteMessage(r) \/ WriteFails(r)
    BY <2>7, WriteInv
  <2>8. CASE Tick
    BY <2>8, TickInv
  <2>9. CASE UNCHANGED vars
    <3>1. UNCHANGED <<now, open, inbox, shown, server, sends, history>>
      BY <2>9 DEF vars
    <3>2. (\A d \in Conns : Mail(d)' = Mail(d)) /\ Given' = Given
      BY <3>1, SameMail DEF Given
    <3>3. Typed' /\ Honest' /\ Traced' /\ Judged'
      BY <3>1, <3>2 DEF PathInv, Typed, Honest, Traced, Judged, server, history
    <3>4. RateInv'
      BY <3>1, IdleRate DEF PathInv, server, history
    <3> QED
      BY <3>3, <3>4 DEF PathInv
  <2> QED
    BY <2>1, <2>2, <2>3, <2>4, <2>5, <2>6, <2>7, <2>8, <2>9 DEF Next
<1> QED
  BY <1>1, <1>2, PTL DEF Spec

\* Clocks, counters and rows keep their types: the bucket of a stored row is a
\* signed int and that of a row to be stored a u32, whatever time the sender put
\* into its envelope (time_bucket.rs, messages.ex).
THEOREM PathTypeOK == Spec => []TypeOK
<1>1. PathInv => TypeOK
  <2> SUFFICES ASSUME PathInv PROVE TypeOK
    OBVIOUS
  <2>1. \A n \in {MaxTime, MaxSends, Window} : n \in Nat
    BY PathAssumption
  <2>2. now \in 0..MaxTime /\ open \subseteq Conns /\ sends \in 0..MaxSends
    BY DEF PathInv, Typed
  <2>3. ASSUME NEW u \in Users
        PROVE  counter[u].n \in 0..MaxSends /\ counter[u].until \in 0..(MaxTime + Window)
    <3>1. counter[u].n \in Nat /\ counter[u].until \in Nat
          /\ counter[u].n <= sends /\ counter[u].until <= now + Window
      BY DEF PathInv, RateInv, CounterOK
    <3> QED
      BY <2>1, <2>2, <3>1
  <2>4. ASSUME NEW r \in tasks \cup rows
        PROVE  /\ \E d \in Drafts : d[2] = r.ts
               /\ r.content.size \in 1..MaxContent
    <3>1. r \in Rows
      BY DEF PathInv, Typed
    <3> QED
      BY <3>1 DEF Rows
  <2>5. \A c \in Conns : packages[c] # None => packages[c].kind = "data"
    BY DEF PathInv, Typed, ByteString
  <2>6. /\ \A r \in tasks : r.bucket \in 0..MaxBucket
        /\ \A r \in rows : r.bucket \in -(MaxInt + 1)..MaxInt
    BY DEF PathInv, Typed
  <2> QED
    BY <2>2, <2>3, <2>4, <2>5, <2>6 DEF TypeOK
<1> QED
  BY <1>1, SpecPathInv, PTL

\* Nobody is shown, and nothing is stored, but what a client set out to tell,
\* through every codec on the way (proto.rs, handle_push, channel.ts).
THEOREM PathAuthentic == Spec => []Authentic
<1>1. PathInv => Authentic
  BY DEF PathInv, Honest, Authentic
<1> QED
  BY <1>1, SpecPathInv, PTL

\* A message that was answered with an error has left no row, no task and no
\* broadcast (handle_push of msg:send): sending it again does not double it.
THEOREM PathRefusedLeavesNoTrace == Spec => []RefusedLeavesNoTrace
<1>1. PathInv => RefusedLeavesNoTrace
  <2> SUFFICES ASSUME PathInv, NEW x \in refused
               PROVE  /\ x.message \notin accepted
                      /\ \A r \in tasks \cup rows : r.msg # x.message
                      /\ \A c \in Conns :
                           /\ \A f \in shown[c] : f.ev = "msg:new" => f.message # x.message
                           /\ \A i \in DOMAIN inbox[c] : inbox[c][i].ev = "msg:new" =>
                                EnvelopeFields(inbox[c][i].data).message # x.message
    BY DEF RefusedLeavesNoTrace
  <2>1. x.message \notin accepted
    BY DEF PathInv, Traced
  <2>2. \A c \in Conns : \A i \in DOMAIN inbox[c] : inbox[c][i] \in Mail(c)
    BY DEF Mail
  <2> QED
    BY <2>1, <2>2 DEF PathInv, Traced
<1> QED
  BY <1>1, SpecPathInv, PTL

\* The rate counter (Cache.rate_check) admits at most Rate messages of a user
\* in any Window, over all connections, although the window it keeps is not a
\* sliding one and every attempt renews its expiry.
THEOREM PathAtMostRate == Spec => []AtMostRate
<1>1. PathInv => AtMostRate
  BY DEF PathInv, RateInv, CounterOK, AtMostRate
<1> QED
  BY <1>1, SpecPathInv, PTL

\* The validator of the gateway and the one of the browser agree on every
\* message that is answered (message.rs, mercury-sdk-core).
THEOREM PathValidatorsAgree == Spec => []ValidatorsAgree
<1>1. PathInv => ValidatorsAgree
  <2> SUFFICES ASSUME PathInv, NEW f \in said, f.ev = "msg:new",
                      f.message \in accepted \cup {r.message : r \in refused}
               PROVE  [message |-> f.message, reason |-> "invalid_message"] \in refused
                        <=> ~SdkValidateMessage(f.content, Text)
    BY DEF ValidatorsAgree
  <2>1. \A r \in refused : r.message = f.message =>
          (r.reason = "invalid_message" <=> ~SdkValidateMessage(f.content, Text))
    BY DEF PathInv, Judged
  <2>2. f.message \in accepted => SdkValidateMessage(f.content, Text)
    BY DEF PathInv, Judged
  <2> DEFINE inv == [message |-> f.message, reason |-> "invalid_message"]
  <2>3. inv.message = f.message /\ inv.reason = "invalid_message"
    OBVIOUS
  <2>4. ASSUME inv \in refused PROVE ~SdkValidateMessage(f.content, Text)
    BY <2>1, <2>3, <2>4
  <2>5. ASSUME ~SdkValidateMessage(f.content, Text) PROVE inv \in refused
    <3>1. PICK r \in refused : r.message = f.message
      BY <2>2, <2>5
    <3>2. r.reason = "invalid_message"
      BY <2>1, <2>5, <3>1
    <3>3. r = [message |-> r.message, reason |-> r.reason]
      BY DEF PathInv, Typed, Refusals
    <3> QED
      BY <3>1, <3>2, <3>3
  <2> QED
    BY <2>4, <2>5
<1> QED
  BY <1>1, SpecPathInv, PTL


=============================================================================
