--------------------------- MODULE Stores_proofs ----------------------------
(***************************************************************************)
(* Proofs about the members and the recent messages behind the cache, for  *)
(* any number of socket processes and messages, any interleaving of their  *)
(* steps, and with or without faults.                                      *)
(***************************************************************************)
EXTENDS Stores, FiniteSetTheorems, WellFoundedInduction, TLAPS

-----------------------------------------------------------------------------
(* The first n messages in the order of the table.                         *)

Above(S, m) == {x \in S : x > m}

LEMMA NatMin ==
  ASSUME NEW T \in SUBSET Nat, T # {}
  PROVE  \E x \in T : \A y \in T : x <= y
<1>1. PICK x \in T : \A y \in T : <<y, x>> \notin OpToRel(<, Nat)
  BY NatLessThanWellFounded, WFMin
<1>2. \A y \in T : ~(y < x)
  BY <1>1 DEF OpToRel
<1> QED
  BY <1>2

LEMMA AboveFinite ==
  ASSUME NEW S, IsFiniteSet(S), NEW m
  PROVE  IsFiniteSet(Above(S, m)) /\ Cardinality(Above(S, m)) \in Nat
<1>1. Above(S, m) \in SUBSET S
  BY DEF Above
<1> QED
  BY <1>1, FS_Subset, FS_CardinalityType

LEMMA AboveShrinks ==
  ASSUME NEW S \in SUBSET Nat, NEW m \in S, NEW x \in S, x < m
  PROVE  Above(S, m) \in SUBSET Above(S, x) /\ m \notin Above(S, m)
<1>1. m \in Nat /\ x \in Nat
  OBVIOUS
<1>2. \A y \in Nat : y > m => y > x
  BY <1>1
<1>3. ~(m > m)
  BY <1>1
<1> QED
  BY <1>2, <1>3 DEF Above

LEMMA TopIs ==
  ASSUME NEW S, NEW n
  PROVE  /\ Top(S, n) \subseteq S
         /\ \A m \in S : m \in Top(S, n) <=> Cardinality(Above(S, m)) < n
  BY DEF Top, Above

LEMMA TopFinite ==
  ASSUME NEW S, IsFiniteSet(S), NEW n
  PROVE  /\ Top(S, n) \in SUBSET S /\ IsFiniteSet(Top(S, n))
         /\ Cardinality(Top(S, n)) \in Nat
<1>1. Top(S, n) \in SUBSET S
  BY TopIs
<1> QED
  BY <1>1, FS_Subset, FS_CardinalityType

\* What is left out is smaller than everything that is not.
LEMMA TopAbove ==
  ASSUME NEW S \in SUBSET Nat, IsFiniteSet(S), NEW n \in Nat,
         NEW m \in S, m \notin Top(S, n), NEW x \in Top(S, n)
  PROVE  x > m
<1>1. x \in S /\ Cardinality(Above(S, x)) < n /\ ~(Cardinality(Above(S, m)) < n)
  BY TopIs
<1>2. /\ Cardinality(Above(S, x)) \in Nat /\ Cardinality(Above(S, m)) \in Nat
      /\ IsFiniteSet(Above(S, x))
  BY AboveFinite
<1>3. CASE x < m
  <2>1. Above(S, m) \in SUBSET Above(S, x)
    BY <1>1, <1>3, AboveShrinks
  <2>2. Cardinality(Above(S, m)) <= Cardinality(Above(S, x))
    BY <1>2, <2>1, FS_Subset
  <2> QED
    BY <1>1, <1>2, <2>2
<1>4. x # m
  BY <1>1
<1> QED
  BY <1>1, <1>3, <1>4

\* At most n of them.
LEMMA TopBound ==
  ASSUME NEW S \in SUBSET Nat, IsFiniteSet(S), NEW n \in Nat
  PROVE  Cardinality(Top(S, n)) <= n
<1> DEFINE T == Top(S, n)
<1>1. T \in SUBSET S /\ IsFiniteSet(T) /\ Cardinality(T) \in Nat
  BY TopFinite
<1>2. CASE T = {}
  BY <1>2, FS_EmptySet
<1>3. CASE T # {}
  <2>1. PICK m \in T : \A y \in T : m <= y
    BY <1>1, <1>3, NatMin
  <2>2. m \in S /\ Cardinality(Above(S, m)) < n
    BY <2>1, <1>1, TopIs
  <2>3. T \ {m} \in SUBSET Above(S, m)
    <3> SUFFICES ASSUME NEW x \in T \ {m} PROVE x \in S /\ x > m
      BY DEF Above
    <3>1. x \in S /\ x \in Nat /\ m \in Nat /\ m <= x /\ x # m
      BY <1>1, <2>1, <2>2
    <3> QED
      BY <3>1
  <2>4. IsFiniteSet(Above(S, m)) /\ Cardinality(Above(S, m)) \in Nat
    BY AboveFinite
  <2>5. Cardinality(T \ {m}) <= Cardinality(Above(S, m))
    BY <2>3, <2>4, FS_Subset
  <2>6. Cardinality(T \ {m}) = Cardinality(T) - 1
    <3> HIDE DEF T
    <3> QED BY <1>1, <2>1, FS_RemoveElement
  <2> HIDE DEF T
  <2>7. Cardinality(T) <= n
    BY <1>1, <2>2, <2>4, <2>5, <2>6
  <2> QED
    BY <2>7 DEF T
<1> QED
  BY <1>2, <1>3

\* Exactly n when something is left out.
LEMMA TopFull ==
  ASSUME NEW S \in SUBSET Nat, IsFiniteSet(S), NEW n \in Nat,
         NEW m \in S, m \notin Top(S, n)
  PROVE  Cardinality(Top(S, n)) = n
<1> DEFINE Out == S \ Top(S, n)
           Counts == {Cardinality(Above(S, y)) : y \in Out}
<1>1. Counts \in SUBSET Nat /\ Counts # {}
  BY AboveFinite
<1>2. PICK k \in Counts : \A j \in Counts : k <= j
  BY <1>1, NatMin
<1>3. PICK y \in Out : k = Cardinality(Above(S, y))
  BY <1>2
<1>4. y \in S /\ ~(Cardinality(Above(S, y)) < n)
  BY <1>3, TopIs
<1>5. Above(S, y) \in SUBSET Top(S, n)
  <2> SUFFICES ASSUME NEW z \in Above(S, y), z \notin Top(S, n) PROVE FALSE
    OBVIOUS
  <2>1. z \in S /\ z > y /\ z \in Out
    BY DEF Above
  <2>2. Above(S, z) \in SUBSET Above(S, y) /\ z \notin Above(S, z)
    BY <1>4, <2>1, AboveShrinks
  <2>3. /\ IsFiniteSet(Above(S, y)) /\ Cardinality(Above(S, y)) \in Nat
        /\ Cardinality(Above(S, z)) \in Nat
    BY AboveFinite
  <2>4. /\ Cardinality(Above(S, z)) <= Cardinality(Above(S, y))
        /\ Cardinality(Above(S, z)) # Cardinality(Above(S, y))
    BY <2>2, <2>3, FS_Subset
  <2>5. k <= Cardinality(Above(S, z))
    BY <1>2, <2>1
  <2> QED
    BY <1>3, <2>3, <2>4, <2>5
<1>6. IsFiniteSet(Top(S, n)) /\ Cardinality(Top(S, n)) \in Nat
  BY TopFinite
<1>7. Cardinality(Above(S, y)) <= Cardinality(Top(S, n))
  BY <1>5, <1>6, FS_Subset
<1>8. Cardinality(Above(S, y)) \in Nat
  BY AboveFinite
<1>9. Cardinality(Top(S, n)) <= n
  BY TopBound
<1> QED
  BY <1>4, <1>6, <1>7, <1>8, <1>9

-----------------------------------------------------------------------------
(* Type correctness.                                                       *)

LEMMA StoresConstants ==
  /\ UserOf \in [Procs -> Users] /\ Start \subseteq SUBSET Users
  /\ Msgs \subseteq Nat \ {0} /\ Older \subseteq Msgs /\ Limits \subseteq Nat \ {0}
  /\ \A m \in Older, n \in Msgs \ Older : m < n
  BY StoresAssumption

LEMMA JobKinds ==
  /\ \A r \in JoinJob : /\ r # None /\ r.op = "join" /\ r.user \in Users
                        /\ r.read \in SUBSET Users
  /\ \A r \in ChangeJob : r # None /\ r.op \in {"remove", "create"} /\ r.user \in Users
  /\ \A r \in PageJob : /\ r # None /\ r.op \in {"older", "history"} /\ r.limit \in Limits
                        /\ r.page \in SUBSET Msgs /\ r.must \in SUBSET Msgs
  BY StoresAssumption DEF JoinJob, ChangeJob, PageJob

\* Steps on the read position.
LEMMA MarksType ==
  ASSUME TypeOK, NEW t \in marks, GetPosition(t) \/ PutPosition(t)
  PROVE  TypeOK'
<1>1. UNCHANGED <<members, rows, cache, tainted, job, reply, writes>>
  BY DEF GetPosition, PutPosition, tables, caches
<1>2. /\ t \in [msg : Msgs, pc : {"get", "put"}, seen : Msgs \cup {0}]
      /\ \A u \in marks : u.seen < u.msg
  BY DEF TypeOK
<1>3. /\ marks' \subseteq [msg : Msgs, pc : {"get", "put"}, seen : Msgs \cup {0}]
      /\ \A u \in marks' : u.seen < u.msg
      /\ position' \in Msgs \cup {0}
  <2>1. CASE PutPosition(t)
    BY <1>2, <2>1 DEF PutPosition, TypeOK
  <2>2. CASE GetPosition(t)
    <3>1. PICK seen \in {position} \cup {0} :
            marks' = (marks \ {t}) \cup
              (IF seen >= t.msg THEN {} ELSE {[t EXCEPT !.pc = "put", !.seen = seen]})
      BY <2>2 DEF GetPosition
    <3>2. position' = position
      BY <2>2 DEF GetPosition
    <3>3. seen \in Msgs \cup {0} /\ seen \in Nat /\ t.msg \in Nat
      BY <1>2, <3>1, StoresConstants DEF TypeOK
    <3>4. /\ [t EXCEPT !.pc = "put", !.seen = seen]
               \in [msg : Msgs, pc : {"get", "put"}, seen : Msgs \cup {0}]
          /\ [t EXCEPT !.pc = "put", !.seen = seen].msg = t.msg
          /\ [t EXCEPT !.pc = "put", !.seen = seen].seen = seen
      BY <1>2, <3>3
    <3>5. \A u \in marks' : u \in marks \/ (/\ u = [t EXCEPT !.pc = "put", !.seen = seen]
                                            /\ seen < t.msg)
      BY <3>1, <3>3
    <3> QED
      BY <1>2, <3>2, <3>3, <3>4, <3>5 DEF TypeOK
  <2> QED
    BY <2>1, <2>2
<1> QED
  BY <1>1, <1>3 DEF TypeOK

\* Put, Invalidate and Expire.
LEMMA CacheType ==
  ASSUME TypeOK, NEW k \in Keys, NEW value,
         \/ Put(k, value) /\ (\/ k = "members" /\ value \in (SUBSET Users) \ {{}}
                              \/ k = "recent" /\ value \in (SUBSET Msgs) \ {{}})
         \/ Invalidate(k) \/ Expire(k) \/ UNCHANGED caches
  PROVE  /\ cache' \in [Keys -> {None} \cup SUBSET (Users \cup Msgs)]
         /\ cache'.members # None => cache'.members \in (SUBSET Users) \ {{}}
         /\ cache'.recent # None => cache'.recent \in (SUBSET Msgs) \ {{}}
         /\ tainted' \in [Keys -> BOOLEAN]
<1>1. \/ cache' = cache
      \/ cache' = [cache EXCEPT ![k] = None]
      \/ /\ cache' = [cache EXCEPT ![k] = value]
         /\ \/ k = "members" /\ value \in (SUBSET Users) \ {{}}
            \/ k = "recent" /\ value \in (SUBSET Msgs) \ {{}}
  BY DEF Put, Invalidate, Expire, caches
<1>2. \E b \in BOOLEAN : tainted' = tainted \/ tainted' = [tainted EXCEPT ![k] = b]
  <2>1. \A v : (cache[k] # None) \in BOOLEAN /\ (~Current(k, v)) \in BOOLEAN
    OBVIOUS
  <2> QED
    BY <2>1 DEF Put, Invalidate, Expire, caches
<1>3. tainted' \in [Keys -> BOOLEAN]
  BY <1>2 DEF TypeOK
<1>4. /\ cache \in [Keys -> {None} \cup SUBSET (Users \cup Msgs)]
      /\ cache["members"] # None => cache["members"] \in (SUBSET Users) \ {{}}
      /\ cache["recent"] # None => cache["recent"] \in (SUBSET Msgs) \ {{}}
      /\ "members" \in Keys /\ "recent" \in Keys
  BY DEF TypeOK, Keys
<1>5. cache' \in [Keys -> {None} \cup SUBSET (Users \cup Msgs)]
  BY <1>1, <1>4
<1>6. cache'["members"] # None => cache'["members"] \in (SUBSET Users) \ {{}}
  BY <1>1, <1>4
<1>7. cache'["recent"] # None => cache'["recent"] \in (SUBSET Msgs) \ {{}}
  BY <1>1, <1>4
<1> QED
  BY <1>3, <1>5, <1>6, <1>7

LEMMA JoinIs ==
  ASSUME NEW u \in Users, NEW read \in SUBSET Users
  PROVE  /\ Join(u, read) \in JoinJob
         /\ Join(u, read).user = u /\ Join(u, read).read = read
         /\ Join(u, read).ever <=> u \in members \/ Removing(u)
         /\ Join(u, read).always <=> u \in members /\ ~Adding(u)
<1>1. (u \in members \/ Removing(u)) \in BOOLEAN /\ (u \in members /\ ~Adding(u)) \in BOOLEAN
  OBVIOUS
<1>2. \A e, a \in BOOLEAN :
        LET j == [op |-> "join", user |-> u, read |-> read, ever |-> e, always |-> a]
        IN  j \in JoinJob /\ j.user = u /\ j.read = read /\ j.ever = e /\ j.always = a
  BY DEF JoinJob
<1> QED
  BY <1>1, <1>2 DEF Join

LEMMA PageIs ==
  ASSUME NEW limit \in Limits, NEW page \in SUBSET Msgs, NEW must \in SUBSET Msgs
  PROVE  /\ Page(limit, page, must) \in PageJob
         /\ Page(limit, page, must).op = "history" /\ Page(limit, page, must).limit = limit
         /\ Page(limit, page, must).page = page /\ Page(limit, page, must).must = must
         /\ Page(limit, page, must).whole /\ ~Page(limit, page, must).tainted
  BY DEF Page, PageJob

\* A join in progress whose verdict another process's step has widened.
LEMMA WidenedJoin ==
  ASSUME NEW j \in JoinJob
  PROVE  /\ [j EXCEPT !.always = FALSE] \in JoinJob /\ [j EXCEPT !.ever = TRUE] \in JoinJob
         /\ [j EXCEPT !.always = FALSE].user = j.user /\ [j EXCEPT !.always = FALSE].read = j.read
         /\ [j EXCEPT !.always = FALSE].ever = j.ever /\ ~[j EXCEPT !.always = FALSE].always
         /\ [j EXCEPT !.ever = TRUE].user = j.user /\ [j EXCEPT !.ever = TRUE].read = j.read
         /\ [j EXCEPT !.ever = TRUE].always = j.always /\ [j EXCEPT !.ever = TRUE].ever
  BY DEF JoinJob

\* The page of a request after a step on it.
LEMMA ChangedPage ==
  ASSUME NEW j \in PageJob, NEW op \in {"older", "history"}, NEW page \in SUBSET Msgs
  PROVE  /\ [j EXCEPT !.op = op] \in PageJob
         /\ [j EXCEPT !.op = op].op = op /\ [j EXCEPT !.op = op].limit = j.limit
         /\ [j EXCEPT !.op = op].page = j.page /\ [j EXCEPT !.op = op].must = j.must
         /\ [j EXCEPT !.op = op].whole = j.whole
         /\ [j EXCEPT !.whole = FALSE] \in PageJob
         /\ [j EXCEPT !.whole = FALSE].op = j.op /\ [j EXCEPT !.whole = FALSE].must = j.must
         /\ ~[j EXCEPT !.whole = FALSE].whole
         /\ [j EXCEPT !.page = page] \in PageJob
         /\ [j EXCEPT !.page = page].op = j.op /\ [j EXCEPT !.page = page].limit = j.limit
         /\ [j EXCEPT !.page = page].page = page /\ [j EXCEPT !.page = page].must = j.must
         /\ [j EXCEPT !.page = page].whole = j.whole
  BY DEF PageJob

LEMMA SettledRows == TypeOK => Settled \in SUBSET rows /\ Settled \in SUBSET Msgs
  BY DEF TypeOK, Settled

\* read_recent_from_scylla: the request after its first read.
LEMMA LoadIs ==
  ASSUME TypeOK, NEW p \in Procs, NEW limit \in Limits, HistoryLoad(p, limit)
  PROVE  \E j \in PageJob :
           /\ job' = [job EXCEPT ![p] = j] /\ j.must = Settled /\ j.limit = limit
           /\ \/ j.op = "history" /\ ~j.whole
              \/ /\ j.page = Top(rows \ Older, limit)
                 /\ \/ j.op = "older" /\ Cardinality(Top(rows \ Older, limit)) < limit
                    \/ j.op = "history" /\ ~(Cardinality(Top(rows \ Older, limit)) < limit)
<1> DEFINE page == Top(rows \ Older, limit)
           j == Page(limit, page, Settled)
           i == Page(limit, {}, Settled)
<1>1. page \in SUBSET Msgs /\ Settled \in SUBSET Msgs /\ {} \in SUBSET Msgs
  BY TopIs, SettledRows DEF TypeOK
<1>2. /\ j \in PageJob /\ j.limit = limit /\ j.page = page /\ j.must = Settled
      /\ i \in PageJob /\ i.limit = limit /\ i.op = "history" /\ i.must = Settled
  <2> HIDE DEF page
  <2>1. j \in PageJob /\ j.limit = limit /\ j.page = page /\ j.must = Settled
    BY <1>1, PageIs
  <2>2. i \in PageJob /\ i.limit = limit /\ i.op = "history" /\ i.must = Settled
    BY <1>1, PageIs
  <2> QED
    BY <2>1, <2>2
<1>3. \/ job' = [job EXCEPT ![p] =
           [j EXCEPT !.op = IF Cardinality(j.page) < limit THEN "older" ELSE "history"]]
      \/ job' = [job EXCEPT ![p] = [i EXCEPT !.whole = FALSE]]
  BY DEF HistoryLoad
<1> HIDE DEF i, j, page
<1>4. CASE job' = [job EXCEPT ![p] = [i EXCEPT !.whole = FALSE]]
  <2>1. /\ [i EXCEPT !.whole = FALSE] \in PageJob /\ ~[i EXCEPT !.whole = FALSE].whole
        /\ [i EXCEPT !.whole = FALSE].op = "history" /\ [i EXCEPT !.whole = FALSE].must = Settled
        /\ [i EXCEPT !.whole = FALSE].limit = limit
    BY <1>2 DEF PageJob
  <2> QED
    BY <1>4, <2>1
<1>5. CASE job' = [job EXCEPT ![p] =
             [j EXCEPT !.op = IF Cardinality(j.page) < limit THEN "older" ELSE "history"]]
  <2>1. CASE Cardinality(page) < limit
    <3>1. /\ [j EXCEPT !.op = "older"] \in PageJob /\ [j EXCEPT !.op = "older"].op = "older"
          /\ [j EXCEPT !.op = "older"].limit = limit /\ [j EXCEPT !.op = "older"].page = page
          /\ [j EXCEPT !.op = "older"].must = Settled
      BY <1>2, ChangedPage
    <3>2. job' = [job EXCEPT ![p] = [j EXCEPT !.op = "older"]]
      BY <1>2, <1>5, <2>1
    <3> QED
      BY <2>1, <3>1, <3>2 DEF page
  <2>2. CASE ~(Cardinality(page) < limit)
    <3>1. /\ [j EXCEPT !.op = "history"] \in PageJob /\ [j EXCEPT !.op = "history"].op = "history"
          /\ [j EXCEPT !.op = "history"].limit = limit /\ [j EXCEPT !.op = "history"].page = page
          /\ [j EXCEPT !.op = "history"].must = Settled
      BY <1>2, ChangedPage
    <3>2. job' = [job EXCEPT ![p] = [j EXCEPT !.op = "history"]]
      BY <1>2, <1>5, <2>2
    <3> QED
      BY <2>2, <3>1, <3>2 DEF page
  <2> QED
    BY <2>1, <2>2
<1> QED
  BY <1>3, <1>4, <1>5

\* read_recent_from_scylla: and after its second one.
LEMMA OlderIs ==
  ASSUME TypeOK, NEW p \in Procs, HistoryOlder(p)
  PROVE  /\ job[p] \in PageJob /\ job[p].op = "older"
         /\ \E j \in PageJob :
              /\ job' = [job EXCEPT ![p] = j] /\ j.op = "history"
              /\ j.must = job[p].must /\ j.limit = job[p].limit
              /\ \/ ~j.whole
                 \/ j.page = job[p].page \cup
                      Top(rows \cap Older, job[p].limit - Cardinality(job[p].page))
<1> DEFINE j == [job[p] EXCEPT !.op = "history"]
           rest == Top(rows \cap Older, j.limit - Cardinality(j.page))
<1>1. job[p] \in PageJob /\ job[p].op = "older"
  BY JobKinds DEF HistoryOlder, TypeOK
<1>2. /\ j \in PageJob /\ j.op = "history" /\ j.limit = job[p].limit /\ j.page = job[p].page
      /\ j.must = job[p].must
  BY <1>1, ChangedPage
<1>3. \/ job' = [job EXCEPT ![p] = [j EXCEPT !.page = j.page \cup rest]]
      \/ job' = [job EXCEPT ![p] = [j EXCEPT !.whole = FALSE]]
  BY DEF HistoryOlder
<1>4. j.page \cup rest \in SUBSET Msgs
  <2>1. rest \in SUBSET Msgs
    BY TopIs DEF TypeOK
  <2> QED
    BY <1>2, <2>1, JobKinds
<1> HIDE DEF j
<1>5. /\ [j EXCEPT !.page = j.page \cup rest] \in PageJob
      /\ [j EXCEPT !.page = j.page \cup rest].op = "history"
      /\ [j EXCEPT !.page = j.page \cup rest].limit = j.limit
      /\ [j EXCEPT !.page = j.page \cup rest].must = j.must
      /\ [j EXCEPT !.page = j.page \cup rest].page = j.page \cup rest
      /\ [j EXCEPT !.whole = FALSE] \in PageJob /\ ~[j EXCEPT !.whole = FALSE].whole
      /\ [j EXCEPT !.whole = FALSE].op = "history" /\ [j EXCEPT !.whole = FALSE].must = j.must
      /\ [j EXCEPT !.whole = FALSE].limit = j.limit
  BY <1>2, <1>4 DEF PageJob
<1>6. CASE job' = [job EXCEPT ![p] = [j EXCEPT !.page = j.page \cup rest]]
  BY <1>1, <1>2, <1>5, <1>6
<1>7. CASE job' = [job EXCEPT ![p] = [j EXCEPT !.whole = FALSE]]
  BY <1>1, <1>2, <1>5, <1>7
<1> QED
  BY <1>3, <1>6, <1>7

\* The steps of a join and of a change to the members.
LEMMA MembersType ==
  ASSUME TypeOK, NEW p \in Procs,
         \/ JoinCached(p) \/ JoinLoad(p) \/ JoinFails(p) \/ JoinPut(p)
         \/ \E u \in Users : Remove(p, u)
         \/ Create(p) \/ CreateFails(p) \/ InvalidateMembers(p)
  PROVE  TypeOK'
<1>1. UNCHANGED <<rows, writes, position, marks>>
  BY DEF JoinCached, JoinLoad, JoinFails, JoinPut, Remove, Create, CreateFails,
         InvalidateMembers, tables, tasks
<1>2. UserOf[p] \in Users /\ job[p] \in {None} \cup JoinJob \cup ChangeJob \cup PageJob
  BY StoresConstants DEF TypeOK
<1>3. members' \subseteq Users
  BY <1>2 DEF JoinCached, JoinLoad, JoinFails, JoinPut, Remove, Create, CreateFails,
         InvalidateMembers, tables, TypeOK
<1>4. DOMAIN reply' = Procs
  BY DEF JoinCached, JoinLoad, JoinFails, JoinPut, Remove, Create, CreateFails,
         InvalidateMembers, TypeOK
<1>5. /\ cache' \in [Keys -> {None} \cup SUBSET (Users \cup Msgs)]
      /\ cache'.members # None => cache'.members \in (SUBSET Users) \ {{}}
      /\ cache'.recent # None => cache'.recent \in (SUBSET Msgs) \ {{}}
      /\ tainted' \in [Keys -> BOOLEAN]
  <2>1. "members" \in Keys
    BY DEF Keys
  <2>2. CASE UNCHANGED caches
    BY <2>1, <2>2, CacheType
  <2>3. CASE InvalidateMembers(p)
    BY <2>1, <2>3, CacheType DEF InvalidateMembers
  <2>4. CASE JoinPut(p) /\ ~UNCHANGED caches
    <3>1. job[p] # None /\ job[p].op = "join" /\ job[p].read # {} /\ Put("members", job[p].read)
      BY <2>4 DEF JoinPut
    <3>2. job[p].read \in (SUBSET Users) \ {{}}
      BY <1>2, <3>1, JobKinds
    <3> QED
      BY <2>1, <3>1, <3>2, CacheType
  <2> QED
    BY <2>2, <2>3, <2>4 DEF JoinCached, JoinLoad, JoinFails, Remove, Create, CreateFails
<1>6. job' \in [Procs -> {None} \cup JoinJob \cup ChangeJob \cup PageJob]
  <2>1. job \in [Procs -> {None} \cup JoinJob \cup ChangeJob \cup PageJob]
    BY DEF TypeOK
  <2>2. CASE job' = job \/ job' = [job EXCEPT ![p] = None]
    BY <2>1, <2>2
  <2>3. CASE JoinLoad(p)
    <3>1. Join(UserOf[p], members) \in JoinJob
      BY <1>2, JoinIs DEF TypeOK
    <3> QED
      BY <2>1, <2>3, <3>1 DEF JoinLoad
  <2>4. ASSUME NEW q \in Procs, job[q] # None, job[q].op = "join"
        PROVE  job[q] \in JoinJob
    BY <2>1, <2>4, JobKinds
  <2>5. ASSUME NEW u \in Users
        PROVE  [op |-> "remove", user |-> u] \in ChangeJob /\ [op |-> "create", user |-> u] \in ChangeJob
    BY DEF ChangeJob
  <2>6. ASSUME NEW u \in Users, Remove(p, u)
        PROVE  job' \in [Procs -> {None} \cup JoinJob \cup ChangeJob \cup PageJob]
    BY <2>1, <2>4, <2>5, <2>6, WidenedJoin DEF Remove
  <2>7. CASE Create(p)
    BY <1>2, <2>1, <2>4, <2>5, <2>7, WidenedJoin DEF Create
  <2> QED
    BY <2>2, <2>3, <2>6, <2>7 DEF JoinCached, JoinFails, JoinPut, CreateFails, InvalidateMembers
<1> QED
  BY <1>1, <1>3, <1>4, <1>5, <1>6 DEF TypeOK

\* The steps of a request for the history.
LEMMA HistoryType ==
  ASSUME TypeOK, NEW p \in Procs, NEW limit \in Limits,
         \/ HistoryCached(p, limit) \/ HistoryLoad(p, limit)
         \/ HistoryOlder(p) \/ HistoryPut(p)
  PROVE  TypeOK'
<1>1. UNCHANGED <<members, rows, writes, position, marks>>
  BY DEF HistoryCached, HistoryLoad, HistoryOlder, HistoryPut, tables, tasks
<1>2. job[p] \in {None} \cup JoinJob \cup ChangeJob \cup PageJob
  BY DEF TypeOK
<1>3. job[p] # None /\ job[p].op \in {"older", "history"} => job[p] \in PageJob
  BY <1>2, JobKinds
<1>4. DOMAIN reply' = Procs
  BY DEF HistoryCached, HistoryLoad, HistoryOlder, HistoryPut, TypeOK
<1>5. /\ cache' \in [Keys -> {None} \cup SUBSET (Users \cup Msgs)]
      /\ cache'.members # None => cache'.members \in (SUBSET Users) \ {{}}
      /\ cache'.recent # None => cache'.recent \in (SUBSET Msgs) \ {{}}
      /\ tainted' \in [Keys -> BOOLEAN]
  <2>1. "recent" \in Keys
    BY DEF Keys
  <2>2. CASE UNCHANGED caches
    BY <2>1, <2>2, CacheType
  <2>3. CASE HistoryPut(p) /\ ~UNCHANGED caches
    <3>1. job[p] # None /\ job[p].op = "history" /\ job[p].page # {} /\ Put("recent", job[p].page)
      BY <2>3 DEF HistoryPut
    <3>2. job[p].page \in (SUBSET Msgs) \ {{}}
      BY <1>3, <3>1, JobKinds
    <3> QED
      BY <2>1, <3>1, <3>2, CacheType
  <2> QED
    BY <2>2, <2>3 DEF HistoryCached, HistoryLoad, HistoryOlder
<1>6. job' \in [Procs -> {None} \cup JoinJob \cup ChangeJob \cup PageJob]
  <2>1. job \in [Procs -> {None} \cup JoinJob \cup ChangeJob \cup PageJob]
    BY DEF TypeOK
  <2>2. CASE job' = job \/ job' = [job EXCEPT ![p] = None]
    BY <2>1, <2>2
  <2>3. CASE HistoryLoad(p, limit)
    BY <2>1, <2>3, LoadIs
  <2>4. CASE HistoryOlder(p)
    BY <2>1, <2>4, OlderIs
  <2> QED
    BY <2>2, <2>3, <2>4 DEF HistoryCached, HistoryPut
<1> QED
  BY <1>1, <1>4, <1>5, <1>6 DEF TypeOK

\* The task of a write, the message of a sync:push, and a new read position.
LEMMA WritesType ==
  ASSUME TypeOK, NEW m \in Msgs,
         \/ StartWrite(m) \/ SyncPush(m) \/ MarkRead(m)
         \/ \E w \in writes : \/ WriteRow(w) \/ WriteFails(w)
                              \/ InvalidateRecent(w) \/ HandleCacheInvalidation(w)
  PROVE  TypeOK'
<1>1. UNCHANGED <<members, job, reply, position>>
  BY DEF StartWrite, SyncPush, MarkRead, WriteRow, WriteFails, InvalidateRecent,
         HandleCacheInvalidation, tables, tasks
<1>2. /\ cache' \in [Keys -> {None} \cup SUBSET (Users \cup Msgs)]
      /\ cache'.members # None => cache'.members \in (SUBSET Users) \ {{}}
      /\ cache'.recent # None => cache'.recent \in (SUBSET Msgs) \ {{}}
      /\ tainted' \in [Keys -> BOOLEAN]
  <2>1. "recent" \in Keys
    BY DEF Keys
  <2>2. CASE UNCHANGED caches \/ Invalidate("recent")
    BY <2>1, <2>2, CacheType
  <2>3. CASE SyncPush(m)
    <3>1. cache' = cache /\ \E b \in BOOLEAN : tainted' = [tainted EXCEPT !["recent"] = b]
      BY <2>3 DEF SyncPush
    <3> QED
      BY <2>1, <3>1 DEF TypeOK
  <2> QED
    BY <2>2, <2>3 DEF StartWrite, MarkRead, WriteRow, WriteFails, InvalidateRecent,
                      HandleCacheInvalidation
<1>3. /\ rows' \subseteq Msgs
      /\ writes' \subseteq [msg : Msgs, pc : {"write", "delete", "notice"}]
  <2>1. \A w \in writes : w.msg \in Msgs /\ \A pc \in {"write", "delete", "notice"} :
          [w EXCEPT !.pc = pc] \in [msg : Msgs, pc : {"write", "delete", "notice"}]
    BY DEF TypeOK
  <2> QED
    BY <2>1 DEF TypeOK, StartWrite, SyncPush, MarkRead, WriteRow, WriteFails, InvalidateRecent,
                HandleCacheInvalidation, tables, tasks
<1>4. /\ marks' \subseteq [msg : Msgs, pc : {"get", "put"}, seen : Msgs \cup {0}]
      /\ \A t \in marks' : t.seen < t.msg
  <2>1. CASE MarkRead(m)
    <3>1. m \in Nat \ {0} /\ marks' = marks \cup {[msg |-> m, pc |-> "get", seen |-> 0]}
      BY <2>1, StoresConstants DEF MarkRead
    <3> QED
      BY <3>1 DEF TypeOK
  <2>2. CASE marks' = marks
    BY <2>2 DEF TypeOK
  <2> QED
    BY <2>1, <2>2 DEF StartWrite, SyncPush, WriteRow, WriteFails, InvalidateRecent,
                      HandleCacheInvalidation, tasks
<1> QED
  BY <1>1, <1>2, <1>3, <1>4 DEF TypeOK

LEMMA StoresInitType == Init => TypeOK
  BY StoresConstants DEF Init, TypeOK, Keys

LEMMA StoresNextType == TypeOK /\ [Next]_vars => TypeOK'
<1> SUFFICES ASSUME TypeOK, [Next]_vars PROVE TypeOK'
  OBVIOUS
<1>1. CASE UNCHANGED vars
  BY <1>1 DEF vars, TypeOK
<1>2. ASSUME NEW p \in Procs,
             \/ JoinCached(p) \/ JoinLoad(p) \/ JoinFails(p) \/ JoinPut(p)
             \/ \E u \in Users : Remove(p, u)
             \/ Create(p) \/ CreateFails(p) \/ InvalidateMembers(p)
      PROVE  TypeOK'
  BY <1>2, MembersType
<1>3. ASSUME NEW p \in Procs, NEW limit \in Limits,
             HistoryCached(p, limit) \/ HistoryLoad(p, limit)
      PROVE  TypeOK'
  BY <1>3, HistoryType
<1>4. ASSUME NEW p \in Procs, HistoryOlder(p) \/ HistoryPut(p)
      PROVE  TypeOK'
  <2>1. job[p] \in PageJob
    <3>1. job[p] # None /\ job[p].op \in {"older", "history"}
      BY <1>4 DEF HistoryOlder, HistoryPut
    <3> QED
      BY <3>1, JobKinds DEF TypeOK
  <2>2. job[p].limit \in Limits
    BY <2>1, JobKinds
  <2> QED
    BY <1>4, <2>2, HistoryType
<1>5. ASSUME NEW m \in Msgs, StartWrite(m) \/ SyncPush(m) \/ MarkRead(m)
      PROVE  TypeOK'
  BY <1>5, WritesType
<1>6. ASSUME NEW w \in writes, \/ WriteRow(w) \/ WriteFails(w)
                               \/ InvalidateRecent(w) \/ HandleCacheInvalidation(w)
      PROVE  TypeOK'
  <2>1. w.msg \in Msgs
    BY DEF TypeOK
  <2> QED
    BY <1>6, <2>1, WritesType
<1>7. ASSUME NEW k \in Keys, Expire(k)
      PROVE  TypeOK'
  <2>1. UNCHANGED <<members, rows, job, reply, writes, position, marks>>
    BY <1>7 DEF Expire, tables, tasks
  <2>2. /\ cache' \in [Keys -> {None} \cup SUBSET (Users \cup Msgs)]
        /\ cache'.members # None => cache'.members \in (SUBSET Users) \ {{}}
        /\ cache'.recent # None => cache'.recent \in (SUBSET Msgs) \ {{}}
        /\ tainted' \in [Keys -> BOOLEAN]
    BY <1>7, CacheType
  <2> QED
    BY <2>1, <2>2 DEF TypeOK
<1>8. ASSUME NEW t \in marks, GetPosition(t) \/ PutPosition(t)
      PROVE  TypeOK'
  BY <1>8, MarksType
<1> QED
  BY <1>1, <1>2, <1>3, <1>4, <1>5, <1>6, <1>7, <1>8 DEF Next

-----------------------------------------------------------------------------
(* Members: the cached list and the joins in progress.                     *)

\* A join that has read the rows can tell the truth from what it read.
JobsHonest ==
  \A p \in Procs : job[p] # None /\ job[p].op = "join" =>
    /\ job[p].user \in job[p].read => job[p].ever
    /\ job[p].always => job[p].user \in job[p].read

\* A cached list that is not tainted differs from the rows only in users who
\* are being removed or added at the moment.
ListHonest ==
  cache.members # None /\ ~tainted.members =>
    \A u \in Users : /\ u \in cache.members => u \in members \/ Removing(u)
                     /\ u \in members => u \in cache.members \/ Adding(u)

MembersInv == JobsHonest /\ ListHonest /\ JoinsHonest

\* Changes to the members that are under way stay under way.
LEMMA UnderWay ==
  ASSUME NEW u,
         \A p \in Procs : job[p] # None /\ job[p].op \in {"remove", "create"} =>
                            job'[p] = job[p]
  PROVE  /\ Removing(u) => Removing(u)'
         /\ Adding(u) => Adding(u)'
  BY DEF Removing, Adding

\* A step that has nothing to do with members, or empties the cache.
LEMMA MembersKept ==
  ASSUME TypeOK, MembersInv, members' = members,
         \/ cache'.members = None
         \/ cache'.members = cache.members /\ tainted'.members = tainted.members,
         \A p \in Procs : \/ job'[p] = job[p]
                          \/ /\ job[p] \in {None} \cup PageJob
                             /\ job'[p] \in {None} \cup PageJob,
         \A p \in Procs : \/ reply'[p] = reply[p] \/ reply'[p] = None
                          \/ reply'[p].op = "history"
  PROVE  MembersInv'
<1>1. JobsHonest'
  BY JobKinds DEF MembersInv, JobsHonest
<1>2. ListHonest'
  <2>1. \A p \in Procs : job[p] # None /\ job[p].op \in {"remove", "create"} => job'[p] = job[p]
    BY JobKinds
  <2>2. \A u \in Users : (Removing(u) => Removing(u)') /\ (Adding(u) => Adding(u)')
    BY <2>1, UnderWay
  <2> QED
    BY <2>2 DEF MembersInv, ListHonest
<1>3. JoinsHonest'
  BY DEF MembersInv, JoinsHonest
<1> QED
  BY <1>1, <1>2, <1>3 DEF MembersInv

LEMMA VerdictIs ==
  ASSUME NEW j \in JoinJob, NEW granted \in BOOLEAN, NEW t \in BOOLEAN
  PROVE  /\ [Verdict(j, granted) EXCEPT !.tainted = t].granted = granted
         /\ [Verdict(j, granted) EXCEPT !.tainted = t].ever = j.ever
         /\ [Verdict(j, granted) EXCEPT !.tainted = t].always = j.always
         /\ [Verdict(j, granted) EXCEPT !.tainted = t].tainted = t
         /\ Verdict(j, granted).granted = granted
         /\ Verdict(j, granted).ever = j.ever /\ Verdict(j, granted).always = j.always
  BY DEF Verdict, JoinJob

\* A reply from the cache.
LEMMA JoinCachedKeeps ==
  ASSUME TypeOK, MembersInv, NEW p \in Procs, JoinCached(p)
  PROVE  MembersInv'
<1> DEFINE u == UserOf[p]
           j == Join(u, {})
           granted == u \in cache.members
<1>1. u \in Users /\ {} \in SUBSET Users
  BY StoresConstants
<1>2. /\ j \in JoinJob /\ (j.ever <=> u \in members \/ Removing(u))
      /\ j.always <=> u \in members /\ ~Adding(u)
  BY <1>1, JoinIs
<1>3. /\ cache.members # None /\ members' = members /\ cache' = cache /\ tainted' = tainted
      /\ job' = job
      /\ reply' = [reply EXCEPT ![p] = [Verdict(j, granted) EXCEPT !.tainted = tainted.members]]
  BY DEF JoinCached, tables, caches
<1>4. tainted.members \in BOOLEAN /\ granted \in BOOLEAN
  BY DEF TypeOK, Keys
<1>5. ~tainted.members => /\ granted => j.ever
                          /\ j.always => granted
  BY <1>1, <1>2, <1>3 DEF MembersInv, ListHonest
<1> HIDE DEF j, granted
<1>6. reply'[p].granted = granted /\ reply'[p].ever = j.ever /\ reply'[p].always = j.always
      /\ reply'[p].tainted = tainted.members
  BY <1>2, <1>3, <1>4, VerdictIs DEF TypeOK
<1>7. \A q \in Procs \ {p} : reply'[q] = reply[q]
  BY <1>3 DEF TypeOK
<1>8. JoinsHonest'
  BY <1>5, <1>6, <1>7 DEF MembersInv, JoinsHonest
<1>9. JobsHonest' /\ ListHonest'
  BY <1>3 DEF MembersInv, JobsHonest, ListHonest, Removing, Adding
<1> QED
  BY <1>8, <1>9 DEF MembersInv

\* The rows are read.
LEMMA JoinLoadKeeps ==
  ASSUME TypeOK, MembersInv, NEW p \in Procs, JoinLoad(p)
  PROVE  MembersInv'
<1> DEFINE j == Join(UserOf[p], members)
<1>1. UserOf[p] \in Users /\ members \in SUBSET Users
  BY StoresConstants DEF TypeOK
<1>2. /\ j \in JoinJob /\ j.user = UserOf[p] /\ j.read = members
      /\ j.ever <=> UserOf[p] \in members \/ Removing(UserOf[p])
      /\ j.always <=> UserOf[p] \in members /\ ~Adding(UserOf[p])
  BY <1>1, JoinIs
<1>3. /\ job[p] = None /\ job' = [job EXCEPT ![p] = j]
      /\ members' = members /\ cache' = cache /\ tainted' = tainted /\ reply' = reply
  BY DEF JoinLoad, Request, tables, caches
<1> HIDE DEF j
<1>4. job'[p] = j /\ \A q \in Procs \ {p} : job'[q] = job[q]
  BY <1>3 DEF TypeOK
<1>5. JobsHonest'
  BY <1>2, <1>4 DEF MembersInv, JobsHonest
<1>6. ListHonest'
  <2>1. \A u \in Users : (Removing(u) => Removing(u)') /\ (Adding(u) => Adding(u)')
    BY <1>3, <1>4, UnderWay
  <2> QED
    BY <1>3, <2>1 DEF MembersInv, ListHonest
<1>7. JoinsHonest'
  BY <1>3 DEF MembersInv, JoinsHonest
<1> QED
  BY <1>5, <1>6, <1>7 DEF MembersInv

\* What was read is put into the cache, and the reply is decided.
LEMMA JoinPutKeeps ==
  ASSUME TypeOK, MembersInv, NEW p \in Procs, JoinPut(p)
  PROVE  MembersInv'
<1> DEFINE j == job[p]
           granted == j.user \in j.read
<1>1. /\ job[p] # None /\ job[p].op = "join" /\ members' = members
      /\ reply' = [reply EXCEPT ![p] = Verdict(j, granted)]
      /\ job' = [job EXCEPT ![p] = None]
      /\ UNCHANGED caches \/ Put("members", j.read)
  BY DEF JoinPut, tables
<1>2. j \in JoinJob
  BY <1>1, JobKinds DEF TypeOK
<1>3. /\ granted => j.ever
      /\ j.always => granted
  BY <1>1 DEF MembersInv, JobsHonest
<1>4. job'[p] = None /\ \A q \in Procs \ {p} : job'[q] = job[q]
  BY <1>1 DEF TypeOK
<1>5. JobsHonest'
  BY <1>4 DEF MembersInv, JobsHonest
<1>6. ListHonest'
  <2>1. \A u \in Users : (Removing(u) => Removing(u)') /\ (Adding(u) => Adding(u)')
    BY <1>1, <1>4, UnderWay
  <2>2. CASE UNCHANGED caches
    BY <1>1, <2>1, <2>2 DEF MembersInv, ListHonest, caches
  <2>3. CASE /\ cache' = [cache EXCEPT !["members"] = j.read]
             /\ tainted' = [tainted EXCEPT !["members"] = ~Current("members", j.read)]
    <3>1. cache'.members = j.read /\ (tainted'.members <=> ~Current("members", j.read))
      BY <2>3 DEF TypeOK, Keys
    <3>2. Current("members", j.read) <=> j.read = members'
      BY DEF Current
    <3> QED
      BY <3>1, <3>2 DEF ListHonest
  <2> QED
    BY <1>1, <2>2, <2>3 DEF Put
<1>7. JoinsHonest'
  <2>1. granted \in BOOLEAN
    OBVIOUS
  <2>2. reply'[p].granted = granted /\ reply'[p].ever = j.ever /\ reply'[p].always = j.always
    <3> HIDE DEF granted
    <3> QED BY <1>1, <1>2, <2>1, VerdictIs DEF TypeOK
  <2>3. \A q \in Procs \ {p} : reply'[q] = reply[q]
    BY <1>1 DEF TypeOK
  <2> HIDE DEF granted
  <2> QED
    BY <1>3, <2>2, <2>3 DEF MembersInv, JoinsHonest
<1> QED
  BY <1>5, <1>6, <1>7 DEF MembersInv

\* The row is deleted; the joins of that user in progress are told.
LEMMA RemoveKeeps ==
  ASSUME TypeOK, MembersInv, NEW p \in Procs, NEW u \in Users, Remove(p, u)
  PROVE  MembersInv'
<1>1. /\ job[p] = None /\ members' = members \ {u}
      /\ cache' = cache /\ tainted' = tainted /\ reply' = reply
      /\ job' = [q \in Procs |->
           IF q = p THEN [op |-> "remove", user |-> u]
           ELSE IF job[q] # None /\ job[q].op = "join" /\ job[q].user = u
           THEN [job[q] EXCEPT !.always = FALSE] ELSE job[q]]
  BY DEF Remove, Request, caches
<1>2. [op |-> "remove", user |-> u] \in ChangeJob
  BY DEF ChangeJob
<1>3. \A q \in Procs : job[q] # None /\ job[q].op = "join" => job[q] \in JoinJob
  BY JobKinds DEF TypeOK
<1>4. /\ job'[p] # None /\ job'[p].op = "remove" /\ job'[p].user = u
      /\ \A q \in Procs \ {p} :
           \/ job'[q] = job[q]
           \/ /\ job[q].op = "join" /\ job[q] \in JoinJob /\ job'[q] \in JoinJob
              /\ job'[q].user = job[q].user /\ job'[q].read = job[q].read
              /\ job'[q].ever = job[q].ever /\ ~job'[q].always
  BY <1>1, <1>2, <1>3, JobKinds, WidenedJoin
<1>5. JobsHonest'
  <2> SUFFICES ASSUME NEW q \in Procs, job'[q] # None, job'[q].op = "join"
               PROVE  /\ job'[q].user \in job'[q].read => job'[q].ever
                      /\ job'[q].always => job'[q].user \in job'[q].read
    BY DEF JobsHonest
  <2>1. q # p
    BY <1>4
  <2>2. CASE job'[q] = job[q]
    BY <2>2 DEF MembersInv, JobsHonest
  <2>3. CASE job'[q] # job[q]
    BY <1>4, <2>1, <2>3, JobKinds DEF MembersInv, JobsHonest
  <2> QED
    BY <2>2, <2>3
<1>6. ListHonest'
  <2>1. \A q \in Procs : job[q] # None /\ job[q].op \in {"remove", "create"} => job'[q] = job[q]
    BY <1>1, <1>4
  <2>2. \A v \in Users : (Removing(v) => Removing(v)') /\ (Adding(v) => Adding(v)')
    BY <2>1, UnderWay
  <2>3. Removing(u)'
    BY <1>4 DEF Removing
  <2> QED
    BY <1>1, <2>2, <2>3 DEF MembersInv, ListHonest
<1>7. JoinsHonest'
  BY <1>1 DEF MembersInv, JoinsHonest
<1> QED
  BY <1>5, <1>6, <1>7 DEF MembersInv

\* The first member of a new channel.
LEMMA CreateKeeps ==
  ASSUME TypeOK, MembersInv, NEW p \in Procs, Create(p)
  PROVE  MembersInv'
<1> DEFINE u == UserOf[p]
<1>1. /\ job[p] = None /\ members' = members \cup {u}
      /\ cache' = cache /\ tainted' = tainted /\ reply' = reply
      /\ job' = [q \in Procs |->
           IF q = p THEN [op |-> "create", user |-> u]
           ELSE IF job[q] # None /\ job[q].op = "join" /\ job[q].user = u
           THEN [job[q] EXCEPT !.ever = TRUE] ELSE job[q]]
  BY DEF Create, Request, caches
<1>2. [op |-> "create", user |-> u] \in ChangeJob
  BY StoresConstants DEF ChangeJob
<1>3. \A q \in Procs : job[q] # None /\ job[q].op = "join" => job[q] \in JoinJob
  BY JobKinds DEF TypeOK
<1>4. /\ job'[p] # None /\ job'[p].op = "create" /\ job'[p].user = u
      /\ \A q \in Procs \ {p} :
           \/ job'[q] = job[q]
           \/ /\ job[q].op = "join" /\ job[q] \in JoinJob /\ job'[q] \in JoinJob
              /\ job'[q].user = job[q].user /\ job'[q].read = job[q].read
              /\ job'[q].always = job[q].always /\ job'[q].ever
  BY <1>1, <1>2, <1>3, JobKinds, WidenedJoin
<1>5. JobsHonest'
  <2> SUFFICES ASSUME NEW q \in Procs, job'[q] # None, job'[q].op = "join"
               PROVE  /\ job'[q].user \in job'[q].read => job'[q].ever
                      /\ job'[q].always => job'[q].user \in job'[q].read
    BY DEF JobsHonest
  <2>1. q # p
    BY <1>4
  <2>2. CASE job'[q] = job[q]
    BY <2>2 DEF MembersInv, JobsHonest
  <2>3. CASE job'[q] # job[q]
    BY <1>4, <2>1, <2>3, JobKinds DEF MembersInv, JobsHonest
  <2> QED
    BY <2>2, <2>3
<1>6. ListHonest'
  <2>1. \A q \in Procs : job[q] # None /\ job[q].op \in {"remove", "create"} => job'[q] = job[q]
    BY <1>1, <1>4
  <2>2. \A v \in Users : (Removing(v) => Removing(v)') /\ (Adding(v) => Adding(v)')
    BY <2>1, UnderWay
  <2>3. Adding(u)'
    BY <1>4 DEF Adding
  <2> QED
    BY <1>1, <2>2, <2>3 DEF MembersInv, ListHonest
<1>7. JoinsHonest'
  BY <1>1 DEF MembersInv, JoinsHonest
<1> QED
  BY <1>5, <1>6, <1>7 DEF MembersInv

\* The change is done when the cached list is deleted, or tainted.
LEMMA InvalidateMembersKeeps ==
  ASSUME TypeOK, MembersInv, NEW p \in Procs, InvalidateMembers(p)
  PROVE  MembersInv'
<1>1. /\ members' = members /\ reply' = reply
      /\ job' = [job EXCEPT ![p] = None] /\ Invalidate("members")
  BY DEF InvalidateMembers, tables
<1>2. job'[p] = None /\ \A q \in Procs \ {p} : job'[q] = job[q]
  BY <1>1 DEF TypeOK
<1>3. JobsHonest' /\ JoinsHonest'
  BY <1>1, <1>2 DEF MembersInv, JobsHonest, JoinsHonest
<1>4. cache'.members = None \/ tainted'.members
  BY <1>1 DEF Invalidate, TypeOK, Keys
<1> QED
  BY <1>3, <1>4 DEF MembersInv, ListHonest

LEMMA MembersNext == TypeOK /\ MembersInv /\ [Next]_vars => MembersInv'
<1> SUFFICES ASSUME TypeOK, MembersInv, [Next]_vars PROVE MembersInv'
  OBVIOUS
<1>1. ASSUME members' = members, job' = job, reply' = reply,
             \/ UNCHANGED caches \/ Invalidate("recent") \/ \E k \in Keys : Expire(k)
             \/ \E b : cache' = cache /\ tainted' = [tainted EXCEPT !.recent = b]
      PROVE  MembersInv'
  <2>1. \/ cache'.members = None
        \/ cache'.members = cache.members /\ tainted'.members = tainted.members
    BY <1>1 DEF Invalidate, Expire, caches, TypeOK, Keys
  <2> QED
    BY <1>1, <2>1, MembersKept
<1>2. CASE UNCHANGED vars
  BY <1>1, <1>2 DEF vars, caches
<1>3. ASSUME NEW p \in Procs, JoinCached(p) PROVE MembersInv'
  BY <1>3, JoinCachedKeeps
<1>4. ASSUME NEW p \in Procs, JoinLoad(p) PROVE MembersInv'
  BY <1>4, JoinLoadKeeps
<1>5. ASSUME NEW p \in Procs, JoinFails(p) \/ CreateFails(p) PROVE MembersInv'
  <2>1. /\ members' = members /\ cache' = cache /\ tainted' = tainted /\ job' = job
        /\ \A q \in Procs : reply'[q] = reply[q] \/ reply'[q] = None
    BY <1>5 DEF JoinFails, CreateFails, tables, caches, TypeOK
  <2> QED
    BY <2>1, MembersKept
<1>6. ASSUME NEW p \in Procs, JoinPut(p) PROVE MembersInv'
  BY <1>6, JoinPutKeeps
<1>7. ASSUME NEW p \in Procs, NEW u \in Users, Remove(p, u) PROVE MembersInv'
  BY <1>7, RemoveKeeps
<1>8. ASSUME NEW p \in Procs, Create(p) PROVE MembersInv'
  BY <1>8, CreateKeeps
<1>9. ASSUME NEW p \in Procs, InvalidateMembers(p) PROVE MembersInv'
  BY <1>9, InvalidateMembersKeeps
<1>10. ASSUME NEW p \in Procs, NEW limit \in Limits,
              \/ HistoryCached(p, limit) \/ HistoryLoad(p, limit)
              \/ HistoryOlder(p) \/ HistoryPut(p)
       PROVE  MembersInv'
  <2>1. /\ members' = members
        /\ \A q \in Procs \ {p} : job'[q] = job[q] /\ reply'[q] = reply[q]
    BY <1>10 DEF HistoryCached, HistoryLoad, HistoryOlder, HistoryPut, tables, TypeOK
  <2>2. cache'.members = cache.members /\ tainted'.members = tainted.members
    BY <1>10 DEF HistoryCached, HistoryLoad, HistoryOlder, HistoryPut, Put, caches, TypeOK, Keys
  <2>3. job[p] \in {None} \cup PageJob
    <3>1. job[p] = None \/ job[p].op \in {"older", "history"}
      BY <1>10 DEF HistoryCached, HistoryLoad, HistoryOlder, HistoryPut, Request
    <3> QED
      BY <3>1, JobKinds DEF TypeOK
  <2>4. job'[p] \in {None} \cup PageJob
    <3>1. CASE HistoryLoad(p, limit)
      BY <3>1, LoadIs DEF TypeOK
    <3>2. CASE HistoryOlder(p)
      BY <3>2, OlderIs DEF TypeOK
    <3>3. CASE HistoryCached(p, limit) \/ HistoryPut(p)
      BY <3>3 DEF HistoryCached, HistoryPut, Request, TypeOK
    <3> QED
      BY <1>10, <3>1, <3>2, <3>3
  <2>5. reply'[p] = reply[p] \/ reply'[p].op = "history"
    BY <1>10 DEF HistoryCached, HistoryLoad, HistoryOlder, HistoryPut, TypeOK, Page
  <2> QED
    BY <2>1, <2>2, <2>3, <2>4, <2>5, MembersKept
<1>11. ASSUME NEW m \in Msgs, StartWrite(m) \/ SyncPush(m) \/ MarkRead(m)
       PROVE  MembersInv'
  BY <1>1, <1>11 DEF StartWrite, SyncPush, MarkRead, tables, caches, tasks
<1>12. ASSUME NEW w \in writes, \/ WriteRow(w) \/ WriteFails(w)
                                \/ InvalidateRecent(w) \/ HandleCacheInvalidation(w)
       PROVE  MembersInv'
  BY <1>1, <1>12 DEF WriteRow, WriteFails, InvalidateRecent, HandleCacheInvalidation, tables, caches
<1>13. ASSUME NEW t \in marks, GetPosition(t) \/ PutPosition(t)
       PROVE  MembersInv'
  BY <1>1, <1>13 DEF GetPosition, PutPosition, tables, caches
<1>14. ASSUME NEW k \in Keys, Expire(k)
       PROVE  MembersInv'
  BY <1>1, <1>14 DEF Expire, tables
<1>15. ASSUME NEW p \in Procs, HistoryOlder(p) \/ HistoryPut(p)
       PROVE  MembersInv'
  <2>1. job[p] # None /\ job[p].op \in {"older", "history"}
    BY <1>15 DEF HistoryOlder, HistoryPut
  <2>2. job[p].limit \in Limits
    BY <2>1, JobKinds DEF TypeOK
  <2> QED
    BY <1>10, <1>15, <2>2
<1> QED
  BY <1>2, <1>3, <1>4, <1>5, <1>6, <1>7, <1>8, <1>9, <1>10, <1>11, <1>12, <1>13, <1>14, <1>15
  DEF Next

-----------------------------------------------------------------------------
(* Recent messages: the cached page and the pages being read.              *)

\* Of must, page leaves out nothing, or only what limit newer ones push out.
Complete(page, must, limit) ==
  \A m \in must \ page : Cardinality(page) = limit /\ \A x \in page : x > m

\* A message is stored once: its task has not written it before, and is the
\* only one for it.
WritesOnce ==
  /\ IsFiniteSet(rows)
  /\ \A w \in writes : w.pc = "write" => w.msg \notin rows
  /\ \A v, w \in writes : v.msg = w.msg => v = w

\* A page that waits for the older bucket holds all there was in the newer one.
PagesHonest ==
  \A p \in Procs : job[p] \in PageJob =>
    /\ job[p].must \subseteq rows
    /\ job[p].op = "older" =>
         /\ job[p].page \subseteq rows \ Older
         /\ Cardinality(job[p].page) < job[p].limit
         /\ job[p].must \ Older \subseteq job[p].page
    /\ job[p].op = "history" /\ job[p].whole =>
         /\ job[p].page \subseteq rows
         /\ Complete(job[p].page, job[p].must, job[p].limit)

\* A cached page that is not tainted lacks no settled message that is newer
\* than one in it.
RecentHonest ==
  cache.recent # None /\ ~tainted.recent =>
    /\ cache.recent \subseteq rows
    /\ \A m \in Settled \ cache.recent : \A x \in cache.recent : x > m

HistoryInv == WritesOnce /\ PagesHonest /\ RecentHonest /\ HistoryHonest

\* A step after which no message is settled that was not, and which begins no
\* page and puts none into the cache.
LEMMA HistoryKept ==
  ASSUME TypeOK, HistoryInv, WritesOnce', rows \subseteq rows', Settled' \subseteq Settled,
         \/ cache'.recent = None
         \/ cache'.recent = cache.recent /\ (tainted.recent => tainted'.recent),
         \A p \in Procs : job'[p] = job[p] \/ job'[p] \notin PageJob,
         \A p \in Procs : \/ reply'[p] = reply[p] \/ reply'[p] = None
                          \/ reply'[p].op = "join"
  PROVE  HistoryInv'
<1>1. PagesHonest'
  BY DEF HistoryInv, PagesHonest, Complete
<1>2. RecentHonest'
  BY DEF HistoryInv, RecentHonest
<1>3. HistoryHonest'
  BY DEF HistoryInv, HistoryHonest
<1> QED
  BY <1>1, <1>2, <1>3 DEF HistoryInv

LEMMA RowsType ==
  ASSUME TypeOK, WritesOnce, NEW S \in SUBSET rows
  PROVE  S \in SUBSET Nat /\ IsFiniteSet(S) /\ Cardinality(S) \in Nat
<1>1. rows \in SUBSET Nat
  BY StoresConstants DEF TypeOK
<1> QED
  BY <1>1, FS_Subset, FS_CardinalityType DEF WritesOnce

\* read_recent from the cache.
LEMMA HistoryCachedKeeps ==
  ASSUME TypeOK, HistoryInv, NEW p \in Procs, NEW limit \in Limits, HistoryCached(p, limit)
  PROVE  HistoryInv'
<1> DEFINE c == cache.recent
           page == Top(c, limit)
           r == [Page(limit, page, Settled) EXCEPT !.tainted = tainted.recent]
<1>1. /\ c # None /\ Cardinality(c) >= limit /\ rows' = rows /\ writes' = writes
      /\ cache' = cache /\ tainted' = tainted /\ job' = job
      /\ reply' = [reply EXCEPT ![p] = r]
  BY DEF HistoryCached, tables, caches, tasks
<1>2. c \in SUBSET Msgs /\ page \in SUBSET Msgs /\ Settled \in SUBSET Msgs
      /\ tainted.recent \in BOOLEAN
  BY <1>1, TopIs, SettledRows DEF TypeOK, Keys
<1>3. r.page = page /\ r.must = Settled /\ r.limit = limit /\ r.tainted = tainted.recent
  BY DEF Page
<1>4. ASSUME ~tainted.recent
      PROVE  page \subseteq rows /\ Complete(page, Settled, limit)
  <2>1. c \in SUBSET rows /\ \A m \in Settled \ c : \A x \in c : x > m
    BY <1>1, <1>4 DEF HistoryInv, RecentHonest
  <2>2. c \in SUBSET Nat /\ IsFiniteSet(c) /\ Cardinality(c) \in Nat /\ limit \in Nat
    BY <2>1, RowsType, StoresConstants DEF HistoryInv
  <2>3. page \subseteq c
    BY TopIs
  <2>4. ASSUME NEW m \in Settled \ page
        PROVE  Cardinality(page) = limit /\ \A x \in page : x > m
    <3>1. CASE m \in c
      BY <2>2, <2>4, <3>1, TopFull, TopAbove
    <3>2. CASE m \notin c
      <4>1. \A x \in page : x > m
        BY <2>1, <2>3, <2>4, <3>2
      <4>2. CASE page = c
        <5>1. Cardinality(page) <= limit
          BY <2>2, TopBound
        <5> QED
          BY <1>1, <2>2, <4>1, <4>2, <5>1
      <4>3. CASE page # c
        <5>1. PICK y \in c : y \notin page
          BY <2>3, <4>3
        <5> QED
          BY <2>2, <4>1, <5>1, TopFull
      <4> QED
        BY <4>2, <4>3
    <3> QED
      BY <3>1, <3>2
  <2> QED
    BY <2>1, <2>3, <2>4 DEF Complete
<1> HIDE DEF r, page
<1>5. reply'[p] = r /\ \A q \in Procs \ {p} : reply'[q] = reply[q]
  BY <1>1 DEF TypeOK
<1>6. HistoryHonest'
  BY <1>1, <1>3, <1>4, <1>5 DEF HistoryInv, HistoryHonest, Complete
<1>7. WritesOnce' /\ PagesHonest' /\ RecentHonest'
  BY <1>1 DEF HistoryInv, WritesOnce, PagesHonest, RecentHonest, Settled
<1> QED
  BY <1>6, <1>7 DEF HistoryInv

\* A step that gives p the request j and leaves everything else alone.
LEMMA PageReplaced ==
  ASSUME TypeOK, HistoryInv, NEW p \in Procs, NEW j \in PageJob,
         UNCHANGED <<rows, writes, caches, reply>>, job' = [job EXCEPT ![p] = j],
         /\ j.must \subseteq rows
         /\ j.op = "older" => /\ j.page \subseteq rows \ Older
                              /\ Cardinality(j.page) < j.limit
                              /\ j.must \ Older \subseteq j.page
         /\ j.op = "history" /\ j.whole => /\ j.page \subseteq rows
                                           /\ Complete(j.page, j.must, j.limit)
  PROVE  HistoryInv'
<1>1. job'[p] = j /\ \A q \in Procs \ {p} : job'[q] = job[q]
  BY DEF TypeOK
<1>2. PagesHonest'
  BY <1>1 DEF HistoryInv, PagesHonest, Complete
<1>3. WritesOnce' /\ RecentHonest' /\ HistoryHonest'
  BY DEF HistoryInv, WritesOnce, RecentHonest, HistoryHonest, Settled, caches
<1> QED
  BY <1>2, <1>3 DEF HistoryInv

\* The newer bucket: everything older is smaller.
LEMMA HistoryLoadKeeps ==
  ASSUME TypeOK, HistoryInv, NEW p \in Procs, NEW limit \in Limits, HistoryLoad(p, limit)
  PROVE  HistoryInv'
<1> DEFINE new == rows \ Older
           page == Top(new, limit)
<1>1. UNCHANGED <<rows, writes, caches, reply>>
  BY DEF HistoryLoad, tables, tasks
<1>2. PICK j \in PageJob :
        /\ job' = [job EXCEPT ![p] = j] /\ j.must = Settled /\ j.limit = limit
        /\ \/ j.op = "history" /\ ~j.whole
           \/ /\ j.page = page
              /\ \/ j.op = "older" /\ Cardinality(page) < limit
                 \/ j.op = "history" /\ ~(Cardinality(page) < limit)
  BY LoadIs
<1>3. /\ new \in SUBSET rows /\ new \in SUBSET Nat /\ IsFiniteSet(new) /\ limit \in Nat
      /\ page \in SUBSET new /\ Settled \in SUBSET rows /\ Settled \in SUBSET Msgs
      /\ Cardinality(page) \in Nat
  <2>1. new \in SUBSET rows /\ limit \in Nat
    BY StoresConstants
  <2>2. new \in SUBSET Nat /\ IsFiniteSet(new)
    BY <2>1, RowsType DEF HistoryInv
  <2> QED
    BY <2>1, <2>2, TopFinite, SettledRows
<1>4. \A m \in new \ page : Cardinality(page) = limit /\ \A x \in page : x > m
  BY <1>3, TopFull, TopAbove
<1>5. Cardinality(page) < limit => Settled \ Older \subseteq page
  BY <1>3, <1>4
<1>6. ~(Cardinality(page) < limit) => Complete(page, Settled, limit)
  <2> SUFFICES ASSUME ~(Cardinality(page) < limit), NEW m \in Settled \ page
               PROVE  Cardinality(page) = limit /\ \A x \in page : x > m
    BY DEF Complete
  <2>1. CASE m \notin Older
    BY <1>3, <1>4, <2>1
  <2>2. CASE m \in Older
    <3>1. Cardinality(page) <= limit
      BY <1>3, TopBound
    <3>2. \A x \in page : x \in Msgs \ Older /\ x \in Nat /\ m \in Nat /\ m < x
      BY <1>3, <2>2, StoresConstants DEF TypeOK
    <3> QED
      BY <1>3, <3>1, <3>2
  <2> QED
    BY <2>1, <2>2
<1> HIDE DEF page, new
<1>7. page \subseteq rows \ Older
  BY <1>3 DEF new
<1>8. /\ j.must \subseteq rows
      /\ j.op = "older" => /\ j.page \subseteq rows \ Older
                           /\ Cardinality(j.page) < j.limit
                           /\ j.must \ Older \subseteq j.page
      /\ j.op = "history" /\ j.whole => /\ j.page \subseteq rows
                                        /\ Complete(j.page, j.must, j.limit)
  BY <1>2, <1>3, <1>5, <1>6, <1>7
<1> QED
  BY <1>1, <1>2, <1>8, PageReplaced

\* The older bucket fills the page up.
LEMMA HistoryOlderKeeps ==
  ASSUME TypeOK, HistoryInv, NEW p \in Procs, HistoryOlder(p)
  PROVE  HistoryInv'
<1> DEFINE i == job[p]
           old == rows \cap Older
           n == i.limit - Cardinality(i.page)
           rest == Top(old, n)
<1>1. UNCHANGED <<rows, writes, caches, reply>>
  BY DEF HistoryOlder, tables, tasks
<1>2. i \in PageJob /\ i.op = "older"
  BY OlderIs
<1>3. PICK j \in PageJob :
        /\ job' = [job EXCEPT ![p] = j] /\ j.op = "history"
        /\ j.must = i.must /\ j.limit = i.limit
        /\ ~j.whole \/ j.page = i.page \cup rest
  BY OlderIs
<1>4. /\ i.must \subseteq rows /\ i.page \subseteq rows \ Older
      /\ Cardinality(i.page) < i.limit /\ i.must \ Older \subseteq i.page
  BY <1>2 DEF HistoryInv, PagesHonest
<1>5. /\ i.limit \in Nat /\ IsFiniteSet(i.page) /\ Cardinality(i.page) \in Nat
      /\ IsFiniteSet(old) /\ old \in SUBSET Nat /\ old \in SUBSET rows
  BY <1>2, <1>4, RowsType, JobKinds, StoresConstants DEF HistoryInv
<1>6. n \in Nat /\ i.limit = Cardinality(i.page) + n
  BY <1>4, <1>5
<1>7. rest \in SUBSET old /\ IsFiniteSet(rest) /\ Cardinality(rest) \in Nat
  BY <1>5, TopFinite
<1>8. Complete(i.page \cup rest, i.must, i.limit)
  <2> SUFFICES ASSUME NEW m \in i.must \ (i.page \cup rest)
               PROVE  /\ Cardinality(i.page \cup rest) = i.limit
                      /\ \A x \in i.page \cup rest : x > m
    BY DEF Complete
  <2>1. m \in old /\ m \notin rest /\ m \in Nat /\ m \in Older
    BY <1>4, <1>5
  <2>2. Cardinality(rest) = n /\ \A x \in rest : x > m
    <3> HIDE DEF i, n, old
    <3>1. Cardinality(rest) = n
      BY <1>5, <1>6, <2>1, TopFull
    <3>2. \A x \in rest : x > m
      BY <1>5, <1>6, <2>1, TopAbove
    <3> QED
      BY <3>1, <3>2
  <2>3. \A x \in i.page : x \in Msgs \ Older /\ x \in Nat /\ m < x
    BY <1>4, <2>1, StoresConstants DEF TypeOK
  <2>4. i.page \cap rest = {}
    BY <1>4, <1>7
  <2>5. Cardinality(i.page \cup rest)
          = Cardinality(i.page) + Cardinality(rest) - Cardinality(i.page \cap rest)
    BY <1>5, <1>7, FS_Union
  <2>6. Cardinality(i.page \cap rest) = 0
    BY <2>4, FS_EmptySet
  <2>7. Cardinality(i.page \cup rest) = i.limit
    <3> HIDE DEF i, rest, n
    <3> QED BY <1>5, <1>6, <1>7, <2>2, <2>5, <2>6
  <2>8. \A x \in i.page : x > m
    BY <2>1, <2>3
  <2> QED
    BY <2>2, <2>7, <2>8
<1>9. i.page \cup rest \subseteq rows
  BY <1>4, <1>7
<1> HIDE DEF i, rest
<1>10. /\ j.must \subseteq rows
       /\ j.op = "older" => /\ j.page \subseteq rows \ Older
                            /\ Cardinality(j.page) < j.limit
                            /\ j.must \ Older \subseteq j.page
       /\ j.op = "history" /\ j.whole => /\ j.page \subseteq rows
                                         /\ Complete(j.page, j.must, j.limit)
  BY <1>3, <1>4, <1>8, <1>9
<1> QED
  BY <1>1, <1>3, <1>10, PageReplaced

\* read_recent puts the page into the cache and replies.
LEMMA HistoryPutKeeps ==
  ASSUME TypeOK, HistoryInv, NEW p \in Procs, HistoryPut(p)
  PROVE  HistoryInv'
<1> DEFINE j == job[p]
<1>1. /\ j # None /\ j.op = "history" /\ rows' = rows /\ writes' = writes
      /\ reply' = [reply EXCEPT ![p] = j] /\ job' = [job EXCEPT ![p] = None]
      /\ UNCHANGED caches \/ Put("recent", j.page)
  BY DEF HistoryPut, tables, tasks
<1>2. j \in PageJob /\ j.page \in SUBSET Msgs
  BY <1>1, JobKinds DEF TypeOK
<1>3. j.whole => j.page \subseteq rows /\ Complete(j.page, j.must, j.limit)
  BY <1>1, <1>2 DEF HistoryInv, PagesHonest
<1>4. /\ reply'[p] = j /\ job'[p] = None
      /\ \A q \in Procs \ {p} : reply'[q] = reply[q] /\ job'[q] = job[q]
  BY <1>1 DEF TypeOK
<1>5. HistoryHonest'
  BY <1>1, <1>3, <1>4 DEF HistoryInv, HistoryHonest, Complete
<1>6. WritesOnce' /\ Settled' = Settled
  BY <1>1 DEF HistoryInv, WritesOnce, Settled
<1>7. None \notin PageJob
  BY JobKinds
<1>8. PagesHonest'
  BY <1>1, <1>4, <1>7 DEF HistoryInv, PagesHonest
<1>9. RecentHonest'
  <2>1. CASE UNCHANGED caches
    BY <1>1, <1>6, <2>1 DEF HistoryInv, RecentHonest, caches
  <2>2. CASE /\ cache' = [cache EXCEPT !["recent"] = j.page]
             /\ tainted' = [tainted EXCEPT !["recent"] = ~Current("recent", j.page)]
    <3>1. cache'.recent = j.page /\ (tainted'.recent <=> ~Current("recent", j.page))
      BY <2>2 DEF TypeOK, Keys
    <3>2. Current("recent", j.page) => j.page = Top(rows, Cardinality(j.page))
      BY <1>1 DEF Current
    <3>3. ASSUME j.page = Top(rows, Cardinality(j.page))
          PROVE  /\ j.page \subseteq rows
                 /\ \A m \in Settled \ j.page : \A x \in j.page : x > m
      <4>1. j.page \in SUBSET rows
        BY <3>3, TopIs
      <4>2. /\ rows \in SUBSET Nat /\ IsFiniteSet(rows) /\ Cardinality(j.page) \in Nat
        BY <4>1, RowsType DEF HistoryInv
      <4>3. Settled \in SUBSET rows
        BY SettledRows
      <4> HIDE DEF j
      <4> QED
        BY <3>3, <4>1, <4>2, <4>3, TopAbove
    <3> QED
      BY <1>1, <1>6, <3>1, <3>2, <3>3 DEF RecentHonest
  <2> QED
    BY <1>1, <2>1, <2>2 DEF Put
<1> QED
  BY <1>5, <1>6, <1>8, <1>9 DEF HistoryInv

LEMMA HistoryNext == TypeOK /\ HistoryInv /\ [Next]_vars => HistoryInv'
<1> SUFFICES ASSUME TypeOK, HistoryInv, [Next]_vars PROVE HistoryInv'
  OBVIOUS
<1>1. WritesOnce
  BY DEF HistoryInv
<1>2. None \notin PageJob /\ \A r \in JoinJob \cup ChangeJob : r \notin PageJob
  BY JobKinds
<1>3. ASSUME UNCHANGED <<rows, writes>>
      PROVE  WritesOnce' /\ Settled' = Settled /\ rows' = rows
  BY <1>1, <1>3 DEF WritesOnce, Settled
<1>4. CASE UNCHANGED vars
  <2>1. /\ rows' = rows /\ writes' = writes /\ cache' = cache /\ tainted' = tainted
        /\ job' = job /\ reply' = reply
    BY <1>4 DEF vars
  <2> QED
    BY <1>3, <2>1, HistoryKept
<1>5. ASSUME NEW p \in Procs,
             \/ JoinCached(p) \/ JoinLoad(p) \/ JoinFails(p) \/ JoinPut(p)
             \/ \E u \in Users : Remove(p, u)
             \/ Create(p) \/ CreateFails(p) \/ InvalidateMembers(p)
      PROVE  HistoryInv'
  <2>1. UNCHANGED <<rows, writes>>
    BY <1>5 DEF JoinCached, JoinLoad, JoinFails, JoinPut, Remove, Create, CreateFails,
                InvalidateMembers, tables, tasks
  <2>2. cache'.recent = cache.recent /\ tainted'.recent = tainted.recent
    BY <1>5 DEF JoinCached, JoinLoad, JoinFails, JoinPut, Remove, Create, CreateFails,
                InvalidateMembers, caches, Put, Invalidate, TypeOK, Keys
  <2>3. \A q \in Procs : reply'[q] = reply[q] \/ reply'[q] = None \/ reply'[q].op = "join"
    BY <1>5 DEF JoinCached, JoinLoad, JoinFails, JoinPut, Remove, Create, CreateFails,
                InvalidateMembers, TypeOK, Verdict
  <2>4. \A q \in Procs : job'[q] = job[q] \/ job'[q] \notin PageJob
    <3>1. \A q \in Procs : job[q] # None /\ job[q].op = "join" => job[q] \in JoinJob
      BY JobKinds DEF TypeOK
    <3>2. \A u \in Users : /\ [op |-> "remove", user |-> u] \in ChangeJob
                           /\ [op |-> "create", user |-> u] \in ChangeJob
      BY DEF ChangeJob
    <3>3. UserOf[p] \in Users /\ Join(UserOf[p], members) \in JoinJob
      BY JoinIs, StoresConstants DEF TypeOK
    <3>4. CASE job' = job \/ job' = [job EXCEPT ![p] = None]
               \/ job' = [job EXCEPT ![p] = Join(UserOf[p], members)]
      BY <1>2, <3>3, <3>4 DEF TypeOK
    <3>5. ASSUME NEW u \in Users, Remove(p, u)
          PROVE  \A q \in Procs : job'[q] = job[q] \/ job'[q] \notin PageJob
      BY <1>2, <3>1, <3>2, <3>5, WidenedJoin DEF Remove
    <3>6. CASE Create(p)
      BY <1>2, <3>1, <3>2, <3>3, <3>6, WidenedJoin DEF Create
    <3> QED
      BY <1>5, <3>4, <3>5, <3>6 DEF JoinCached, JoinLoad, JoinFails, JoinPut, CreateFails,
                                    InvalidateMembers
  <2> QED
    BY <1>3, <2>1, <2>2, <2>3, <2>4, HistoryKept
<1>6. ASSUME NEW p \in Procs, NEW limit \in Limits, HistoryCached(p, limit)
      PROVE  HistoryInv'
  BY <1>6, HistoryCachedKeeps
<1>7. ASSUME NEW p \in Procs, NEW limit \in Limits, HistoryLoad(p, limit)
      PROVE  HistoryInv'
  BY <1>7, HistoryLoadKeeps
<1>8. ASSUME NEW p \in Procs, HistoryOlder(p) PROVE HistoryInv'
  BY <1>8, HistoryOlderKeeps
<1>9. ASSUME NEW p \in Procs, HistoryPut(p) PROVE HistoryInv'
  BY <1>9, HistoryPutKeeps
<1>10. ASSUME NEW m \in Msgs, StartWrite(m)
       PROVE  HistoryInv'
  <2>1. /\ rows' = rows /\ cache' = cache /\ tainted' = tainted /\ job' = job /\ reply' = reply
        /\ m \notin rows /\ \A w \in writes : w.msg # m
        /\ writes' = writes \cup {[msg |-> m, pc |-> "write"]}
    BY <1>10 DEF StartWrite, tables, caches
  <2>2. WritesOnce'
    BY <1>1, <2>1 DEF WritesOnce
  <2>3. Settled' \subseteq Settled
    BY <2>1 DEF Settled
  <2> QED
    BY <2>1, <2>2, <2>3, HistoryKept
<1>11. ASSUME NEW m \in Msgs, SyncPush(m)
       PROVE  HistoryInv'
  <2>1. /\ rows' = rows \cup {m} /\ cache' = cache /\ job' = job /\ reply' = reply
        /\ m \notin rows /\ \A w \in writes : w.msg # m
        /\ writes' = writes /\ tainted'.recent = (tainted.recent \/ cache.recent # None)
    BY <1>11 DEF SyncPush, tasks, TypeOK, Keys
  <2>2. WritesOnce'
    BY <1>1, <2>1, FS_AddElement DEF WritesOnce
  <2>3. PagesHonest'
    BY <2>1 DEF HistoryInv, PagesHonest, Complete
  <2>4. RecentHonest'
    BY <2>1 DEF RecentHonest
  <2>5. HistoryHonest'
    BY <2>1 DEF HistoryInv, HistoryHonest
  <2> QED
    BY <2>2, <2>3, <2>4, <2>5 DEF HistoryInv
<1>12. ASSUME NEW w \in writes, WriteRow(w)
       PROVE  HistoryInv'
  <2> DEFINE v == [w EXCEPT !.pc = "delete"]
  <2>1. /\ w.pc = "write" /\ rows' = rows \cup {w.msg} /\ writes' = (writes \ {w}) \cup {v}
        /\ cache' = cache /\ tainted' = tainted /\ job' = job /\ reply' = reply
    BY <1>12 DEF WriteRow, caches
  <2>2. v.msg = w.msg /\ v.pc = "delete"
    BY DEF TypeOK
  <2> HIDE DEF v
  <2>3. WritesOnce'
    BY <1>1, <2>1, <2>2, FS_AddElement DEF WritesOnce
  <2>4. Settled' \subseteq Settled
    <3> SUFFICES ASSUME NEW m \in Settled' PROVE m \in Settled
      OBVIOUS
    <3>1. m # w.msg
      BY <2>1, <2>2 DEF Settled
    <3> QED
      BY <2>1, <2>2, <3>1 DEF Settled
  <2> QED
    BY <2>1, <2>3, <2>4, HistoryKept
<1>13. ASSUME NEW w \in writes, WriteFails(w)
       PROVE  HistoryInv'
  <2>1. /\ w.pc = "write" /\ rows' = rows /\ writes' = writes \ {w}
        /\ cache' = cache /\ tainted' = tainted /\ job' = job /\ reply' = reply
    BY <1>13 DEF WriteFails, tables, caches
  <2>2. WritesOnce'
    BY <1>1, <2>1 DEF WritesOnce
  <2>3. Settled' \subseteq Settled
    BY <1>1, <2>1 DEF Settled, WritesOnce
  <2> QED
    BY <2>1, <2>2, <2>3, HistoryKept
<1>14. ASSUME NEW w \in writes, InvalidateRecent(w)
       PROVE  HistoryInv'
  <2> DEFINE v == [w EXCEPT !.pc = "notice"]
  <2>1. /\ rows' = rows /\ writes' = (writes \ {w}) \cup {v}
        /\ job' = job /\ reply' = reply /\ Invalidate("recent")
    BY <1>14 DEF InvalidateRecent, tables
  <2>2. v.msg = w.msg /\ v.pc = "notice"
    BY DEF TypeOK
  <2> HIDE DEF v
  <2>3. WritesOnce'
    BY <1>1, <2>1, <2>2 DEF WritesOnce
  <2>4. cache'.recent = None \/ tainted'.recent
    BY <2>1 DEF Invalidate, TypeOK, Keys
  <2>5. RecentHonest'
    BY <2>4 DEF RecentHonest
  <2>6. PagesHonest' /\ HistoryHonest'
    BY <2>1 DEF HistoryInv, PagesHonest, HistoryHonest
  <2> QED
    BY <2>3, <2>5, <2>6 DEF HistoryInv
<1>15. ASSUME NEW w \in writes, HandleCacheInvalidation(w)
       PROVE  HistoryInv'
  <2>1. /\ w.pc = "notice" /\ rows' = rows /\ writes' = writes \ {w}
        /\ job' = job /\ reply' = reply /\ (Invalidate("recent") \/ UNCHANGED caches)
    BY <1>15 DEF HandleCacheInvalidation, tables
  <2>2. WritesOnce'
    BY <1>1, <2>1 DEF WritesOnce
  <2>3. Settled' \subseteq Settled
    BY <2>1 DEF Settled
  <2>4. \/ cache'.recent = None
        \/ cache'.recent = cache.recent /\ (tainted.recent => tainted'.recent)
        \/ tainted'.recent
    BY <2>1 DEF Invalidate, caches, TypeOK, Keys
  <2>5. RecentHonest'
    BY <2>1, <2>3, <2>4 DEF HistoryInv, RecentHonest
  <2>6. PagesHonest' /\ HistoryHonest'
    BY <2>1 DEF HistoryInv, PagesHonest, HistoryHonest
  <2> QED
    BY <2>2, <2>5, <2>6 DEF HistoryInv
<1>16. ASSUME NEW k \in Keys, Expire(k)
       PROVE  HistoryInv'
  <2>1. UNCHANGED <<rows, writes, job, reply>>
    BY <1>16 DEF Expire, tables, tasks
  <2>2. \/ cache'.recent = None
        \/ cache'.recent = cache.recent /\ tainted'.recent = tainted.recent
    BY <1>16 DEF Expire, TypeOK, Keys
  <2> QED
    BY <1>3, <2>1, <2>2, HistoryKept
<1>17. ASSUME \/ \E m \in Msgs : MarkRead(m)
              \/ \E t \in marks : GetPosition(t) \/ PutPosition(t)
       PROVE  HistoryInv'
  <2>1. UNCHANGED <<rows, writes, job, reply, cache, tainted>>
    BY <1>17 DEF MarkRead, GetPosition, PutPosition, tables, caches
  <2> QED
    BY <1>3, <2>1, HistoryKept
<1> QED
  BY <1>4, <1>5, <1>6, <1>7, <1>8, <1>9, <1>10, <1>11, <1>12, <1>13, <1>14, <1>15, <1>16, <1>17
  DEF Next

-----------------------------------------------------------------------------
(* The theorems.                                                           *)

StoresInv == TypeOK /\ MembersInv /\ HistoryInv

LEMMA StoresInit == Init => StoresInv
<1> SUFFICES ASSUME Init PROVE StoresInv
  OBVIOUS
<1>1. TypeOK
  BY StoresInitType
<1>2. /\ \A p \in Procs : job[p] = None /\ reply[p] = None
      /\ cache.members = None /\ cache.recent = None /\ rows = {} /\ writes = {}
  BY DEF Init, Keys
<1>3. None \notin PageJob
  BY JobKinds
<1>4. MembersInv
  BY <1>2 DEF MembersInv, JobsHonest, ListHonest, JoinsHonest
<1>5. HistoryInv
  BY <1>2, <1>3, FS_EmptySet DEF HistoryInv, WritesOnce, PagesHonest, RecentHonest, HistoryHonest
<1> QED
  BY <1>1, <1>4, <1>5 DEF StoresInv

LEMMA StoresInvariant == Spec => []StoresInv
<1>1. StoresInv /\ [Next]_vars => StoresInv'
  BY StoresNextType, MembersNext, HistoryNext DEF StoresInv
<1> QED
  BY <1>1, StoresInit, PTL DEF Spec

\* Type correctness of tables, cache, requests and tasks; an empty list is never
\* cached, and an update of the read position never waits to move it backward.
THEOREM StoresTypeOK == Spec => []TypeOK
<1>1. StoresInv => TypeOK
  BY DEF StoresInv
<1> QED
  BY <1>1, StoresInvariant, PTL

\* Members.member? decides a join as if the rows were read at one moment of it,
\* whatever other processes add, remove, cache and delete in between.
THEOREM StoresJoinsHonest == Spec => []JoinsHonest
<1>1. StoresInv => JoinsHonest
  BY DEF StoresInv, MembersInv
<1> QED
  BY <1>1, StoresInvariant, PTL

\* Messages.read_recent leaves out no settled message that belongs on the page,
\* from the cache or from the two buckets.
THEOREM StoresHistoryHonest == Spec => []HistoryHonest
<1>1. StoresInv => HistoryHonest
  BY DEF StoresInv, HistoryInv
<1> QED
  BY <1>1, StoresInvariant, PTL

=============================================================================
