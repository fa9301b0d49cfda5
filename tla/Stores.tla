------------------------------- MODULE Stores -------------------------------
(***************************************************************************)
(* What the gateway stores about one channel and reads through the cache:  *)
(* its members (Persistence.Members) and its recent messages               *)
(* (Persistence.Messages), and the read position of a user                 *)
(* (Persistence.ReadPositions).                                            *)
(*                                                                         *)
(* A socket process handles one request at a time, in steps between which  *)
(* the others run: a reader looks into the cache, loads from the database  *)
(* and fills the cache; a writer changes the database and then deletes the *)
(* cached value.  An error of the cache counts as a miss or is ignored.    *)
(*                                                                         *)
(* Messages are numbered in the order of the table, by bucket and id; the  *)
(* ids are random, so a new message may come anywhere in that order.       *)
(***************************************************************************)
EXTENDS Wire

CONSTANTS
  None,
  Procs, Users, UserOf,   \* socket processes and the user each one serves
  Admins,                 \* the users whose role is at least 1
  Start,                  \* the sets of members there may be at the start
  Msgs, Older,            \* message numbers, and those of the previous bucket
  Limits,                 \* page sizes that are asked for
  Tenant, NewType, NewName,   \* a channel that is created: its type and name
  MaxOps,                 \* bound: requests
  Faults                  \* whether cache and database may fail

\* The requests a process works on in several steps.
JoinJob == [op : {"join"}, user : Users, read : SUBSET Users, ever : BOOLEAN,
            always : BOOLEAN]
ChangeJob == [op : {"remove", "create"}, user : Users]
PageJob == [op : {"older", "history"}, limit : Limits, page : SUBSET Msgs,
            must : SUBSET Msgs, whole : BOOLEAN, tainted : BOOLEAN]

ASSUME StoresAssumption ==
  /\ None \notin JoinJob \cup ChangeJob \cup PageJob
  /\ UserOf \in [Procs -> Users] /\ Admins \subseteq Users
  /\ Start \subseteq SUBSET Users
  /\ Msgs \subseteq Nat \ {0} /\ Older \subseteq Msgs
  /\ \A m \in Older, n \in Msgs \ Older : m < n
  /\ Limits \subseteq Nat \ {0}
  /\ MaxOps \in Nat /\ Faults \in BOOLEAN

VARIABLES
  members,    \* channel_members
  rows,       \* mercury.messages, the buckets that a page is read from
  cache,      \* cache.members and cache.recent: None, or the cached set
  tainted,    \* history: the cached value was out of date when it was put, or
              \* has missed a deletion
  job,        \* job[p]: the request p is handling
  reply,      \* reply[p]: the answer to p's last request
  writes,     \* tasks of persist_message
  position,   \* the user's row of read_positions, 0 without one
  marks,      \* tasks of persist_read_position
  created,    \* whether ch:create was answered
  ops         \* how many requests there were

vars == <<members, rows, cache, tainted, job, reply, writes, position, marks, created, ops>>
tables == <<members, rows>>
caches == <<cache, tainted>>
tasks == <<writes, position, marks>>

Keys == {"members", "recent"}

\* The first n messages in the order of the table.
Top(set, n) == {m \in set : Cardinality({x \in set : x > m}) < n}

Init ==
  /\ members \in Start /\ rows = {}
  /\ cache = [k \in Keys |-> None] /\ tainted = [k \in Keys |-> FALSE]
  /\ job = [p \in Procs |-> None] /\ reply = [p \in Procs |-> None]
  /\ writes = {} /\ position = 0 /\ marks = {}
  /\ created = (members # {}) /\ ops = 0

Request(p) == job[p] = None /\ ops < MaxOps /\ ops' = ops + 1

\* What a cached value should be.
Current(k, value) ==
  IF k = "members" THEN value = members' ELSE value = Top(rows', Cardinality(value))

\* DEL, SADD and EXPIRE in one pipeline, or SETEX; an error is ignored.
Put(k, value) ==
  \/ /\ cache' = [cache EXCEPT ![k] = value]
     /\ tainted' = [tainted EXCEPT ![k] = ~Current(k, value)]
  \/ Faults /\ UNCHANGED caches

\* DEL; an error is ignored.
Invalidate(k) ==
  \/ /\ cache' = [cache EXCEPT ![k] = None]
     /\ tainted' = [tainted EXCEPT ![k] = FALSE]
  \/ /\ Faults /\ UNCHANGED cache
     /\ tainted' = [tainted EXCEPT ![k] = cache[k] # None]

\* The time to live is over.
Expire(k) ==
  /\ cache[k] # None
  /\ cache' = [cache EXCEPT ![k] = None]
  /\ tainted' = [tainted EXCEPT ![k] = FALSE]
  /\ UNCHANGED <<tables, job, reply, tasks, created, ops>>

-----------------------------------------------------------------------------
(* Members.                                                                *)

Removing(u) == \E p \in Procs : job[p] # None /\ job[p].op = "remove" /\ job[p].user = u
Adding(u) == \E p \in Procs : job[p] # None /\ job[p].op = "create" /\ job[p].user = u

\* A join in progress, with whether its user may have been a member at some
\* time, and was one for sure all the time.
Join(u, read) ==
  [op |-> "join", user |-> u, read |-> read,
   ever |-> u \in members \/ Removing(u), always |-> u \in members /\ ~Adding(u)]

Verdict(j, granted) ==
  [op |-> "join", granted |-> granted, ever |-> j.ever, always |-> j.always,
   tainted |-> FALSE]

\* member?: from the cache, where an empty set is a miss.
JoinCached(p) ==
  LET j == Join(UserOf[p], {})
  IN  /\ Request(p) /\ cache.members # None
      /\ reply' = [reply EXCEPT ![p] =
           [Verdict(j, UserOf[p] \in cache.members) EXCEPT !.tainted = tainted.members]]
      /\ UNCHANGED <<tables, caches, job, tasks, created>>

\* member? on a miss: load_from_db reads the rows.
JoinLoad(p) ==
  /\ Request(p) /\ (cache.members = None \/ Faults)
  /\ job' = [job EXCEPT ![p] = Join(UserOf[p], members)]
  /\ UNCHANGED <<tables, caches, reply, tasks, created>>

\* load_from_db fails: the join is refused with an error of its own.
JoinFails(p) ==
  /\ Request(p) /\ Faults
  /\ reply' = [reply EXCEPT ![p] = None]
  /\ UNCHANGED <<tables, caches, job, tasks, created>>

\* load_from_db: what was read is put into the cache unless it is empty, and
\* do_join decides.
JoinPut(p) ==
  /\ job[p] # None /\ job[p].op = "join"
  /\ UNCHANGED tables
  /\ IF job[p].read = {} THEN UNCHANGED caches ELSE Put("members", job[p].read)
  /\ reply' = [reply EXCEPT ![p] = Verdict(job[p], job[p].user \in job[p].read)]
  /\ job' = [job EXCEPT ![p] = None]
  /\ UNCHANGED <<tasks, created, ops>>

\* mls:remove_member by an admin, whose role is read from the database: the row
\* is deleted.  A failure changes nothing.
Remove(p, u) ==
  /\ Request(p) /\ UserOf[p] \in Admins \cap members
  /\ members' = members \ {u}
  /\ job' = [q \in Procs |->
       IF q = p THEN [op |-> "remove", user |-> u]
       ELSE IF job[q] # None /\ job[q].op = "join" /\ job[q].user = u
       THEN [job[q] EXCEPT !.always = FALSE] ELSE job[q]]
  /\ UNCHANGED <<rows, caches, reply, tasks, created>>

\* ch:create: the name is validated, the id is new, the creator becomes the
\* first member.
Create(p) ==
  /\ Request(p) /\ ~created
  /\ ValidateChannel(Id(Tenant), NewType, NewName) = "ok"
  /\ members' = members \cup {UserOf[p]}
  /\ job' = [q \in Procs |->
       IF q = p THEN [op |-> "create", user |-> UserOf[p]]
       ELSE IF job[q] # None /\ job[q].op = "join" /\ job[q].user = UserOf[p]
       THEN [job[q] EXCEPT !.ever = TRUE] ELSE job[q]]
  /\ created' = TRUE
  /\ UNCHANGED <<rows, caches, reply, tasks>>

\* The insert fails; the answer is the id all the same.
CreateFails(p) ==
  /\ Request(p) /\ ~created /\ Faults
  /\ created' = TRUE
  /\ UNCHANGED <<tables, caches, job, reply, tasks>>

\* Mutant: the list is left in the cache.
NoInvalidation(p) ==
  /\ job[p] # None /\ job[p].op \in {"remove", "create"}
  /\ job' = [job EXCEPT ![p] = None]
  /\ UNCHANGED <<tables, caches, reply, tasks, created, ops>>

\* add_member and remove_member: the cached list is deleted after the change.
InvalidateMembers(p) ==
  /\ job[p] # None /\ job[p].op \in {"remove", "create"}
  /\ Invalidate("members")
  /\ job' = [job EXCEPT ![p] = None]
  /\ UNCHANGED <<tables, reply, tasks, created, ops>>

-----------------------------------------------------------------------------
(* Recent messages.                                                        *)

\* Messages whose write is over, cache and all.
Settled == {m \in rows : \A w \in writes : w.msg = m => w.pc = "notice"}

Page(limit, page, must) ==
  [op |-> "history", limit |-> limit, page |-> page, must |-> must,
   whole |-> TRUE, tainted |-> FALSE]

\* read_recent from a cached page that is long enough.
HistoryCached(p, limit) ==
  /\ Request(p) /\ cache.recent # None /\ Cardinality(cache.recent) >= limit
  /\ reply' = [reply EXCEPT ![p] =
       [Page(limit, Top(cache.recent, limit), Settled) EXCEPT !.tainted = tainted.recent]]
  /\ UNCHANGED <<tables, caches, job, tasks, created>>

\* read_recent_from_scylla: the current bucket, or nothing when it cannot be
\* read.
HistoryLoad(p, limit) ==
  /\ Request(p)
  /\ cache.recent # None => (Cardinality(cache.recent) < limit \/ Faults)
  /\ \/ LET j == Page(limit, Top(rows \ Older, limit), Settled)
        IN  job' = [job EXCEPT ![p] =
              [j EXCEPT !.op = IF Cardinality(j.page) < limit THEN "older" ELSE "history"]]
     \/ Faults /\ job' = [job EXCEPT ![p] = [Page(limit, {}, Settled) EXCEPT !.whole = FALSE]]
  /\ UNCHANGED <<tables, caches, reply, tasks, created>>

\* read_recent_from_scylla: a page that is not full is filled from the bucket
\* before, or left as it is when that cannot be read.
HistoryOlder(p) ==
  /\ job[p] # None /\ job[p].op = "older"
  /\ LET j == [job[p] EXCEPT !.op = "history"]
         rest == Top(rows \cap Older, j.limit - Cardinality(j.page))
     IN  \/ job' = [job EXCEPT ![p] = [j EXCEPT !.page = @ \cup rest]]
         \/ Faults /\ job' = [job EXCEPT ![p] = [j EXCEPT !.whole = FALSE]]
  /\ UNCHANGED <<tables, caches, reply, tasks, created, ops>>

\* read_recent: a page with messages is put into the cache.
HistoryPut(p) ==
  /\ job[p] # None /\ job[p].op = "history"
  /\ UNCHANGED tables
  /\ IF job[p].page = {} THEN UNCHANGED caches ELSE Put("recent", job[p].page)
  /\ reply' = [reply EXCEPT ![p] = job[p]]
  /\ job' = [job EXCEPT ![p] = None]
  /\ UNCHANGED <<tasks, created, ops>>

\* msg:send starts the task of persist_message.
StartWrite(m) ==
  /\ ops < MaxOps /\ ops' = ops + 1
  /\ m \notin rows /\ \A w \in writes : w.msg # m
  /\ writes' = writes \cup {[msg |-> m, pc |-> "write"]}
  /\ UNCHANGED <<tables, caches, job, reply, position, marks, created>>

\* The task: the row, or the end of it when the database fails.
WriteRow(w) ==
  /\ w.pc = "write"
  /\ rows' = rows \cup {w.msg}
  /\ writes' = (writes \ {w}) \cup {[w EXCEPT !.pc = "delete"]}
  /\ UNCHANGED <<members, caches, job, reply, position, marks, created, ops>>
WriteFails(w) ==
  /\ w.pc = "write" /\ Faults
  /\ writes' = writes \ {w}
  /\ UNCHANGED <<tables, caches, job, reply, position, marks, created, ops>>

\* Mutant: the cached page is left alone.
KeepRecent(w) ==
  /\ w.pc = "delete"
  /\ writes' = (writes \ {w}) \cup {[w EXCEPT !.pc = "notice"]}
  /\ UNCHANGED <<tables, caches, job, reply, position, marks, created, ops>>

\* The task: the cached page is deleted, and other nodes are told.
InvalidateRecent(w) ==
  /\ w.pc = "delete"
  /\ Invalidate("recent")
  /\ writes' = (writes \ {w}) \cup {[w EXCEPT !.pc = "notice"]}
  /\ UNCHANGED <<tables, job, reply, position, marks, created, ops>>

\* Consumer.handle_cache_invalidation: the cache is shared, so the page is
\* deleted a second time; or the notice is lost.
HandleCacheInvalidation(w) ==
  /\ w.pc = "notice"
  /\ Invalidate("recent") \/ UNCHANGED caches
  /\ writes' = writes \ {w}
  /\ UNCHANGED <<tables, job, reply, position, marks, created, ops>>

\* sync:push stores a message without a look at the cache.
SyncPush(m) ==
  /\ ops < MaxOps /\ ops' = ops + 1
  /\ m \notin rows /\ \A w \in writes : w.msg # m
  /\ rows' = rows \cup {m}
  /\ tainted' = [tainted EXCEPT !.recent = @ \/ cache.recent # None]
  /\ UNCHANGED <<members, cache, job, reply, tasks, created>>

-----------------------------------------------------------------------------
(* Read positions.                                                         *)

\* msg:read starts the task of persist_read_position.
MarkRead(m) ==
  /\ ops < MaxOps /\ ops' = ops + 1
  /\ \A t \in marks : t.msg # m
  /\ marks' = marks \cup {[msg |-> m, pc |-> "get", seen |-> 0]}
  /\ UNCHANGED <<tables, caches, job, reply, writes, position, created>>

\* update: the row is read; an error counts as no row.
GetPosition(t) ==
  /\ t.pc = "get"
  /\ \E seen \in {position} \cup (IF Faults THEN {0} ELSE {}) :
       marks' = (marks \ {t}) \cup
                (IF seen >= t.msg THEN {} ELSE {[t EXCEPT !.pc = "put", !.seen = seen]})
  /\ UNCHANGED <<tables, caches, job, reply, writes, position, created, ops>>

\* update: the row is overwritten, or stays as it is when the database fails.
PutPosition(t) ==
  /\ t.pc = "put"
  /\ position' = t.msg \/ (Faults /\ position' = position)
  /\ marks' = marks \ {t}
  /\ UNCHANGED <<tables, caches, job, reply, writes, created, ops>>

-----------------------------------------------------------------------------
Next ==
  \/ \E p \in Procs :
       \/ JoinCached(p) \/ JoinLoad(p) \/ JoinFails(p) \/ JoinPut(p)
       \/ \E u \in Users : Remove(p, u)
       \/ Create(p) \/ CreateFails(p) \/ InvalidateMembers(p)
       \/ \E limit \in Limits : HistoryCached(p, limit) \/ HistoryLoad(p, limit)
       \/ HistoryOlder(p) \/ HistoryPut(p)
  \/ \E m \in Msgs : StartWrite(m) \/ SyncPush(m) \/ MarkRead(m)
  \/ \E w \in writes : \/ WriteRow(w) \/ WriteFails(w)
                       \/ InvalidateRecent(w) \/ HandleCacheInvalidation(w)
  \/ \E t \in marks : GetPosition(t) \/ PutPosition(t)
  \/ \E k \in Keys : Expire(k)

Spec == Init /\ [][Next]_vars

-----------------------------------------------------------------------------
\* Type correctness; an empty list is never cached.
TypeOK ==
  /\ members \subseteq Users /\ rows \subseteq Msgs /\ position \in Msgs \cup {0}
  /\ cache \in [Keys -> {None} \cup SUBSET (Users \cup Msgs)]
  /\ cache.members # None => cache.members \in (SUBSET Users) \ {{}}
  /\ cache.recent # None => cache.recent \in (SUBSET Msgs) \ {{}}
  /\ tainted \in [Keys -> BOOLEAN]
  /\ job \in [Procs -> {None} \cup JoinJob \cup ChangeJob \cup PageJob]
  /\ DOMAIN reply = Procs
  /\ writes \subseteq [msg : Msgs, pc : {"write", "delete", "notice"}]
  /\ marks \subseteq [msg : Msgs, pc : {"get", "put"}, seen : Msgs \cup {0}]
  /\ \A t \in marks : t.seen < t.msg

\* A join is decided as if the members were looked up at one moment of it, over
\* all steps of other processes between the cache, the database and the cache
\* again: who was a member throughout is let in, who was none is not.  The one
\* exception is a list that was out of date when it was cached, or whose
\* deletion from the cache failed (members.ex:119, cache.ex:78).
JoinsHonest ==
  \A p \in Procs : reply[p] # None /\ reply[p].op = "join" /\ ~reply[p].tainted =>
    /\ reply[p].granted => reply[p].ever
    /\ reply[p].always => reply[p].granted

\* A page of the history holds every message whose write was over before it was
\* asked for, unless newer ones fill it, even when it comes from a cached page
\* that is short because a bucket could not be read.  The exceptions are the
\* reply that could not read a bucket itself, and a cached page that was out of
\* date when it was put, missed a deletion, or a message of sync:push.
HistoryHonest ==
  \A p \in Procs : reply[p] # None /\ reply[p].op = "history" /\ reply[p].whole /\ ~reply[p].tainted =>
    /\ reply[p].page \subseteq rows
    /\ \A m \in reply[p].must \ reply[p].page :
         /\ Cardinality(reply[p].page) = reply[p].limit
         /\ \A x \in reply[p].page : x > m

\* "GCounter (max) semantics, never goes backward" (read_positions.ex:2).
NeverBackward == [][position' >= position]_vars

=============================================================================
