---------------------------- MODULE MessageStore ----------------------------
(***************************************************************************)
(* The ScyllaDB table mercury.messages as Persistence.Messages and         *)
(* Persistence.Sync use it: one row per (channel, time bucket, message id), *)
(* written by an INSERT that overwrites a row with the same key.  A table  *)
(* is a set of rows; time is counted in ticks, BucketSpan ticks a bucket.  *)
(***************************************************************************)
EXTENDS Integers, FiniteSets

CONSTANTS BucketSpan    \* ticks per time bucket (ten days of milliseconds)

ASSUME BucketAssumption == BucketSpan \in Nat \ {0}

\* compute_time_bucket: the bucket a creation time falls into.
Bucket(ts) == ts \div BucketSpan

\* The primary key of a row.
Key(r) == <<r.ch, r.bucket, r.msg>>

\* Messages.write for every row of new: an upsert on the primary key.
Upsert(table, new) ==
  {r \in table : \A n \in new : Key(n) # Key(r)} \cup new

=============================================================================
