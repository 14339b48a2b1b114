---------------------------- MODULE RateLimiter ----------------------------
(***************************************************************************)
(* The fixed-window rate limiter of the verifier service (apps/            *)
(* verifier-web/src/rate-limit.ts): one bucket per client, expired buckets *)
(* are dropped on every check, and the number of tracked clients is        *)
(* capped, at the expense of the bucket that was opened first.             *)
(***************************************************************************)
EXTENDS Naturals, FiniteSets

CONSTANTS
  Clients,     \* remote addresses
  Limit,       \* limit: requests per window
  Window,      \* windowMs, in clock ticks
  MaxBuckets,  \* maxBuckets: clients tracked at a time
  MaxTime      \* bound: the last clock value

\* createRateLimiter raises each option to at least 1.
ASSUME LimiterAssumption == /\ IsFiniteSet(Clients)
                            /\ Limit \in Nat \ {0}
                            /\ Window \in Nat \ {0}
                            /\ MaxBuckets \in Nat \ {0}
                            /\ MaxTime \in Nat

VARIABLES
  now,      \* now(); the clock is taken not to step back
  bucket,   \* bucket[c]: the bucket of client c
  evicted   \* history variable: clients whose bucket was given up for the cap

limiterVars == <<now, bucket, evicted>>

NoBucket == [startedAt |-> 0, count |-> 0]
Buckets == [startedAt : 0 .. MaxTime, count : Nat \ {0}]

Tracked(buckets) == {c \in Clients : buckets[c] # NoBucket}

\* Mutant: the window is closed one tick late.
ExpiredLate(b) == now > b.startedAt + Window

\* Mutant: the length of the window is left out.
ExpiredAtOnce(b) == now >= b.startedAt

Expired(b) == now >= b.startedAt + Window

\* pruneExpired(): runs at the start of every check, over all clients.
Pruned == [c \in Clients |-> IF Expired(bucket[c]) THEN NoBucket ELSE bucket[c]]

\* The decision for the next request of c.
Admits(c) == Pruned[c] = NoBucket \/ Pruned[c].count < Limit

\* A new bucket, or one more request in the open one; refused requests count.
Charged(c) ==
  IF Pruned[c] = NoBucket
    THEN [Pruned EXCEPT ![c] = [startedAt |-> now, count |-> 1]]
    ELSE [Pruned EXCEPT ![c].count = @ + 1]

\* The clients capBuckets() may give up after c was charged: those whose bucket
\* was opened first.  Among equals the insertion order decides, and c came last.
Oldest(c) ==
  {k \in Tracked(Charged(c)) \ {c} :
     \A l \in Tracked(Charged(c)) : Charged(c)[k].startedAt <= Charged(c)[l].startedAt}

\* check(c).
Check(c) ==
  /\ \/ /\ Cardinality(Tracked(Charged(c))) <= MaxBuckets
        /\ bucket' = Charged(c)
        /\ UNCHANGED evicted
     \/ /\ Cardinality(Tracked(Charged(c))) > MaxBuckets
        /\ \E k \in Oldest(c) : /\ bucket' = [Charged(c) EXCEPT ![k] = NoBucket]
                                /\ evicted' = evicted \union {k}
  /\ UNCHANGED now

Tick ==
  /\ now < MaxTime
  /\ now' = now + 1
  /\ UNCHANGED <<bucket, evicted>>

LimiterInit == /\ now = 0
               /\ bucket = [c \in Clients |-> NoBucket]
               /\ evicted = {}

-----------------------------------------------------------------------------
(* Properties *)

LimiterTypeOK ==
  /\ now \in 0 .. MaxTime
  /\ bucket \in [Clients -> Buckets \union {NoBucket}]
  /\ \A c \in Clients : bucket[c].startedAt <= now
  /\ evicted \subseteq Clients

\* "a stream of spoofed client keys cannot exhaust memory": however many clients
\* call, no more than maxBuckets are remembered.
BucketsAreCapped == Cardinality(Tracked(bucket)) <= MaxBuckets
=============================================================================
