------------------------------ MODULE RateLimiter -----------------------------
(***************************************************************************)
(* The token buckets of internal/web/ratelimit.go.                         *)
(*                                                                         *)
(* A worker is one request.  allow reads the clock before it takes the     *)
(* mutex, so readings reach the buckets out of order, at most MaxDelay     *)
(* late; under the mutex allow is one step, with the sample of buckets     *)
(* that reap visits.  A token is Refill time units, so a bucket of burst   *)
(* tokens holds Capacity == Burst * Refill units and gains one per unit of *)
(* time: the code's floating point level without its rounding.             *)
(***************************************************************************)
EXTENDS Integers, FiniteSets

CONSTANTS
    Worker,      \* concurrent requests
    Key,         \* client addresses or networks
    None,
    Burst, Refill, IdleTTL, MaxBuckets, ReapSample,
    MaxDelay,    \* bound on the time from the clock reading to the mutex
    MaxClock     \* bound on the clock, for TLC

Capacity == Burst * Refill

ASSUME LimiterAssumption ==
    /\ Burst \in Nat \ {0} /\ Refill \in Nat \ {0} /\ Capacity \in Nat
    /\ Refill <= Capacity
    /\ MaxBuckets \in Nat
    /\ MaxDelay \in Nat /\ IdleTTL \in Nat /\ MaxClock \in Nat

\* An idle bucket is full again, with time to spare, before reap may drop it:
\* limiterIdleTTL is ten minutes and the longest refill 200 seconds.
ASSUME IdleAssumption == IdleTTL >= Capacity + 2 * MaxDelay

ASSUME KeyAssumption == None \notin Key

VARIABLES
    clock,
    present,     \* keys in l.buckets
    tokens,      \* b.tokens, in time units
    last,        \* b.last
    now,         \* each worker's reading of the clock
    key,         \* each worker's key, None when it has no request

\* History: kept for the properties.
    fullAt,      \* the ideal allowance of each key
    reply        \* the last answer

bucketVars == <<present, tokens, last>>
workVars   == <<now, key>>
histVars   == <<fullAt, reply>>
vars       == <<clock, bucketVars, workVars, histVars>>

Ideal == INSTANCE IdealLimiter WITH Cost <- Refill, Time <- 0..MaxClock

TypeOK ==
    /\ clock \in Nat
    /\ present \subseteq Key
    /\ tokens \in [Key -> {n \in Int : n <= Capacity}]
    /\ last \in [Key -> Nat]
    /\ now \in [Worker -> Nat]
    /\ key \in [Worker -> Key \cup {None}]
    /\ fullAt \in [Key -> Nat]
    /\ reply \in {"none", "admit", "deny", "shed"}

Init ==
    /\ clock = 0
    /\ present = {}
    /\ tokens = [k \in Key |-> 0]
    /\ last = [k \in Key |-> 0]
    /\ now = [w \in Worker |-> 0]
    /\ key = [w \in Worker |-> None]
    /\ fullAt = [k \in Key |-> 0]
    /\ reply = "none"

Tick ==
    /\ clock < MaxClock
    /\ \A w \in Worker : key[w] # None => clock < now[w] + MaxDelay
    /\ clock' = clock + 1
    /\ UNCHANGED <<bucketVars, workVars, histVars>>

\* A request arrives, and reads the clock.
Arrive(w, k) ==
    /\ key[w] = None
    /\ key' = [key EXCEPT ![w] = k]
    /\ now' = [now EXCEPT ![w] = clock]
    /\ UNCHANGED <<clock, bucketVars, histVars>>

\* Defect: a bucket is dropped as soon as it is idle at all.
ExpiredEarly(n) == {k \in present : n - last[k] > 0}

Expired(n) == {k \in present : n - last[k] > IdleTTL}

\* Whatever order the map iterates in, reap visits up to ReapSample buckets.
Samples ==
    {S \in SUBSET present :
        Cardinality(S) = IF Cardinality(present) < ReapSample
                         THEN Cardinality(present) ELSE ReapSample}

Answer(w, r) ==
    /\ reply' = r
    /\ key' = [key EXCEPT ![w] = None]
    /\ now' = [now EXCEPT ![w] = 0]
    /\ UNCHANGED clock

\* Defect: a new key always gets a bucket.
NewBucketUnbounded(w, kept) ==
    LET k == key[w] IN
    /\ k \notin kept
    /\ present' = kept \cup {k}
    /\ tokens' = [tokens EXCEPT ![k] = Capacity - Refill]
    /\ last' = [last EXCEPT ![k] = now[w]]
    /\ fullAt' = [fullAt EXCEPT ![k] = Ideal!Later(@, now[w]) + Refill]
    /\ Answer(w, "admit")

\* The key has no bucket left, and the map has room for one.
NewBucket(w, kept) ==
    LET k == key[w] IN
    /\ k \notin kept
    /\ Cardinality(kept) < MaxBuckets
    /\ present' = kept \cup {k}
    /\ tokens' = [tokens EXCEPT ![k] = Capacity - Refill]
    /\ last' = [last EXCEPT ![k] = now[w]]
    /\ fullAt' = [fullAt EXCEPT ![k] = Ideal!Later(@, now[w]) + Refill]
    /\ Answer(w, "admit")

\* Fail closed.
MapFull(w, kept) ==
    /\ key[w] \notin kept
    /\ Cardinality(kept) >= MaxBuckets
    /\ present' = kept
    /\ Answer(w, "shed")
    /\ UNCHANGED <<tokens, last, fullAt>>

\* The level after the time since b.last, which is negative for a late reading.
Refilled(w) ==
    LET level == tokens[key[w]] + (now[w] - last[key[w]])
    IN  IF level < Capacity THEN level ELSE Capacity

Spend(w, kept) ==
    LET k == key[w] IN
    /\ k \in kept
    /\ Refilled(w) >= Refill
    /\ present' = kept
    /\ tokens' = [tokens EXCEPT ![k] = Refilled(w) - Refill]
    /\ last' = [last EXCEPT ![k] = now[w]]
    /\ fullAt' = [fullAt EXCEPT ![k] = Ideal!Later(@, now[w]) + Refill]
    /\ Answer(w, "admit")

Empty(w, kept) ==
    LET k == key[w] IN
    /\ k \in kept
    /\ Refilled(w) < Refill
    /\ present' = kept
    /\ tokens' = [tokens EXCEPT ![k] = Refilled(w)]
    /\ last' = [last EXCEPT ![k] = now[w]]
    /\ Answer(w, "deny")
    /\ UNCHANGED fullAt

\* The body of allow under the mutex: reap, then the bucket of the key.
allow(w) ==
    /\ key[w] # None
    /\ \E S \in Samples :
          LET kept == present \ (S \cap Expired(now[w])) IN
          NewBucket(w, kept) \/ MapFull(w, kept) \/ Spend(w, kept) \/ Empty(w, kept)

Next ==
    \/ \E w \in Worker, k \in Key : Arrive(w, k)
    \/ \E w \in Worker : allow(w)
    \/ Tick

Spec == Init /\ [][Next]_vars
-------------------------------------------------------------------------------
(* Properties.                                                             *)

\* limiterIdleTTL: dropping a bucket and recreating it later is
\* indistinguishable from keeping it.  Every answer is the one an ideal limiter,
\* which never forgets, would give, although readings of the clock arrive out
\* of order; the one exception is a new client when the map is full.
Indistinguishable == Ideal!Spec

\* l.maxBuckets: the map never outgrows its ceiling.
MapBounded == Cardinality(present) <= MaxBuckets
===============================================================================
