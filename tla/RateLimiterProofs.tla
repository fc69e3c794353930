-------------------------- MODULE RateLimiterProofs ---------------------------
(***************************************************************************)
(* Forgetting idle buckets is invisible: for every burst, refill, ceiling, *)
(* sample and number of clients, the limiter of ratelimit.go implements    *)
(* the one that remembers everybody.                                       *)
(***************************************************************************)
EXTENDS RateLimiter, FiniteSetTheorems, TLAPS

\* A request reaches the mutex at most MaxDelay after it read the clock.
Pending ==
    \A w \in Worker :
        key[w] # None => now[w] <= clock /\ clock <= now[w] + MaxDelay

\* A bucket holds what the ideal allowance says, whatever order the readings
\* came in.
Kept ==
    \A k \in present :
        /\ fullAt[k] = last[k] + Capacity - tokens[k]
        /\ fullAt[k] <= last[k] + Capacity + MaxDelay

\* The allowance of a client without a bucket was full before any reading that
\* is still on its way.
Gone ==
    \A k \in Key \ present : fullAt[k] = 0 \/ fullAt[k] + MaxDelay <= clock

Horizon == \A k \in Key : fullAt[k] <= clock + Capacity

Inv ==
    /\ TypeOK
    /\ clock <= MaxClock
    /\ Pending
    /\ Kept
    /\ Gone
    /\ Horizon

\* What allow finds after reap: a bucket reap kept, or a full allowance.
LEMMA AfterReap ==
    ASSUME Inv, NEW w \in Worker, key[w] # None, NEW S \in SUBSET present,
           NEW k \in Key, k \notin present \ (S \cap Expired(now[w]))
    PROVE  fullAt[k] = 0 \/ fullAt[k] + MaxDelay <= clock
<1>1. CASE k \notin present
  BY <1>1 DEF Inv, Gone
<1>2. CASE k \in present
  <2>1. now[w] - last[k] > IdleTTL
    BY <1>2 DEF Expired
  <2>2. fullAt[k] <= last[k] + Capacity + MaxDelay /\ now[w] <= clock
    BY <1>2 DEF Inv, Kept, Pending
  <2>3. fullAt[k] \in Nat /\ last[k] \in Nat /\ now[w] \in Nat /\ clock \in Nat
    BY DEF Inv, TypeOK
  <2> QED
    BY <2>1, <2>2, <2>3, LimiterAssumption, IdleAssumption
<1> QED
  BY <1>1, <1>2

\* The level of a bucket that was kept, in terms of the ideal allowance.
LEMMA Level ==
    ASSUME Inv, NEW w \in Worker, key[w] # None, key[w] \in present
    PROVE  /\ Refilled(w) = now[w] + Capacity
                              - Ideal!Later(fullAt[key[w]], now[w])
           /\ Refilled(w) \in Int /\ Refilled(w) <= Capacity
<1>1. fullAt[key[w]] = last[key[w]] + Capacity - tokens[key[w]]
  BY DEF Inv, Kept
<1>2. /\ fullAt[key[w]] \in Nat /\ last[key[w]] \in Nat
      /\ now[w] \in Nat /\ tokens[key[w]] \in Int
  BY DEF Inv, TypeOK
<1> QED
  BY <1>1, <1>2, LimiterAssumption DEF Refilled, Ideal!Later

\* No bucket exists at the start.
LEMMA InitInv == Init => Inv
  BY LimiterAssumption, KeyAssumption
  DEF Init, Inv, TypeOK, Pending, Kept, Gone, Horizon

\* The shape all four outcomes of allow share, with what each does to the bucket
\* and the allowance of its own key: preserved is stated once for all of them.
LEMMA Outcome ==
    ASSUME Inv, NEW w \in Worker, key[w] # None, NEW S \in SUBSET present,
           NEW r \in {"admit", "deny", "shed"}, Answer(w, r),
           NEW kept, kept = present \ (S \cap Expired(now[w])),
           NEW k, k = key[w],
           present' \in {kept, kept \cup {k}}, present' \subseteq Key,
           NEW level \in Int, level <= Capacity,
           NEW full \in Nat, full <= clock + Capacity,
           k \in present' =>
              /\ tokens' = [tokens EXCEPT ![k] = level]
              /\ last' = [last EXCEPT ![k] = now[w]]
              /\ fullAt' = [fullAt EXCEPT ![k] = full]
              /\ full = now[w] + Capacity - level,
           k \notin present' =>
              UNCHANGED <<tokens, last, fullAt>>
    PROVE  Inv'
<1>0. /\ k \in Key /\ now[w] \in Nat /\ clock \in Nat /\ clock' = clock
      /\ tokens \in [Key -> {n \in Int : n <= Capacity}]
      /\ last \in [Key -> Nat] /\ fullAt \in [Key -> Nat]
      /\ now[w] <= clock /\ clock <= now[w] + MaxDelay
  BY DEF Inv, TypeOK, Pending, Answer
<1>1. TypeOK'
  <2>1. /\ tokens' \in [Key -> {n \in Int : n <= Capacity}]
        /\ last' \in [Key -> Nat] /\ fullAt' \in [Key -> Nat]
    BY <1>0
  <2>2. now' \in [Worker -> Nat] /\ key' \in [Worker -> Key \cup {None}]
    BY DEF Answer, Inv, TypeOK
  <2> QED
    BY <2>1, <2>2, <1>0 DEF TypeOK, Answer
<1>2. (clock <= MaxClock)' /\ Pending'
  BY <1>0 DEF Inv, TypeOK, Pending, Answer
<1>3. Kept'
  <2> SUFFICES ASSUME NEW j \in present'
               PROVE  /\ fullAt'[j] = last'[j] + Capacity - tokens'[j]
                      /\ fullAt'[j] <= last'[j] + Capacity + MaxDelay
    BY DEF Kept
  <2>1. CASE j = k
    BY <1>0, <2>1, LimiterAssumption
  <2>2. CASE j # k
    <3>1. j \in present /\ j \in Key
      BY <2>2
    <3>2. fullAt'[j] = fullAt[j] /\ last'[j] = last[j] /\ tokens'[j] = tokens[j]
      BY <1>0, <2>2, <3>1
    <3> QED
      BY <3>1, <3>2 DEF Inv, Kept
  <2> QED
    BY <2>1, <2>2
<1>4. Gone'
  <2> SUFFICES ASSUME NEW j \in Key \ present'
               PROVE  fullAt'[j] = 0 \/ fullAt'[j] + MaxDelay <= clock
    BY <1>0 DEF Gone
  <2>1. fullAt'[j] = fullAt[j]
    BY <1>0
  <2>2. j \notin present \ (S \cap Expired(now[w]))
    OBVIOUS
  <2> QED
    BY <2>1, <2>2, AfterReap
<1>5. Horizon'
  BY <1>0 DEF Horizon, Inv
<1> QED
  BY <1>1, <1>2, <1>3, <1>4, <1>5 DEF Inv

\* Every outcome of allow keeps the invariant and is an answer the ideal
\* limiter could give.
LEMMA AllowStep ==
    ASSUME Inv, NEW w \in Worker, allow(w)
    PROVE  Inv' /\ Ideal!Next
<1>0. /\ key[w] # None /\ key[w] \in Key
      /\ now[w] \in Nat /\ clock \in Nat /\ fullAt[key[w]] \in Nat
      /\ fullAt \in [Key -> Nat] /\ present \subseteq Key
      /\ now[w] <= clock /\ clock <= now[w] + MaxDelay
      /\ fullAt[key[w]] <= clock + Capacity
  BY DEF Inv, TypeOK, Pending, Horizon, allow
<1>1. PICK S \in SUBSET present :
         LET kept == present \ (S \cap Expired(now[w])) IN
         NewBucket(w, kept) \/ MapFull(w, kept) \/ Spend(w, kept) \/ Empty(w, kept)
  BY DEF allow, Samples
<1> DEFINE kept == present \ (S \cap Expired(now[w]))
           k == key[w]
           full == Ideal!Later(fullAt[k], now[w]) + Refill
<1>2. Capacity \in Nat /\ Refill \in Nat /\ Refill <= Capacity /\ MaxDelay \in Nat
  BY LimiterAssumption
<1>3. CASE NewBucket(w, kept)
  <2>1. fullAt[k] <= now[w]
    BY <1>0, <1>2, <1>3, AfterReap DEF NewBucket
  <2>2. full = now[w] + Refill
    BY <2>1, <1>0 DEF Ideal!Later
  <2>3. Inv'
    <3>1. /\ Answer(w, "admit") /\ present' = kept \cup {k}
          /\ tokens' = [tokens EXCEPT ![k] = Capacity - Refill]
          /\ last' = [last EXCEPT ![k] = now[w]]
          /\ fullAt' = [fullAt EXCEPT ![k] = full]
      BY <1>3 DEF NewBucket
    <3>2. Capacity - Refill \in Int /\ Capacity - Refill <= Capacity
      BY <1>2
    <3>3. full \in Nat /\ full <= clock + Capacity
          /\ full = now[w] + Capacity - (Capacity - Refill)
      BY <1>0, <1>2, <2>2
    <3> HIDE DEF full, k, kept
    <3>4. k \in Key /\ kept \subseteq present
      BY <1>0 DEF k, kept
    <3>5. k = key[w] /\ kept = present \ (S \cap Expired(now[w]))
      BY DEF k, kept
    <3> QED
      BY <3>1, <3>2, <3>3, <3>4, <3>5, <1>0, Outcome
  <2>4. Ideal!Admit(w)
    BY <1>0, <1>2, <1>3, <2>1, <2>2
    DEF Ideal!Admit, Ideal!Within, Ideal!Later, Ideal!Answer, NewBucket, Answer
  <2> QED
    BY <2>3, <2>4 DEF Ideal!Next
<1>4. CASE MapFull(w, kept)
  <2>1. fullAt[k] <= now[w]
    BY <1>0, <1>2, <1>4, AfterReap DEF MapFull
  <2>2. Inv'
    <3>1. /\ Answer(w, "shed") /\ present' = kept /\ k \notin kept
          /\ UNCHANGED <<tokens, last, fullAt>>
      BY <1>4 DEF MapFull
    <3> QED
      BY <3>1, <1>0, <1>2, Outcome
  <2>3. Ideal!Shed(w)
    BY <1>0, <1>4, <2>1 DEF Ideal!Shed, Ideal!Answer, MapFull, Answer
  <2> QED
    BY <2>2, <2>3 DEF Ideal!Next
<1>5. CASE Spend(w, kept)
  <2>1. /\ Answer(w, "admit") /\ present' = kept /\ k \in kept
        /\ tokens' = [tokens EXCEPT ![k] = Refilled(w) - Refill]
        /\ last' = [last EXCEPT ![k] = now[w]]
        /\ fullAt' = [fullAt EXCEPT ![k] = full]
        /\ Refilled(w) >= Refill
    BY <1>5 DEF Spend
  <2>2. /\ Refilled(w) = now[w] + Capacity - Ideal!Later(fullAt[k], now[w])
        /\ Refilled(w) \in Int /\ Refilled(w) <= Capacity
    BY <1>0, <2>1, Level
  <2>3. Ideal!Later(fullAt[k], now[w]) \in Nat
    BY <1>0 DEF Ideal!Later
  <2>4. /\ full \in Nat /\ full <= now[w] + Capacity
        /\ full = now[w] + Capacity - (Refilled(w) - Refill)
        /\ Refilled(w) - Refill \in Int /\ Refilled(w) - Refill <= Capacity
    BY <1>0, <1>2, <2>1, <2>2, <2>3
  <2>5. Inv'
    <3>1. full <= clock + Capacity
      BY <2>4, <1>0, <1>2
    <3> HIDE DEF full, k, kept
    <3>2. k = key[w] /\ kept = present \ (S \cap Expired(now[w]))
      BY DEF k, kept
    <3>3. kept \subseteq Key
      BY <3>2, <1>0
    <3> QED
      BY <2>1, <2>4, <3>1, <3>2, <3>3, <1>0, Outcome
  <2>6. Ideal!Admit(w)
    BY <1>0, <2>1, <2>4
    DEF Ideal!Admit, Ideal!Within, Ideal!Answer, Answer
  <2> QED
    BY <2>5, <2>6 DEF Ideal!Next
<1>6. CASE Empty(w, kept)
  <2>1. /\ Answer(w, "deny") /\ present' = kept /\ k \in kept
        /\ tokens' = [tokens EXCEPT ![k] = Refilled(w)]
        /\ last' = [last EXCEPT ![k] = now[w]]
        /\ fullAt' = fullAt
        /\ Refilled(w) < Refill
    BY <1>6 DEF Empty
  <2>2. /\ Refilled(w) = now[w] + Capacity - Ideal!Later(fullAt[k], now[w])
        /\ Refilled(w) \in Int /\ Refilled(w) <= Capacity
    BY <1>0, <2>1, Level
  <2>3. fullAt[k] = now[w] + Capacity - Refilled(w)
    BY <1>0, <1>2, <2>1, <2>2 DEF Ideal!Later
  <2>4. Inv'
    <3>1. fullAt' = [fullAt EXCEPT ![k] = fullAt[k]]
      BY <2>1, <1>0
    <3>2. fullAt[k] \in Nat /\ fullAt[k] <= clock + Capacity
      BY <1>0
    <3> HIDE DEF k, kept
    <3>3. k = key[w] /\ kept = present \ (S \cap Expired(now[w]))
      BY DEF k, kept
    <3>4. kept \subseteq Key
      BY <3>3, <1>0
    <3> QED
      BY <2>1, <2>2, <2>3, <3>1, <3>2, <3>3, <3>4, <1>0, Outcome
  <2>5. ~Ideal!Within(w)
    BY <1>0, <1>2, <2>1, <2>2 DEF Ideal!Within, Ideal!Later
  <2>6. Ideal!Deny(w)
    BY <1>0, <2>1, <2>5 DEF Ideal!Deny, Ideal!Answer, Answer
  <2> QED
    BY <2>4, <2>6 DEF Ideal!Next
<1> QED
  BY <1>1, <1>3, <1>4, <1>5, <1>6

\* Every step keeps the invariant, and is a step of the ideal limiter or
\* invisible to it.
LEMMA LimiterStep ==
    ASSUME Inv, [Next]_vars
    PROVE  Inv' /\ [Ideal!Next]_(Ideal!iVars)
<1>1. CASE UNCHANGED vars
  BY <1>1 DEF vars, bucketVars, workVars, histVars, Inv, TypeOK, Pending, Kept,
              Gone, Horizon, Ideal!iVars
<1>2. CASE Tick
  <2>1. Inv'
    BY <1>2, LimiterAssumption
    DEF Tick, bucketVars, workVars, histVars, Inv, TypeOK, Pending, Kept, Gone,
        Horizon
  <2> QED
    BY <2>1, <1>2 DEF Tick, workVars, histVars, Ideal!iVars
<1>3. ASSUME NEW w \in Worker, NEW k \in Key, Arrive(w, k)
      PROVE  Inv' /\ Ideal!Next
  <2>1. Inv'
    BY <1>3, LimiterAssumption, KeyAssumption
    DEF Arrive, bucketVars, histVars, Inv, TypeOK, Pending, Kept, Gone, Horizon
  <2>2. clock \in 0..MaxClock
    BY LimiterAssumption DEF Inv, TypeOK
  <2>3. Ideal!Ask(w, k, clock)
    BY <1>3 DEF Arrive, histVars, Ideal!Ask
  <2> QED
    BY <2>1, <2>2, <2>3 DEF Ideal!Next
<1> QED
  BY <1>1, <1>2, <1>3, AllowStep DEF Next

\* allow and reap: the levels stay within the burst, and the types hold.
THEOREM TypeCorrect == Spec => []TypeOK
<1>1. Inv => TypeOK
  BY DEF Inv
<1> QED
  BY <1>1, InitInv, LimiterStep, PTL DEF Spec

\* limiterIdleTTL, "dropping it and recreating it later is indistinguishable
\* from keeping it", for every choice of the constants: allow's answers are
\* those of a limiter that never drops a bucket.
THEOREM Forgetting == Spec => Indistinguishable
<1>1. Init => Ideal!Init
  BY DEF Init, Ideal!Init
<1> QED
  BY <1>1, InitInv, LimiterStep, PTL DEF Spec, Ideal!Spec, Indistinguishable

\* The ceiling on the map is checked after reap and under the mutex, so that the
\* map never outgrows limiterMaxBuckets however many requests race for the last
\* slot.
THEOREM Ceiling == Spec => []MapBounded
<1> DEFINE Fits == IsFiniteSet(present) /\ MapBounded
<1>1. Init => Fits
  BY FS_EmptySet, LimiterAssumption DEF Init, MapBounded
<1>2. Fits /\ [Next]_vars => Fits'
  <2> SUFFICES ASSUME Fits, [Next]_vars PROVE Fits'
    OBVIOUS
  <2>1. CASE UNCHANGED present
    BY <2>1 DEF MapBounded
  <2>2. ASSUME NEW w \in Worker, allow(w) PROVE Fits'
    <3>1. PICK S \in SUBSET present :
             LET kept == present \ (S \cap Expired(now[w])) IN
             NewBucket(w, kept) \/ MapFull(w, kept) \/ Spend(w, kept) \/ Empty(w, kept)
      BY <2>2 DEF allow, Samples
    <3> DEFINE kept == present \ (S \cap Expired(now[w]))
    <3>2. IsFiniteSet(kept) /\ Cardinality(kept) <= Cardinality(present)
      BY FS_Subset
    <3>3. /\ Cardinality(kept) \in Nat /\ Cardinality(present) \in Nat
          /\ MaxBuckets \in Nat
      BY <3>2, FS_CardinalityType, LimiterAssumption
    <3>4. CASE NewBucket(w, kept)
      <4>1. /\ present' = kept \cup {key[w]} /\ key[w] \notin kept
            /\ Cardinality(kept) < MaxBuckets
        BY <3>4 DEF NewBucket
      <4>2. /\ IsFiniteSet(present')
            /\ Cardinality(present') = Cardinality(kept) + 1
        BY <3>2, <4>1, FS_AddElement
      <4> QED
        BY <3>3, <4>1, <4>2 DEF MapBounded
    <3>5. CASE MapFull(w, kept) \/ Spend(w, kept) \/ Empty(w, kept)
      <4>1. present' = kept
        BY <3>5 DEF MapFull, Spend, Empty
      <4> QED
        BY <3>2, <3>3, <4>1 DEF MapBounded
    <3> QED
      BY <3>1, <3>4, <3>5
  <2> QED
    BY <2>1, <2>2 DEF Next, Tick, Arrive, vars, bucketVars
<1> QED
  BY <1>1, <1>2, PTL DEF Spec
===============================================================================
