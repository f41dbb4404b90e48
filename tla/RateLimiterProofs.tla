-------------------------- MODULE RateLimiterProofs --------------------------
(***************************************************************************)
(* What IpRateLimiter guarantees for any number of clients, any rate, burst *)
(* and cache size, over any length of time.                                 *)
(***************************************************************************)
EXTENDS RateLimiter, TLAPS

\* The derived parameters of IpRateLimiter::new are naturals, a token takes at
\* least one tick, and a full bucket is its tolerance plus one token.
LEMMA QuotaFacts ==
    /\ Rps \in Nat \ {0} /\ Burst \in Nat \ {0}
    /\ Interval \in Nat \ {0}
    /\ Ttl \in Nat \ {0}
    /\ Tolerance \in Nat /\ Full \in Nat /\ Full = Tolerance + Interval
<1>1. Rps \in Nat \ {0} /\ Burst \in Nat \ {0} /\ Interval \in Nat \ {0}
    BY RateAssumption DEF Rps, Burst
<1>2. Ttl \in Nat \ {0}
    <2>1. Larger(ttl_secs, 1) \in Nat \ {0}
        BY RateAssumption DEF Larger
    <2> HIDE DEF Larger
    <2>2. ASSUME NEW a \in Nat \ {0}, NEW b \in Nat \ {0} PROVE a * b \in Nat \ {0}
        BY <2>2, SMT
    <2> QED BY <2>1, <2>2, RateAssumption DEF Ttl
<1>3. Tolerance \in Nat /\ Full \in Nat /\ Full = Tolerance + Interval
    <2>1. ASSUME NEW i \in Nat, NEW b \in Nat \ {0}
          PROVE i * (b - 1) \in Nat /\ i * b \in Nat /\ i * b = i * (b - 1) + i
        BY <2>1, SMT
    <2> HIDE DEF Interval, Burst
    <2> QED BY <1>1, <2>1 DEF Tolerance, Full
<1> QED BY <1>1, <1>2, <1>3

\* Rounding up: t times the quotient of w + t - 1 is no less than w.
LEMMA RoundingUp ==
    ASSUME NEW w \in Int, NEW t \in Nat \ {0}
    PROVE  LET q == (w + t - 1) \div t IN q \in Int /\ w <= t * q
<1> DEFINE n == w + t - 1
           q == n \div t
<1>1. n \in Int /\ q \in Int
    OBVIOUS
<1>2. n < t * q + t
    BY <1>1, SMT
<1> QED BY <1>1, <1>2, SMT

\* The bucket check() works on, and the wait it announces, in a typed state.
LEMMA TatType ==
    ASSUME TypeOK, NEW c \in IP
    PROVE  /\ Tat(c) \in Nat
           /\ RetryAfterSecs(c) \in Nat
           /\ Tat(c) - Tolerance <= now + TicksPerSec * RetryAfterSecs(c)
<1> DEFINE w == Tat(c) - Tolerance - now
           q == (w + TicksPerSec - 1) \div TicksPerSec
<1>1. Tat(c) \in Nat /\ now \in Nat /\ w \in Int /\ TicksPerSec \in Nat \ {0}
    BY QuotaFacts, RateAssumption DEF TypeOK, Tat
<1>2. q \in Int /\ w <= TicksPerSec * q
    BY <1>1, RoundingUp
<1>3. RetryAfterSecs(c) = Larger(1, q)
    BY DEF RetryAfterSecs
<1> HIDE DEF q
<1>4. Larger(1, q) \in Nat /\ q <= Larger(1, q)
    BY <1>2 DEF Larger
<1>5. \A k \in Nat : q <= k => TicksPerSec * q <= TicksPerSec * k
    BY <1>1, <1>2, SMT
<1>6. w <= TicksPerSec * Larger(1, q)
    <2>1. TicksPerSec * q \in Int /\ TicksPerSec * Larger(1, q) \in Int
        BY <1>1, <1>2, <1>4
    <2> HIDE DEF w
    <2> QED BY <1>1, <1>2, <1>4, <1>5, <2>1
<1> QED
    <2>1. TicksPerSec * Larger(1, q) \in Int
        BY <1>1, <1>4
    <2> QED BY <1>1, <1>3, <1>4, <1>6, <2>1, QuotaFacts

-----------------------------------------------------------------------------
(* Types. *)

\* The initial state is typed.
LEMMA TypeInit == Init => TypeOK
BY RateAssumption DEF Init, TypeOK

\* Every step of the limiter keeps the types.
LEMMA TypeStep == TypeOK /\ [Next]_vars => TypeOK'
<1> SUFFICES ASSUME TypeOK, [Next]_vars PROVE TypeOK'
    OBVIOUS
<1> USE DEF TypeOK
<1>1. ASSUME NEW c \in IP, Check(c) PROVE TypeOK'
    <2>1. Tat(c) \in Nat /\ RetryAfterSecs(c) \in Nat
        BY TatType
    <2>2. now + TicksPerSec * RetryAfterSecs(c) \in Nat
        BY <2>1, RateAssumption
    <2>3. Larger(Tat(c), now) + Interval \in Nat /\ used[c] + Interval \in Nat
        BY <2>1, QuotaFacts DEF Larger
    <2> HIDE DEF TypeOK
    <2>4. CASE Admits(c)
        BY <1>1, <2>3, <2>4 DEF Check, TypeOK
    <2>5. CASE ~Admits(c)
        BY <1>1, <2>1, <2>2, <2>5 DEF Check, TypeOK
    <2> QED BY <2>4, <2>5
<1>2. CASE RunMaintenance
    BY <1>2 DEF RunMaintenance
<1>3. ASSUME NEW c \in IP, EvictForRoom(c) PROVE TypeOK'
    BY <1>3 DEF EvictForRoom, Observe
<1>4. CASE Tick
    BY <1>4 DEF Tick
<1>5. ASSUME NEW c \in IP, StartWindow(c) PROVE TypeOK'
    BY <1>5 DEF StartWindow, Observe
<1>6. CASE UNCHANGED vars
    BY <1>6 DEF vars
<1> QED BY <1>1, <1>2, <1>3, <1>4, <1>5, <1>6 DEF Next

\* Type correctness of the limiter (IpRateLimiter).
THEOREM TypeCorrect == Spec => []TypeOK
BY TypeInit, TypeStep, PTL DEF Spec

-----------------------------------------------------------------------------
(* Retry-After. *)

\* check() leaves a bucket it just touched in the cache, with the tat it set.
LEMMA TouchedTat ==
    ASSUME TypeOK, TypeOK', NEW c \in IP, Check(c)
    PROVE  /\ Tat(c)' = tat'[c]
           /\ \A d \in IP \ {c} : Tat(d)' = Tat(d)
BY QuotaFacts DEF TypeOK, Check, Tat, Held

\* Maintenance only drops what get_with would not have returned.
LEMMA MaintainedTat ==
    ASSUME RunMaintenance PROVE \A c \in IP : Tat(c)' = Tat(c)
BY DEF RunMaintenance, Tat, Held

\* A bucket dropped for lack of room comes back full; the others stand.
LEMMA EvictedTat ==
    ASSUME NEW c \in IP, EvictForRoom(c)
    PROVE  /\ Tat(c)' = now
           /\ \A d \in IP \ {c} : Tat(d)' = Tat(d)
BY DEF EvictForRoom, Tat, Held

\* Time leaves a bucket alone, lets it expire or finds none.
LEMMA TickedTat ==
    ASSUME TypeOK, Tick, NEW c \in IP
    PROVE  \/ Tat(c)' = Tat(c)
           \/ Tat(c)' = now + 1 /\ Tat(c) = now
           \/ Tat(c)' = now + 1 /\ c \in held /\ seen[c] + Ttl <= now + 1
BY QuotaFacts DEF TypeOK, Tick, Tat, Held

\* Every step keeps announced times late enough.
LEMMA PromiseStep ==
    ASSUME TypeOK, TypeOK', PromiseCovered, [Next]_vars
    PROVE  PromiseCovered'
<1> USE QuotaFacts
<1> HIDE DEF TypeOK
<1>0. \A c \in IP : Tat(c) \in Nat
    BY TatType
<1>1. ASSUME NEW c \in IP, Check(c) PROVE PromiseCovered'
    <2>1. now' = now /\ \A d \in IP \ {c} : promise'[d] = promise[d]
        BY <1>1 DEF Check, TypeOK
    <2>2. \A p \in promise'[c] : Tat(c)' <= p + Tolerance \/ Tat(c)' <= now + Tolerance
        <3>1. CASE Admits(c)
            BY <1>1, <3>1 DEF Check, TypeOK
        <3>2. CASE ~Admits(c)
            <4>1. Tat(c)' = Tat(c)
                BY <1>1, <3>2, TouchedTat DEF Check, TypeOK
            <4>2. promise'[c] = promise[c] \cup {now + TicksPerSec * RetryAfterSecs(c)}
                BY <1>1, <3>2 DEF Check, TypeOK
            <4>3. /\ TicksPerSec * RetryAfterSecs(c) \in Nat
                  /\ Tat(c) - Tolerance <= now + TicksPerSec * RetryAfterSecs(c)
                BY TatType, RateAssumption
            <4>4. now \in Nat
                BY DEF TypeOK
            <4>5. Tat(c) <= now + TicksPerSec * RetryAfterSecs(c) + Tolerance
                BY <1>0, <4>3, <4>4
            <4> QED BY <4>1, <4>2, <4>5 DEF PromiseCovered
        <3> QED BY <3>1, <3>2
    <2> QED BY <1>1, <2>1, <2>2, TouchedTat DEF PromiseCovered
<1>2. CASE RunMaintenance
    BY <1>2, MaintainedTat DEF RunMaintenance, PromiseCovered
<1>3. ASSUME NEW c \in IP, EvictForRoom(c) PROVE PromiseCovered'
    <2>1. now \in Nat /\ now' = now /\ promise' = promise
        BY <1>3 DEF EvictForRoom, TypeOK
    <2> QED BY <1>3, <2>1, EvictedTat DEF PromiseCovered
<1>4. CASE Tick
    <2>1. now \in Nat /\ now' = now + 1 /\ promise' = promise
        BY <1>4 DEF Tick, TypeOK
    <2>2. promise \in [IP -> SUBSET Nat]
        BY DEF TypeOK
    <2>3. SUFFICES ASSUME NEW c \in IP, NEW p \in promise[c]
          PROVE Tat(c)' <= p + Tolerance \/ Tat(c)' <= now + 1 + Tolerance
        BY <2>1 DEF PromiseCovered
    <2>4. p \in Nat /\ Tat(c) \in Nat
        BY <1>0, <2>2
    <2>5. Tat(c) <= p + Tolerance \/ Tat(c) <= now + Tolerance
        BY DEF PromiseCovered
    <2>6. Tat(c)' = Tat(c) \/ Tat(c)' = now + 1
        BY <1>4, TickedTat
    <2> QED BY <2>1, <2>4, <2>5, <2>6
<1>5. ASSUME NEW c \in IP, StartWindow(c) PROVE PromiseCovered'
    BY <1>5 DEF StartWindow, PromiseCovered, Tat, Held
<1>6. CASE UNCHANGED vars
    BY <1>6 DEF vars, PromiseCovered, Tat, Held
<1> QED BY <1>1, <1>2, <1>3, <1>4, <1>5, <1>6 DEF Next

\* Retry-After is honest for every rate, burst, time-to-idle and cache size: a
\* client that waits as told is admitted (the Err arm of IpRateLimiter::check).
THEOREM RetryAfterHonest == Spec => []RetryHonoured
<1>1. Init => PromiseCovered
    BY DEF Init, PromiseCovered
<1>2. TypeOK /\ PromiseCovered => RetryHonoured
    <2> SUFFICES ASSUME TypeOK, PromiseCovered, NEW c \in IP, NEW p \in promise[c], now >= p
                 PROVE Admits(c)
        BY DEF RetryHonoured
    <2>1. now \in Nat /\ p \in Nat
        BY DEF TypeOK
    <2>2. Tat(c) \in Nat
        BY TatType
    <2>3. Tat(c) <= p + Tolerance \/ Tat(c) <= now + Tolerance
        BY DEF PromiseCovered
    <2> QED BY <2>1, <2>2, <2>3, QuotaFacts DEF Admits
<1>3. TypeOK /\ TypeOK' /\ PromiseCovered /\ [Next]_vars => PromiseCovered'
    BY PromiseStep
<1> QED BY <1>1, <1>2, <1>3, TypeCorrect, PTL DEF Spec

-----------------------------------------------------------------------------
(* The sustained rate. *)

\* check() never lets a bucket run further ahead than one full bucket.
LEMMA BoundedStep ==
    ASSUME TypeOK, TypeOK', Bounded, [Next]_vars
    PROVE  Bounded'
<1> USE QuotaFacts
<1> HIDE DEF TypeOK
<1>1. ASSUME NEW c \in IP, Check(c) PROVE Bounded'
    <2>1. /\ now' = now /\ since' = since /\ now \in Nat
          /\ seen'[c] = now /\ held' = held \cup {c}
          /\ \A d \in IP \ {c} : seen'[d] = seen[d] /\ tat'[d] = tat[d]
        BY <1>1 DEF Check, TypeOK
    <2>2. Tat(c) \in Nat
        BY TatType
    <2>3. tat'[c] <= now + Full
        <3>1. CASE Admits(c)
            <4>1. tat'[c] = Larger(Tat(c), now) + Interval
                BY <1>1, <3>1 DEF Check, TypeOK
            <4> QED BY <2>1, <2>2, <3>1, <4>1 DEF Admits, Larger
        <3>2. CASE ~Admits(c)
            <4>1. tat'[c] = Tat(c)
                BY <1>1, <3>2 DEF Check, TypeOK
            <4>2. Tat(c) <= now + Full
                BY DEF Tat, Held, Bounded, TypeOK
            <4> QED BY <4>1, <4>2
        <3> QED BY <3>1, <3>2
    <2> QED BY <2>1, <2>3 DEF Bounded
<1>2. CASE RunMaintenance
    BY <1>2 DEF RunMaintenance, Bounded, Held
<1>3. ASSUME NEW c \in IP, EvictForRoom(c) PROVE Bounded'
    BY <1>3 DEF EvictForRoom, Observe, Bounded, TypeOK
<1>4. CASE Tick
    BY <1>4 DEF Tick, Bounded, TypeOK
<1>5. ASSUME NEW c \in IP, StartWindow(c) PROVE Bounded'
    BY <1>5 DEF StartWindow, Observe, Bounded, TypeOK
<1>6. CASE UNCHANGED vars
    BY <1>6 DEF vars, Bounded
<1> QED BY <1>1, <1>2, <1>3, <1>4, <1>5, <1>6 DEF Next

\* What a window has used stays covered; an idle expiry is where the
\* time-to-idle must be long enough.
LEMMA WindowStep ==
    ASSUME TtlCoversBurst, TypeOK, TypeOK', Bounded, WindowCovered, [Next]_vars
    PROVE  WindowCovered'
<1> USE QuotaFacts
<1> HIDE DEF TypeOK
<1>0. \A c \in IP : Tat(c) \in Nat /\ used[c] \in Nat /\ since[c] \in Nat /\ now \in Nat
    BY TatType DEF TypeOK
<1>1. ASSUME NEW c \in IP, Check(c) PROVE WindowCovered'
    <2>1. /\ now' = now /\ since' = since
          /\ \A d \in IP \ {c} : used'[d] = used[d]
        BY <1>1 DEF Check, TypeOK
    <2>2. used'[c] + since[c] <= Larger(Tat(c)', now)
        <3>1. CASE Admits(c)
            <4>1. /\ Tat(c)' = Larger(Tat(c), now) + Interval
                  /\ used'[c] = used[c] + Interval
                BY <1>1, <3>1, TouchedTat DEF Check, TypeOK
            <4>2. used[c] + since[c] <= Larger(Tat(c), now)
                BY DEF WindowCovered
            <4> QED BY <1>0, <4>1, <4>2 DEF Larger
        <3>2. CASE ~Admits(c)
            <4>1. Tat(c)' = Tat(c) /\ used'[c] = used[c]
                BY <1>1, <3>2, TouchedTat DEF Check, TypeOK
            <4> QED BY <4>1 DEF WindowCovered
        <3> QED BY <3>1, <3>2
    <2> QED BY <1>1, <2>1, <2>2, TouchedTat DEF WindowCovered
<1>2. CASE RunMaintenance
    BY <1>2, MaintainedTat DEF RunMaintenance, WindowCovered
<1>3. ASSUME NEW c \in IP, EvictForRoom(c) PROVE WindowCovered'
    <2>1. /\ now' = now /\ since'[c] = now /\ used'[c] = 0
          /\ \A d \in IP \ {c} : used'[d] = used[d] /\ since'[d] = since[d]
        BY <1>3 DEF EvictForRoom, Observe, TypeOK
    <2>2. Tat(c)' = now /\ \A d \in IP \ {c} : Tat(d)' = Tat(d)
        BY <1>3, EvictedTat
    <2> QED BY <1>0, <2>1, <2>2 DEF WindowCovered, Larger
<1>4. CASE Tick
    <2>1. now' = now + 1 /\ used' = used /\ since' = since
        BY <1>4 DEF Tick
    <2> SUFFICES ASSUME NEW c \in IP PROVE used[c] + since[c] <= Larger(Tat(c)', now + 1)
        BY <2>1 DEF WindowCovered
    <2>2. used[c] + since[c] <= Larger(Tat(c), now)
        BY DEF WindowCovered
    <2>3. CASE Tat(c)' = Tat(c)
        BY <1>0, <2>2, <2>3 DEF Larger
    <2>4. CASE Tat(c)' = now + 1 /\ Tat(c) = now
        BY <1>0, <2>2, <2>4 DEF Larger
    <2>5. CASE Tat(c)' = now + 1 /\ c \in held /\ seen[c] + Ttl <= now + 1
        <3>1. tat[c] <= now + 1 /\ tat[c] \in Nat
            BY <1>0, <2>5 DEF Bounded, TtlCoversBurst, TypeOK
        <3>2. Tat(c) <= now + 1
            BY <1>0, <3>1 DEF Tat
        <3> QED BY <1>0, <2>2, <2>5, <3>2 DEF Larger
    <2> QED BY <1>4, <2>3, <2>4, <2>5, TickedTat
<1>5. ASSUME NEW c \in IP, StartWindow(c) PROVE WindowCovered'
    <2>1. /\ now' = now /\ since'[c] = now /\ used'[c] = 0
          /\ \A d \in IP \ {c} : used'[d] = used[d] /\ since'[d] = since[d]
        BY <1>5 DEF StartWindow, Observe, TypeOK
    <2>2. \A d \in IP : Tat(d)' = Tat(d)
        BY <1>5 DEF StartWindow, Tat, Held
    <2> QED BY <1>0, <2>1, <2>2 DEF WindowCovered, Larger
<1>6. CASE UNCHANGED vars
    BY <1>6 DEF vars, WindowCovered, Tat, Held
<1> QED BY <1>1, <1>2, <1>3, <1>4, <1>5, <1>6 DEF Next

\* The inductive invariant holds whenever the time-to-idle covers the burst
\* (IpRateLimiter with its cache).
THEOREM BucketInvariant ==
    ASSUME TtlCoversBurst PROVE Spec => [](TypeOK /\ BucketInv)
<1>1. Init => TypeOK /\ BucketInv
    BY TypeInit, QuotaFacts DEF Init, BucketInv, Bounded, WindowCovered, PromiseCovered, Larger
<1>2. TypeOK /\ BucketInv /\ [Next]_vars => (TypeOK /\ BucketInv)'
    BY TtlCoversBurst, TypeStep, BoundedStep, WindowStep, PromiseStep DEF BucketInv
<1> QED BY <1>1, <1>2, PTL DEF Spec

\* requests_per_sec is the sustained rate for every client, quota and cache
\* size, provided the time-to-idle covers the burst: over any window without a
\* room eviction, at most the burst plus the refill is admitted (check).
THEOREM RateSustained ==
    ASSUME TtlCoversBurst PROVE Spec => []SustainedRate
<1>1. TypeOK /\ BucketInv => SustainedRate
    <2> SUFFICES ASSUME TypeOK, Bounded, WindowCovered, NEW c \in IP
                 PROVE used[c] <= Full + (now - since[c])
        BY DEF SustainedRate, BucketInv
    <2>1. now \in Nat /\ used[c] \in Nat /\ since[c] \in Nat /\ Tat(c) \in Nat
        BY TatType DEF TypeOK
    <2>2. Tat(c) <= now + Full
        BY QuotaFacts DEF Tat, Held, Bounded, TypeOK
    <2>3. used[c] + since[c] <= Larger(Tat(c), now)
        BY DEF WindowCovered
    <2> QED BY <2>1, <2>2, <2>3, QuotaFacts DEF Larger
<1> QED BY <1>1, BucketInvariant, TtlCoversBurst, PTL

-----------------------------------------------------------------------------
(* Refinement: the limiter implements the token bucket. *)

\* The refinement mapping: what is left of a client's full bucket.
Credit == [c \in IP |-> Full - Ahead(c)]

\* The debt of a bucket is between nothing and a full bucket.
LEMMA AheadType ==
    ASSUME TypeOK, Bounded, NEW c \in IP
    PROVE  /\ now \in Nat /\ Tat(c) \in Nat /\ Ahead(c) \in 0..Full
           /\ Ahead(c) = Larger(Tat(c), now) - now
<1>1. now \in Nat /\ Tat(c) \in Nat
    BY TatType DEF TypeOK
<1>2. Tat(c) <= now + Full
    BY QuotaFacts DEF Tat, Held, Bounded, TypeOK
<1> QED BY <1>1, <1>2, QuotaFacts DEF Ahead, Larger

\* Steps that leave every bucket as it was are stutters of the token bucket.
LEMMA CreditKept ==
    ASSUME now' = now, \A c \in IP : Tat(c)' = Tat(c)
    PROVE  UNCHANGED TB!bucketVars
BY DEF TB!bucketVars, Ahead

\* check() spends one token of its client's bucket, or nothing.
LEMMA SpendStep ==
    ASSUME TypeOK, TypeOK', Bounded, Bounded', NEW c \in IP, Check(c)
    PROVE  TB!Spend(c) \/ UNCHANGED TB!bucketVars
<1>1. now' = now /\ \A d \in IP \ {c} : Tat(d)' = Tat(d)
    BY TouchedTat DEF Check
<1>2. CASE ~Admits(c)
    <2>1. Tat(c)' = Tat(c)
        BY <1>2, TouchedTat DEF Check, TypeOK
    <2> QED BY <1>1, <2>1, CreditKept
<1>3. CASE Admits(c)
    <2>1. Tat(c)' = Larger(Tat(c), now) + Interval
        BY <1>3, TouchedTat DEF Check, TypeOK
    <2>2. Ahead(c)' = Ahead(c) + Interval /\ \A d \in IP \ {c} : Ahead(d)' = Ahead(d)
        BY <1>1, <2>1, AheadType, QuotaFacts DEF Ahead, Larger
    <2>3. Full - Ahead(c) >= Interval
        BY <1>3, AheadType, QuotaFacts DEF Admits, Larger
    <2>4. Full - Ahead(c)' = (Full - Ahead(c)) - Interval
        BY <2>2, AheadType, QuotaFacts
    <2>5. Credit' = [Credit EXCEPT ![c] = @ - Interval]
        BY <2>2, <2>4 DEF Credit
    <2> QED BY <1>1, <2>3, <2>5 DEF TB!Spend, Credit
<1> QED BY <1>2, <1>3

\* A room eviction is the token bucket's Forget.
LEMMA ForgetStep ==
    ASSUME TypeOK, NEW c \in IP, EvictForRoom(c)
    PROVE  TB!Forget(c)
<1>1. now' = now /\ now \in Nat
    BY DEF EvictForRoom, TypeOK
<1>2. Ahead(c)' = 0 /\ \A d \in IP \ {c} : Ahead(d)' = Ahead(d)
    BY <1>1, EvictedTat DEF Ahead
<1>3. Full - Ahead(c)' = Full
    BY <1>2, QuotaFacts
<1>4. Credit' = [Credit EXCEPT ![c] = Full]
    BY <1>2, <1>3 DEF Credit
<1> QED BY <1>1, <1>4 DEF TB!Forget, Credit

\* A tick refills every bucket, the ones that just expired included.
LEMMA PassStep ==
    ASSUME TtlCoversBurst, TypeOK, Bounded, Tick
    PROVE  TB!Pass
<1>1. now' = now + 1 /\ now \in Nat
    BY DEF Tick, TypeOK
<1>2. ASSUME NEW c \in IP PROVE Full - Ahead(c)' = TB!Refill(Full - Ahead(c))
    <2>1. Tat(c) \in Nat /\ Ahead(c) \in 0..Full /\ Ahead(c) = Larger(Tat(c), now) - now
        BY AheadType
    <2>2. Ahead(c)' = IF Ahead(c) = 0 THEN 0 ELSE Ahead(c) - 1
        <3>1. CASE Tat(c)' = Tat(c)
            BY <1>1, <2>1, <3>1 DEF Ahead
        <3>2. CASE Tat(c)' = now + 1 /\ Tat(c) = now
            BY <1>1, <2>1, <3>2 DEF Ahead
        <3>3. CASE Tat(c)' = now + 1 /\ c \in held /\ seen[c] + Ttl <= now + 1
            <4>1. Tat(c) <= now + 1
                BY <1>1, <3>3, QuotaFacts DEF Bounded, TtlCoversBurst, TypeOK, Tat
            <4> QED BY <1>1, <2>1, <3>3, <4>1 DEF Ahead
        <3> QED BY <3>1, <3>2, <3>3, TickedTat
    <2> QED BY <2>1, <2>2, QuotaFacts DEF TB!Refill
<1>3. Credit' = [c \in IP |-> TB!Refill(Credit[c])]
    BY <1>2 DEF Credit
<1> QED BY <1>1, <1>3 DEF TB!Pass, Credit

\* The limiter with its cache, its maintenance and its evictions is a token
\* bucket, for any number of clients and any quota, as long as the time-to-idle
\* covers the burst ("per-client-IP token bucket").
THEOREM LimiterIsTokenBucket ==
    ASSUME TtlCoversBurst PROVE Spec => ImplementsTokenBucket
<1>1. Init => TB!BucketInit
    <2> SUFFICES ASSUME Init PROVE TB!BucketInit
        OBVIOUS
    <2>1. \A c \in IP : Full - Ahead(c) = Full
        BY QuotaFacts DEF Init, Ahead, Tat, Held
    <2> QED BY <2>1 DEF Init, TB!BucketInit
<1>2. (TypeOK /\ BucketInv) /\ (TypeOK /\ BucketInv)' /\ [Next]_vars
        => [TB!BucketNext]_(TB!bucketVars)
    <2> SUFFICES ASSUME TypeOK, TypeOK', Bounded, Bounded', [Next]_vars
                 PROVE  TB!BucketNext \/ UNCHANGED TB!bucketVars
        BY DEF BucketInv
    <2>1. ASSUME NEW c \in IP, Check(c) PROVE TB!BucketNext \/ UNCHANGED TB!bucketVars
        BY <2>1, SpendStep DEF TB!BucketNext
    <2>2. ASSUME NEW c \in IP, EvictForRoom(c) PROVE TB!BucketNext
        BY <2>2, ForgetStep DEF TB!BucketNext
    <2>3. CASE Tick
        BY <2>3, PassStep, TtlCoversBurst DEF TB!BucketNext
    <2>4. CASE RunMaintenance
        BY <2>4, MaintainedTat, CreditKept DEF RunMaintenance
    <2>5. ASSUME NEW c \in IP, StartWindow(c) PROVE UNCHANGED TB!bucketVars
        <3>1. now' = now /\ \A d \in IP : Tat(d)' = Tat(d)
            BY <2>5 DEF StartWindow, Tat, Held
        <3> QED BY <3>1, CreditKept
    <2>6. CASE UNCHANGED vars
        <3>1. now' = now /\ \A d \in IP : Tat(d)' = Tat(d)
            BY <2>6 DEF vars, Tat, Held
        <3> QED BY <3>1, CreditKept
    <2> QED BY <2>1, <2>2, <2>3, <2>4, <2>5, <2>6 DEF Next
<1> QED BY <1>1, <1>2, BucketInvariant, TtlCoversBurst, PTL
        DEF Spec, ImplementsTokenBucket, TB!BucketSpec
=============================================================================
