----------------------------- MODULE RateLimiter -----------------------------
(***************************************************************************)
(* IpRateLimiter of budu-ratelimit: governor's GCRA buckets, one per        *)
(* client address, in a moka cache that drops idle ones.  Used by the       *)
(* global rate-limit stage and by every rate_limit rule.                    *)
(*                                                                         *)
(* Time is in ticks, TicksPerSec of them a second, chosen so that the       *)
(* interval between two tokens is a whole number of ticks.  A bucket is its *)
(* theoretical arrival time (tat); the cache remembers when it was last     *)
(* touched.  governor and moka are modelled from how check() uses them.     *)
(***************************************************************************)
EXTENDS Integers, FiniteSets

CONSTANTS
    IP,
    TicksPerSec,
    requests_per_sec, burst, ttl_secs,  \* [ratelimit]
    Capacity,                           \* max_capacity of the cache
    MaxTime                             \* bound: the clock

Larger(a, b) == IF a >= b THEN a ELSE b

\* IpRateLimiter::new: zero falls back to one request a second, a zero burst to
\* the rate, a zero time-to-idle to one second.
Rps == IF requests_per_sec = 0 THEN 1 ELSE requests_per_sec
Burst == IF burst = 0 THEN Rps ELSE burst
\* Fault: ttl_secs is ignored.
TtlFixed == TicksPerSec

Ttl == TicksPerSec * Larger(ttl_secs, 1)

\* Quota::per_second(rps): one token every Interval ticks.
Interval == TicksPerSec \div Rps

\* Fault: one request more than the burst.
ToleranceLoose == Interval * Burst

\* How far tat may lie ahead of now for a request still to be admitted, and
\* after one has been.
Tolerance == Interval * (Burst - 1)
Full == Interval * Burst

ASSUME RateAssumption ==
    /\ TicksPerSec \in Nat \ {0}
    /\ requests_per_sec \in Nat /\ burst \in Nat /\ ttl_secs \in Nat
    /\ Interval \in Nat \ {0}
    /\ MaxTime \in Nat

VARIABLES
    now,
    tat, seen,      \* per client: the bucket, and when the cache last saw it
    held,           \* the clients whose bucket is in the cache
    promise,        \* the times told to a throttled client (Retry-After), not yet served
    since, used     \* per client: an observation window and the credit admitted in it

vars == <<now, tat, seen, held, promise, since, used>>

Init ==
    /\ now = 0
    /\ tat = [c \in IP |-> 0]
    /\ seen = [c \in IP |-> 0]
    /\ held = {}
    /\ promise = [c \in IP |-> {}]
    /\ since = [c \in IP |-> 0]
    /\ used = [c \in IP |-> 0]

\* get_with finds the bucket unless it has idled for the time-to-idle.
Held(c) == c \in held /\ now < seen[c] + Ttl

\* The bucket check() works on: the cached one, or a new one, which starts full.
Tat(c) == IF Held(c) THEN tat[c] ELSE now

Admits(c) == Tat(c) <= now + Tolerance

\* Fault: the wait is rounded down.
RetryAfterSecsFloor(c) == (Tat(c) - Tolerance - now) \div TicksPerSec

\* wait_time_from, in whole seconds rounded up, at least one.
RetryAfterSecs(c) ==
    Larger(1, (Tat(c) - Tolerance - now + TicksPerSec - 1) \div TicksPerSec)

\* get_with inserts or touches the entry, then limiter.check() moves tat.
Check(c) ==
    /\ held' = held \cup {c}
    /\ seen' = [seen EXCEPT ![c] = now]
    /\ \/ /\ Admits(c)
          /\ tat' = [tat EXCEPT ![c] = Larger(Tat(c), now) + Interval]
          /\ used' = [used EXCEPT ![c] = @ + Interval]
          /\ promise' = [promise EXCEPT ![c] = {}]
       \/ /\ ~Admits(c)
          /\ tat' = [tat EXCEPT ![c] = Tat(c)]
          /\ promise' = [promise EXCEPT ![c] = @ \cup {now + TicksPerSec * RetryAfterSecs(c)}]
          /\ UNCHANGED used
    /\ UNCHANGED <<now, since>>

\* Fault: maintenance drops every bucket.
RunMaintenanceAll ==
    /\ held' = {}
    /\ UNCHANGED <<now, tat, seen, promise, since, used>>

\* run_maintenance: moka drops what has idled too long.
RunMaintenance ==
    /\ held' = {c \in held : Held(c)}
    /\ UNCHANGED <<now, tat, seen, promise, since, used>>

\* Observation only: any moment may start the window a rate is measured over.
Observe(c) ==
    /\ since' = [since EXCEPT ![c] = now]
    /\ used' = [used EXCEPT ![c] = 0]

\* moka drops an entry, new or old, when there are too many: the client's next
\* bucket is a full one, and no window spans the loss.
EvictForRoom(c) ==
    /\ c \in held /\ Cardinality(held) > Capacity
    /\ held' = held \ {c}
    /\ Observe(c)
    /\ UNCHANGED <<now, tat, seen, promise>>

Tick ==
    /\ now < MaxTime
    /\ now' = now + 1
    /\ UNCHANGED <<tat, seen, held, promise, since, used>>

StartWindow(c) == Observe(c) /\ UNCHANGED <<now, tat, seen, held, promise>>

Next ==
    \/ RunMaintenance \/ Tick
    \/ \E c \in IP : Check(c) \/ EvictForRoom(c) \/ StartWindow(c)

Spec == Init /\ [][Next]_vars

-----------------------------------------------------------------------------
(* Properties. *)

\* Every variable of the limiter keeps its type.
TypeOK ==
    /\ now \in Nat /\ since \in [IP -> Nat]
    /\ tat \in [IP -> Nat] /\ seen \in [IP -> Nat]
    /\ held \subseteq IP
    /\ promise \in [IP -> SUBSET Nat]
    /\ used \in [IP -> Nat]

\* The time-to-idle is long enough for an idle bucket to have refilled.
TtlCoversBurst == Full <= Ttl

\* requests_per_sec is the sustained rate: in any window a client is admitted no
\* more than the burst plus what the window's length refills, as long as its
\* bucket is not dropped for lack of room and the time-to-idle covers a burst, as
\* TtlCoversBurst says ("Sustained rate per IP", IpRateLimiter::check).
SustainedRate ==
    \A c \in IP : used[c] <= Full + (now - since[c])

\* Retry-After tells the truth: a throttled client that waits as told is
\* admitted, unless it used the budget in between (the Err arm of check).
RetryHonoured ==
    \A c \in IP : \A p \in promise[c] : now >= p => Admits(c)

\* The cache's view: nothing lies in the future, and a bucket is never further
\* ahead of its last touch than one full bucket.
Bounded ==
    \A c \in IP :
        /\ since[c] <= now /\ seen[c] <= now
        /\ c \in held => tat[c] <= seen[c] + Full

\* The window's use is covered by how far the bucket has moved since.
WindowCovered == \A c \in IP : used[c] + since[c] <= Larger(Tat(c), now)

\* Every announced time is late enough for the bucket as it stands.
PromiseCovered ==
    \A c \in IP : \A p \in promise[c] :
        Tat(c) <= p + Tolerance \/ Tat(c) <= now + Tolerance

\* The inductive invariant behind SustainedRate and RetryHonoured: idle expiry,
\* maintenance and eviction never lose track of credit already spent (check,
\* run_maintenance).
BucketInv == Bounded /\ WindowCovered /\ PromiseCovered

Ahead(c) == IF Tat(c) > now THEN Tat(c) - now ELSE 0

TB == INSTANCE TokenBucket
        WITH Client <- IP, Cost <- Interval, clock <- now,
             credit <- [c \in IP |-> Full - Ahead(c)]

\* The limiter, cache and all, is the token bucket the documentation describes
\* ("Global per-client-IP token bucket", IpRateLimiter as a whole).
ImplementsTokenBucket == TB!BucketSpec
=============================================================================
