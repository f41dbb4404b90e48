----------------------------- MODULE TokenBucket -----------------------------
(***************************************************************************)
(* The per-client token bucket the documentation describes: a bucket of    *)
(* Full ticks of credit that refills by one tick per tick; a request costs  *)
(* Cost and is admitted exactly when the bucket holds it.  A bucket may be  *)
(* forgotten under memory pressure, which refills it.                       *)
(***************************************************************************)
EXTENDS Integers

CONSTANTS Client, Full, Cost

VARIABLES clock, credit

bucketVars == <<clock, credit>>

BucketInit ==
    /\ clock = 0
    /\ credit = [c \in Client |-> Full]

Refill(n) == IF n < Full THEN n + 1 ELSE Full

Pass ==
    /\ clock' = clock + 1
    /\ credit' = [c \in Client |-> Refill(credit[c])]

Spend(c) ==
    /\ credit[c] >= Cost
    /\ credit' = [credit EXCEPT ![c] = @ - Cost]
    /\ UNCHANGED clock

Forget(c) ==
    /\ credit' = [credit EXCEPT ![c] = Full]
    /\ UNCHANGED clock

BucketNext == Pass \/ \E c \in Client : Spend(c) \/ Forget(c)

BucketSpec == BucketInit /\ [][BucketNext]_bucketVars
=============================================================================
