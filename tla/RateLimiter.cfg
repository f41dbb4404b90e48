\* Two clients competing for one place in the cache; one token a second in
\* half-second ticks, burst 2, a time-to-idle that just covers the burst.
CONSTANTS
    IP = {c1, c2}
    TicksPerSec = 2
    requests_per_sec = 1
    burst = 2
    ttl_secs = 2
    Capacity = 1
    MaxTime = 5
SPECIFICATION Spec
INVARIANTS
    BucketInv
    SustainedRate
    RetryHonoured
PROPERTIES
    ImplementsTokenBucket
