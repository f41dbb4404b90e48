\* Three evaluations of two clients, reloads between a stateful and a scoring
\* rule file and one that does not compile.
CONSTANTS
    Task = {t1, t2, t3}
    IP = {ann, bob}
    Counter <- MCCounter
    Files <- MCFiles
    Facts <- MCFacts
    threshold = 2
    ScoreMax = 2
    CountMax = 2
    MaxTime = 2
SPECIFICATION Spec
SYMMETRY MCSymmetry
INVARIANTS
    VerdictIsReference
    NeverInvented
    CountsExact
    RacesOnlyLose
