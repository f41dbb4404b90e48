\* Every parameter of up to two bytes in every encoding, rules on the time, the
\* day, counters, cookies and the head, and definitions that do not compile.
CONSTANTS
    Cases <- MCCases
    DefaultTz = 480
    Zones <- MCZones
    NumMax = 20000
SPECIFICATION Spec
INVARIANTS
    ArgsAsMeant
    HaystackCanonical
    ScanExact
    VerdictExplained
PROPERTIES
    CalendarCarries
CHECK_DEADLOCK FALSE
