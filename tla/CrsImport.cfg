\* Files of up to three lines of ten kinds, two files, and single rules with every
\* kind of target, operator and transform.
CONSTANTS
    Inputs <- MCInputs
    Requests <- MCRequests
    SqliTexts <- MCSqliTexts
    XssTexts <- MCXssTexts
    NumMax = 1000
SPECIFICATION Spec
INVARIANTS
    EachRuleOnce
    MeaningKept
PROPERTIES
    Terminates
CHECK_DEADLOCK FALSE
