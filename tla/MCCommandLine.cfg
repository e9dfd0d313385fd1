SPECIFICATION Spec
CONSTANTS
    Limits <- MCLimits
    Words <- MCWords
    Jobs <- MCJobs
    LookBack = 3
    MaxLength = 4
INVARIANTS
    SentencesAsDefined
    OutputFaithful
PROPERTIES
    Terminates
CHECK_DEADLOCK FALSE
