\* Five-bit integers: every strategy overflows within the attempts allowed.
SPECIFICATION Spec
CONSTANTS
    MaxInt = 15
    MaxAttemptsChoices = {0, 1, 2, 7}
    Strategies = {"exponential", "fibonacci", "fixed", "unknown"}
    Bases = {0, 1, 3}
    MaxDelays = {0, 4, 15}
    DefaultBase = 2
    DefaultMaxDelay = 15
    Untils = {3, 8}
    Never = Never
    MaxHook = 1
    MaxNow = 16
INVARIANTS
    AttemptsAgree
    Spaced
    UntilKept
CHECK_DEADLOCK FALSE
