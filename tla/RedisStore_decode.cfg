\* A finished job is retried and read back.
SPECIFICATION Spec
CONSTANTS
    Jobs = {j1}
    MaxAttemptsChoices = {1}
    Priorities = {0}
INVARIANT DocumentsDecode
