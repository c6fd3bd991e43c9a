\* Three jobs, of two priorities, with two attempts.
SPECIFICATION Spec
CONSTANTS
    Jobs = {j1, j2, j3}
    MaxAttemptsChoices = {2}
    Priorities = {0, 1}
SYMMETRY JobSymmetry
INVARIANTS
    TypeOK
    IndexesAgree
PROPERTY ImplementsLifecycle
