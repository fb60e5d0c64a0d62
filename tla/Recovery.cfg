SPECIFICATION Spec
CONSTANTS
    Request = {r1, r2}
    Operator = {o1, o2}
    Absent = Absent
    Damaged = Damaged
CHECK_DEADLOCK FALSE
INVARIANTS
    PublishedWhole
    RunsExplained
    RestoreFaithful
PROPERTIES
    NeverReplaced
