CONSTANTS
    None = None
    Torn = Torn
    Contents = {c1, c2}
    MaxEvidence = 1
    MaxWrites = 5
    MaxFaults = 1
SPECIFICATION Spec
SYMMETRY Symmetry
INVARIANTS
    SealNeverWedged
PROPERTIES
    ExecutedWasReviewed
    OneStatePerDecision
CHECK_DEADLOCK FALSE
