SPECIFICATION Spec
CHECK_DEADLOCK FALSE
CONSTANTS
    Participant = {p1, p2}
    Client = {}
INVARIANTS CommittedEverywhere
