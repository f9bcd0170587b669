SPECIFICATION Spec
CONSTANTS
    Turns = {t1}
    Posts = {}
    Owners = {o1}
    Cards = {c1}
    NoTurn = NoTurn
    NoCard = NoCard
    NoFrame = NoFrame
INVARIANTS
    AcknowledgedIsHonoured
CHECK_DEADLOCK FALSE
