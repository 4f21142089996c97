SPECIFICATION Spec
CONSTANTS
    Sessions = {"s1"}
    Legacy = {}
    Ops = {1}
    MaxInc = 2
INVARIANT ClosedStaysClosed
CHECK_DEADLOCK FALSE
