SPECIFICATION FairSpec
CONSTANTS
    Sessions = {"s1"}
    Legacy = {}
    Ops = {1}
    MaxInc = 2
PROPERTY Converges
CHECK_DEADLOCK FALSE
