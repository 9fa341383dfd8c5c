SPECIFICATION FairSpec
CONSTANTS
    Pids <- MCPids
    Orders <- MCOrders
    Uids = {me}
    Me = me
    Images = {tool}
    Protected = {}
    MaxStart = 3
    Grace = 2
    me = me
    tool = tool
PROPERTIES
    RequestsReturn
    KillIsLastResort
CHECK_DEADLOCK FALSE
