SPECIFICATION Spec
CONSTANTS
    Pids <- MCPids
    Orders <- MCOrders
    Uids = {me, root}
    Me = me
    Images = {tool, shell}
    Protected = {shell}
    MaxStart = 3
    Grace = 1
    me = me
    root = root
    tool = tool
    shell = shell
PROPERTIES
    ExecIntoProtectedSurvives
CHECK_DEADLOCK FALSE
