SPECIFICATION NotificationsSpec
CONSTANTS
    job = job
    group = group
    Subjects = {group}
    Groups = {group}
    Batches <- GroupBatch
    Ids = {1, 2}
    Capacities = {2}
    ChannelSize = 2
    MaxClicks = 2
    MaxFailures = 0
    MaxRestarts = 0
INVARIANT ButtonsWork
CHECK_DEADLOCK FALSE
