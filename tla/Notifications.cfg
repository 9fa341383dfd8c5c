SPECIFICATION NotificationsSpec
CONSTANTS
    job = job
    group = group
    Subjects = {job, group}
    Groups = {group}
    Batches <- MCBatches
    Ids = {1, 2}
    Capacities = {1, 2}
    ChannelSize = 1
    MaxClicks = 3
    MaxFailures = 1
    MaxRestarts = 1
INVARIANTS
    NotificationsTypeOK
    ActsOnShown
    ActsOnce
    BindingIsShown
    BindingsBounded
CHECK_DEADLOCK FALSE
