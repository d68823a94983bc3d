SPECIFICATION FairSpec
CONSTANTS
    oneShot = oneShot
    checkpoint = checkpoint
    report = report
    Tasks <- MCTasks
    Recurring <- MCRecurring
    Interval <- MCInterval
    PollInterval = 2
    MaxDelay = 3
    Nothing = Nothing
INVARIANT NoOversleep
INVARIANT NoDueTaskIsLeft
PROPERTY AcceptedTasksRun
PROPERTY SchedulerEnds
