CONSTANTS
    KeepAliveDuration = 6
    Period = 2
    HandlerTime = 1
    QueuesRead = {2, Unlimited}
    Unlimited = Unlimited
    Backlog = 4
    Never = Never
    Timeouts = {NoDeadline, 2}
    NoDeadline = NoDeadline
    MaxAnswers = 2
SPECIFICATION Spec
INVARIANTS
    LiveServerIsKept
    PingIsHonest
PROPERTIES
    SilentServerEndsGame
    PingReturns
CHECK_DEADLOCK FALSE
