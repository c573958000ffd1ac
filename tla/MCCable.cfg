SPECIFICATION Spec
CONSTANTS
    uart = uart
    net = net
    A = A
    NoReport = NoReport
    Task = {uart, net}
    Uart = uart
    Kind = {"keyboard"}
    Key = {A}
    CountMod = 2
    Buffered = 1
INVARIANTS
    NoPortLeak
    OneFailurePerReplug
    CountersShowTarget
    TargetShowsLast
PROPERTY
    WakingReportKept
