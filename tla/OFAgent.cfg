CONSTANTS
    ld1 = ld1
    ld2 = ld2
    Ids = {ld1, ld2}
    Dp <- MCDp
    Agents = {ag1, ag2}
    Hello = Hello
    None = None
    Requests = {q1, q2}
    MaxConns = 2
    MaxInputs = 3
SPECIFICATION FairSpec
INVARIANTS MapsAgree OneConnection AnsweredOnce EventsOfOwnDevice
PROPERTIES AgentsFollow Reconnects StoppedIsQuiet WorkedOff
CHECK_DEADLOCK FALSE
