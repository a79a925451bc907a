CONSTANTS
    hello = hello
    echo = echo
    class1 = class1
    any1 = any1
    xid1 = xid1
    None = None
    Messages = {hello, echo}
    Gets = {class1, any1, xid1}
    Accepts <- MCAccepts
    Length <- MCLength
SPECIFICATION FairSpec
INVARIANTS NoMissedMatch NothingLost FirstComeFirstServed
PROPERTIES ImplementsChannel EverythingArrives
CHECK_DEADLOCK FALSE
