CONSTANTS
    Protocols <- MCProtocols
    Omitted <- MCOmitted
    Depth = 2
SPECIFICATION Spec
INVARIANTS RoundTrip HeaderTrue
CHECK_DEADLOCK FALSE
