------------------------ MODULE MCOpenFlowConnection ------------------------
\* An instance of OpenFlowConnection: a hello and two requests.  The readers
\* are those of the protocol handler (recv_class(hello), recv_any()) and two
\* that wait for one request (recv_xid()).
EXTENDS OpenFlowConnection

CONSTANTS hello, echo, class1, any1, xid1

MCAccepts ==
    [g \in Gets |-> CASE g = class1 -> {hello}
                      [] g = xid1 -> {echo}
                      [] OTHER -> Messages]

MCLength == [m \in Messages |-> IF m = echo THEN 9 ELSE 8]
=============================================================================
