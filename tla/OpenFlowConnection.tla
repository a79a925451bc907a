------------------------- MODULE OpenFlowConnection -------------------------
(***************************************************************************)
(* ofagent/of_connection.py: the lower half of the OpenFlow protocol.  TCP *)
(* hands over the stream in pieces of any size; dataReceived() cuts it     *)
(* into messages and puts them into a MessageQueue, whose readers are the  *)
(* protocol handler's recv_any(), recv_class() and recv_xid().             *)
(*                                                                         *)
(* A byte is <<m, k>>, the k-th byte of message m.  dataReceived() is a    *)
(* step that takes the bytes and one per iteration of its loop, because    *)
(* the readers that put() fires run between the iterations.                *)
(***************************************************************************)
EXTENDS MessageQueue

CONSTANT Length     \* the length field of each message

HEADER == 8         \* version, type, length and xid

ASSUME LengthAssumption == Length \in [Messages -> Nat \ 0..(HEADER - 1)]

VARIABLES
    sent,           \* messages the controller has written
    wire,           \* bytes under way
    read_buffer,    \* bytes received and not consumed
    parsing,        \* dataReceived() is in its loop
    connected

connVars == <<sent, wire, read_buffer, parsing, connected>>
vars == <<queueVars, connVars>>

Bytes(m) == [k \in 1..Length[m] |-> <<m, k>>]

Init ==
    /\ QueueInit
    /\ sent = <<>> /\ wire = <<>> /\ read_buffer = <<>>
    /\ parsing = FALSE /\ connected = TRUE

\* The controller (external) writes a message.
ControllerSends(m) ==
    /\ connected
    /\ \A i \in 1..Len(sent) : sent[i] # m
    /\ sent' = Append(sent, m)
    /\ wire' = wire \o Bytes(m)
    /\ UNCHANGED <<read_buffer, parsing, connected, queueVars>>

\* Mutant: what was left of the previous piece is overwritten.
DataReceived_DropsRest(n) ==
    /\ connected /\ ~parsing /\ ~resetting
    /\ read_buffer' = SubSeq(wire, 1, n)
    /\ wire' = SubSeq(wire, n + 1, Len(wire))
    /\ parsing' = TRUE
    /\ UNCHANGED <<sent, connected, queueVars>>

\* dataReceived(data), up to its loop: data is put behind the rest.
DataReceived(n) ==
    /\ connected /\ ~parsing /\ ~resetting
    /\ read_buffer' = read_buffer \o SubSeq(wire, 1, n)
    /\ wire' = SubSeq(wire, n + 1, Len(wire))
    /\ parsing' = TRUE
    /\ UNCHANGED <<sent, connected, queueVars>>

\* parse_header() and parse_message().  They raise on bytes that are not a
\* message from its start, which never come from a controller: the loop does
\* not go on from there.
Len_(buf) == Length[buf[1][1]]
Incomplete(buf) == ~(Len(buf) >= HEADER /\ Len_(buf) <= Len(buf))
Whole(buf) ==
    /\ ~Incomplete(buf)
    /\ SubSeq(buf, 1, Len_(buf)) = Bytes(buf[1][1])

Consume(n) == read_buffer' = SubSeq(read_buffer, n + 1, Len(read_buffer))

\* Mutant: messages without a body are skipped.
ParseNext_SkipsBare ==
    /\ parsing /\ ~resetting
    /\ Whole(read_buffer)
    /\ IF Len_(read_buffer) > HEADER THEN Put(read_buffer[1][1])
                                      ELSE UNCHANGED queueVars
    /\ Consume(Len_(read_buffer))
    /\ UNCHANGED <<sent, wire, parsing, connected>>

\* An iteration that finds a whole message puts it.
ParseNext ==
    /\ parsing /\ ~resetting
    /\ Whole(read_buffer)
    /\ Put(read_buffer[1][1])
    /\ Consume(Len_(read_buffer))
    /\ UNCHANGED <<sent, wire, parsing, connected>>

\* The loop ends when a header or the rest of a message is missing.
ParseStops ==
    /\ parsing /\ ~resetting
    /\ Incomplete(read_buffer)
    /\ parsing' = FALSE
    /\ UNCHANGED <<sent, wire, read_buffer, connected, queueVars>>

ConnectionLost ==
    /\ connected /\ ~parsing /\ ~resetting
    /\ connected' = FALSE
    /\ UNCHANGED <<sent, wire, read_buffer, parsing, queueVars>>

\* recv(), recv_any(), recv_xid(), recv_class() differ in the predicate.  The
\* flag they assert is Twisted's Protocol.connected, which makeConnection()
\* sets and nothing clears: a lost connection can still be read.
Recv(g) == Get(g) /\ UNCHANGED connVars

CancelRecv(g) == ~parsing /\ Cancel(g) /\ UNCHANGED connVars

ResetRx == ~parsing /\ ResetBegin /\ UNCHANGED connVars

ResetGoesOn == (ResetErrback \/ ResetEnd) /\ UNCHANGED connVars

Next ==
    \/ \E m \in Messages : ControllerSends(m)
    \/ \E n \in 1..Len(wire) : DataReceived(n)
    \/ ParseNext \/ ParseStops \/ ConnectionLost
    \/ \E g \in Gets : Recv(g) \/ CancelRecv(g)
    \/ ResetRx \/ ResetGoesOn

\* TCP delivers what was written while the connection is up, and a callback
\* that has begun runs to its end.
Fairness ==
    /\ WF_vars(\E n \in 1..Len(wire) : DataReceived(n))
    /\ WF_vars(ParseNext) /\ WF_vars(ParseStops)
    /\ WF_vars(ResetGoesOn)

Spec == Init /\ [][Next]_vars
FairSpec == Spec /\ Fairness

-----------------------------------------------------------------------------

C == INSTANCE Channel WITH received <- arrived, up <- connected

\* Cutting and buffering are invisible: whatever the pieces, dataReceived()
\* puts the controller's messages whole, once, in order and without gaps.
ImplementsChannel == C!Spec

\* Nothing gets stuck in the buffer: while the connection is up, every
\* message the controller has sent is put into the queue.
EverythingArrives ==
    \A m \in Messages :
        (\E i \in 1..Len(sent) : sent[i] = m)
            ~> (~connected \/ \E i \in 1..Len(arrived) : arrived[i] = m)
=============================================================================
