------------------------------ MODULE OFAgent -------------------------------
(***************************************************************************)
(* ofagent: the process between VOLTHA and the OpenFlow controller.        *)
(* ConnectionManager polls VOLTHA's logical devices and keeps an Agent for *)
(* each; an Agent keeps a TCP connection to the controller; for every      *)
(* connection an OpenFlowProtocolHandler answers the controller's          *)
(* requests, passing some of them to VOLTHA through GrpcClient, whose      *)
(* calls run in a thread pool; packets and port changes come back on       *)
(* streams and are sent on the agent's present connection.                 *)
(*                                                                         *)
(* A step is a reactor callback, a call executed by VOLTHA, or an event of *)
(* TCP.  Connections deliver whole messages in order (module Channel, which *)
(* OpenFlowConnection implements); their queue rx is that of MessageQueue  *)
(* with its single reader.  Connections are numbered; a number is used     *)
(* again only when the attempt failed.                                     *)
(***************************************************************************)
EXTENDS Naturals, Sequences, Functions

CONSTANTS
    Ids,            \* ids of logical devices
    Dp,             \* and their datapath ids
    Agents,         \* Agent objects, each used once
    Requests,       \* messages of the controller, by their xids
    Hello,          \* its hello message
    MaxConns,       \* successful connections
    MaxInputs,      \* changes, events and requests from outside, losses of
                    \* a connection and stop(), taken together
    None

\* Requests are answered at once (echo, barrier, get_config, role, stats the
\* agent has no data for), answered with what VOLTHA says (features,
\* description, flow, group and port stats), flow and group mods, packets out,
\* only logged (set_config, unknown types), or their handler raises.
Kinds == {"echo", "query", "mod", "packet_out", "ignored", "raises"}

Conns == 1..MaxConns

ASSUME OFAgentAssumption ==
    /\ None \notin Agents \cup Ids \cup Requests
    /\ None \notin [on : Conns, kind : Kinds]
    /\ Hello \notin Requests
    /\ Dp \in [Ids -> Nat \ {0}]
    /\ MaxConns \in Nat /\ MaxInputs \in Nat

VARIABLES
    \* VOLTHA (external)
    devices,        \* ids of the logical devices it lists
    applied,        \* mods and packets in the order of their execution
    \* ConnectionManager
    agent_map,      \* datapath id -> Agent
    device_map,     \* device_id_to_datapath_id_map
    stopped,
    \* Agent
    device_id,      \* None: not created yet
    exiting,
    loop,           \* where keep_connected is
    connector,      \* its present connection, 0: None
    proto_handler,  \* the connection the last handler was made for, 0: None
    \* connections and their protocol handlers
    owner,          \* the agent
    link,
    handler,
    rx,             \* received, not handled
    out,            \* sent to the controller
    \* GrpcClient
    calls,          \* calls in the thread pool
    packet_out_queue,
    \* requests sent so far: their connection and kind
    asked,
    inputs          \* how many there were, see MaxInputs

voltha == <<devices, applied>>
manager == <<agent_map, device_map, stopped>>
agent == <<device_id, exiting, loop, connector, proto_handler>>
wires == <<owner, link, handler, rx, out>>
client == <<calls, packet_out_queue>>
vars == <<voltha, manager, agent, wires, client, asked,
                   inputs>>

Live == {"connecting", "up", "closing"}

\* VOLTHA's lists: the datapath ids on one list are distinct.
Lists == {ds \in SUBSET Ids : \A d, e \in ds : Dp[d] = Dp[e] => d = e}

Init ==
    /\ devices \in Lists /\ applied = <<>>
    /\ agent_map = <<>> /\ device_map = <<>> /\ stopped = FALSE
    /\ device_id = [a \in Agents |-> None]
    /\ exiting = [a \in Agents |-> FALSE]
    /\ loop = [a \in Agents |-> "unborn"]
    /\ connector = [a \in Agents |-> 0]
    /\ proto_handler = [a \in Agents |-> 0]
    /\ owner = [c \in Conns |-> None]
    /\ link = [c \in Conns |-> "none"]
    /\ handler = [c \in Conns |-> "none"]
    /\ rx = [c \in Conns |-> <<>>]
    /\ out = [c \in Conns |-> <<>>]
    /\ calls = {} /\ packet_out_queue = <<>>
    /\ asked = [r \in Requests |-> None]
    /\ inputs = 0

Input == inputs < MaxInputs /\ inputs' = inputs + 1

\* VOLTHA's list changes (it restarts, adapters create logical devices).
VolthaChanges(ds) ==
    /\ Input /\ ds # devices
    /\ devices' = ds
    /\ UNCHANGED <<applied, manager, agent, wires, client, asked>>

-----------------------------------------------------------------------------
(***************************************************************************)
(* ConnectionManager                                                       *)
(***************************************************************************)

\* connector.disconnect() (Twisted): an attempt is given up, a connection is
\* closed, which connectionLost() will report.
Disconnected(l) == CASE l = "connecting" -> "none"
                     [] l = "up" -> "closing"
                     [] OTHER -> l

\* Mutant: stop() only sets the flag.
StopAgents_LeavesConnection(as) ==
    /\ exiting' = [a \in Agents |-> exiting[a] \/ a \in as]
    /\ link' = link

\* Agent.stop() of the agents in as.
StopAgents(as) ==
    /\ exiting' = [a \in Agents |-> exiting[a] \/ a \in as]
    /\ link' = [c \in Conns |->
            IF owner[c] \in as THEN Disconnected(link[c]) ELSE link[c]]

Unborn == {a \in Agents : loop[a] = "unborn"}
Desired == {Dp[d] : d \in devices}
ToAdd == Desired \ DOMAIN agent_map
ToDel == DOMAIN agent_map \ Desired

\* Mutant: delete_agent() leaves the second map alone.
Gone_None == {}

\* What delete_agent() takes out of the second map.
Gone == {device_id[agent_map[p]] : p \in ToDel}

\* Mutant: an empty list is taken for a VOLTHA that is not ready.
Outdated_IgnoresEmpty == Desired # {} /\ Desired # DOMAIN agent_map

\* There is an agent to create or to delete.
Outdated == ToAdd # {} \/ ToDel # {}

\* create_agent() for every datapath id to add, with the device listed for it.
Created == CHOOSE f \in [ToAdd -> Unborn] : IsInjective(f)
Listed(p) == CHOOSE d \in devices : Dp[d] = p
CreatedFor(a) == {p \in ToAdd : Created[p] = a}

\* monitor_logical_devices(): poll and refresh_agent_connections(), with
\* delete_agent() and create_agent().  Polls are seconds apart, so the agents
\* created by the one before have entered keep_connected.
Refresh ==
    /\ ~stopped
    /\ \A a \in Agents : loop[a] # "scheduled"
    /\ Outdated
    /\ StopAgents({agent_map[p] : p \in ToDel})
    /\ \E f \in [ToAdd -> Unborn] : IsInjective(f)
    /\ agent_map' = [p \in Desired |->
            IF p \in ToAdd THEN Created[p] ELSE agent_map[p]]
    /\ device_map' = [d \in (DOMAIN device_map \ Gone)
                              \cup {Listed(p) : p \in ToAdd} |-> Dp[d]]
    /\ device_id' = [a \in Agents |->
            IF CreatedFor(a) = {} THEN device_id[a]
            ELSE Listed(CHOOSE p \in ToAdd : Created[p] = a)]
    /\ loop' = [a \in Agents |->
            IF CreatedFor(a) = {} THEN loop[a] ELSE "scheduled"]
    /\ UNCHANGED <<voltha, stopped, connector, proto_handler,
                   owner, handler, rx, out, client, asked,
                   inputs>>

\* stop(): the agents are stopped one after the other; the first one without
\* a connector raises (its flag is set) and the rest is not reached.  Later
\* polls fail, because the channel is deleted or the process is exiting.
Stop ==
    /\ Input
    /\ ~stopped /\ stopped' = TRUE
    /\ LET mine == {agent_map[p] : p \in DOMAIN agent_map}
           bare == {a \in mine : connector[a] = 0}
       IN \/ bare = {} /\ StopAgents(mine)
          \/ \E a \in bare, before \in SUBSET (mine \ bare) :
                StopAgents(before \cup {a})
    /\ UNCHANGED <<voltha, agent_map, device_map, device_id, loop, connector,
                   proto_handler, owner, handler, rx, out, client, asked>>

\* What reaches the controller: a transport that is down drops it.
Sent(c, m) ==
    out' = IF link[c] = "up" THEN [out EXCEPT ![c] = Append(@, m)] ELSE out

\* Mutant: the agent is looked up by the datapath id VOLTHA has for the device.
Forward_ByDatapath(d) ==
    /\ Input
    /\ IF Dp[d] \in DOMAIN agent_map /\ proto_handler[agent_map[Dp[d]]] # 0
       THEN Sent(proto_handler[agent_map[Dp[d]]], [event |-> d])
       ELSE out' = out
    /\ UNCHANGED <<voltha, manager, agent, owner, link, handler, rx, calls,
                   packet_out_queue, asked>>

\* forward_packet_in() and forward_change_event() of the manager and the
\* agent, for an event of device d taken from the stream.
Forward(d) ==
    /\ Input
    /\ \/ /\ d \in DOMAIN device_map
          /\ LET a == agent_map[device_map[d]] IN
             IF proto_handler[a] # 0 THEN Sent(proto_handler[a], [event |-> d])
                                     ELSE out' = out
       \/ /\ d \notin DOMAIN device_map
          /\ out' = out
    /\ UNCHANGED <<voltha, manager, agent, owner, link, handler, rx, calls,
                   packet_out_queue, asked>>

-----------------------------------------------------------------------------
(***************************************************************************)
(* Agent                                                                   *)
(***************************************************************************)

Free == {c \in Conns : link[c] = "none"}
NextConn(c) == c \in Free /\ \A e \in Free : c <= e

\* keep_connected() at the head of its loop: at first, or after its pause.
KeepConnected(a) ==
    /\ loop[a] \in {"scheduled", "asleep"}
    /\ \/ /\ exiting[a]
          /\ loop' = [loop EXCEPT ![a] = "ended"]
          /\ UNCHANGED <<connector, owner, link>>
       \/ /\ ~exiting[a]
          /\ \E c \in Conns :
                /\ NextConn(c)
                /\ connector' = [connector EXCEPT ![a] = c]
                /\ owner' = [owner EXCEPT ![c] = a]
                /\ link' = [link EXCEPT ![c] = "connecting"]
          /\ loop' = [loop EXCEPT ![a] = "waiting"]
    /\ UNCHANGED <<voltha, manager, device_id, exiting, proto_handler,
                   handler, rx, out, client, asked,
                   inputs>>

\* Mutant: a failed attempt is reported to nobody.
EnterDisconnected_Silent(a) == loop' = loop

\* enter_disconnected(): fires d_disconnected, on which keep_connected waits.
EnterDisconnected(a) ==
    loop' = IF exiting[a] THEN loop ELSE [loop EXCEPT ![a] = "asleep"]

\* clientConnectionFailed().
ConnectFails(c) ==
    /\ link[c] = "connecting"
    /\ link' = [link EXCEPT ![c] = "none"]
    /\ EnterDisconnected(owner[c])
    /\ UNCHANGED <<voltha, manager, device_id, exiting, connector,
                   proto_handler, owner, handler, rx, out, client, asked,
                   inputs>>

\* Mutant: the reconnect loop is woken up on success as well.
Connects_Wakes(c) ==
    /\ link[c] = "connecting"
    /\ link' = [link EXCEPT ![c] = "up"]
    /\ proto_handler' = [proto_handler EXCEPT ![owner[c]] = c]
    /\ handler' = [handler EXCEPT ![c] = "scheduled"]
    /\ loop' = [loop EXCEPT ![owner[c]] = "asleep"]
    /\ UNCHANGED <<voltha, manager, device_id, exiting, connector,
                   owner, rx, out, client, asked,
                   inputs>>

\* protocol() builds connection and handler; enter_connected().
Connects(c) ==
    /\ link[c] = "connecting"
    /\ link' = [link EXCEPT ![c] = "up"]
    /\ proto_handler' = [proto_handler EXCEPT ![owner[c]] = c]
    /\ handler' = [handler EXCEPT ![c] = "scheduled"]
    /\ UNCHANGED <<voltha, manager, device_id, exiting, loop, connector,
                   owner, rx, out, client, asked,
                   inputs>>

\* connectionLost(), by either side or by the network.
ConnectionLost(c) ==
    /\ \/ link[c] = "up" /\ Input
       \/ link[c] = "closing" /\ inputs' = inputs
    /\ link' = [link EXCEPT ![c] = "down"]
    /\ EnterDisconnected(owner[c])
    /\ UNCHANGED <<voltha, manager, device_id, exiting, connector,
                   proto_handler, owner, handler, rx, out, client, asked>>

-----------------------------------------------------------------------------
(***************************************************************************)
(* OpenFlowProtocolHandler and GrpcClient                                  *)
(***************************************************************************)

\* The controller (external) says hello, or sends a request of any kind;
\* dataReceived() queues it.
ReceiveHello(c) ==
    /\ link[c] = "up" /\ handler[c] \in {"scheduled", "hello"}
    /\ \A i \in 1..Len(rx[c]) : rx[c][i] # Hello
    /\ rx' = [rx EXCEPT ![c] = Append(@, Hello)]
    /\ UNCHANGED <<voltha, manager, agent, owner, link, handler, out, client,
                   asked, inputs>>

Receive(c, r, k) ==
    /\ Input
    /\ link[c] = "up" /\ asked[r] = None
    /\ asked' = [asked EXCEPT ![r] = [on |-> c, kind |-> k]]
    /\ rx' = [rx EXCEPT ![c] = Append(@, r)]
    /\ UNCHANGED <<voltha, manager, agent, owner, link, handler, out, client>>

\* start(), up to its first yield.
HandlerStarts(c) ==
    /\ handler[c] = "scheduled"
    /\ handler' = [handler EXCEPT ![c] = "hello"]
    /\ Sent(c, [hello |-> c])
    /\ UNCHANGED <<voltha, manager, agent, owner, link, rx, client, asked,
                   inputs>>

\* The list s after s.pop(i).
Popped(s, i) == [k \in 1..(Len(s) - 1) |-> IF k < i THEN s[k] ELSE s[k + 1]]

\* Mutant: the handler looks at the oldest message only.
TakeHello_HeadOnly(c) ==
    /\ handler[c] = "hello" /\ rx[c] # <<>> /\ Head(rx[c]) = Hello
    /\ rx' = [rx EXCEPT ![c] = Tail(@)]
    /\ handler' = [handler EXCEPT ![c] = "loop"]
    /\ UNCHANGED <<voltha, manager, agent, owner, link, out, client, asked,
                   inputs>>

\* recv_class(hello) returns, whatever came before it; the loop begins.
TakeHello(c) ==
    /\ handler[c] = "hello"
    /\ \E i \in 1..Len(rx[c]) :
        rx[c][i] = Hello /\ rx' = [rx EXCEPT ![c] = Popped(@, i)]
    /\ handler' = [handler EXCEPT ![c] = "loop"]
    /\ UNCHANGED <<voltha, manager, agent, owner, link, out, client, asked,
                   inputs>>

\* What the handler of request r does before it yields or returns.  A query
\* and a mod are deferred to a thread; the loop does not wait for them.  An
\* exception ends the loop, and the connection stays.
Handled(c, r) ==
    LET k == asked[r].kind IN
    \/ /\ k = "echo"
       /\ Sent(c, [reply |-> r])
       /\ UNCHANGED <<calls, packet_out_queue, handler>>
    \/ /\ k \in {"query", "mod"}
       /\ calls' = calls \cup {[req |-> r, done |-> FALSE]}
       /\ UNCHANGED <<out, packet_out_queue, handler>>
    \/ /\ k = "packet_out"
       /\ packet_out_queue' = Append(packet_out_queue, r)
       /\ UNCHANGED <<out, calls, handler>>
    \/ /\ k = "ignored"
       /\ UNCHANGED <<out, calls, packet_out_queue, handler>>
    \/ /\ k = "raises"
       /\ handler' = [handler EXCEPT ![c] = "dead"]
       /\ UNCHANGED <<out, calls, packet_out_queue>>

\* recv_any() returns; the handler of the message's type is called.
HandleNext(c) ==
    /\ handler[c] = "loop" /\ rx[c] # <<>>
    /\ rx' = [rx EXCEPT ![c] = Tail(@)]
    /\ Handled(c, Head(rx[c]))
    /\ UNCHANGED <<voltha, manager, agent, owner, link, asked,
                   inputs>>

\* A thread's call reaches VOLTHA, in any order, and is executed.
Execute(k) ==
    /\ k \in calls /\ ~k.done
    /\ \/ /\ asked[k.req].kind = "mod"
          /\ applied' = Append(applied, k.req)
          /\ calls' = calls \ {k}
       \/ /\ asked[k.req].kind = "query"
          /\ calls' = (calls \ {k}) \cup {[k EXCEPT !.done = TRUE]}
          /\ applied' = applied
    /\ UNCHANGED <<devices, manager, agent, wires, packet_out_queue,
                   asked, inputs>>

\* The call raises: nobody handles the failed deferred.
CallFails(k) ==
    /\ k \in calls /\ ~k.done
    /\ calls' = calls \ {k}
    /\ UNCHANGED <<voltha, manager, agent, wires, packet_out_queue, asked,
                   inputs>>

\* Mutant: the answer goes to the agent's present connection.
Complete_Present(k) ==
    /\ k \in calls /\ k.done
    /\ calls' = calls \ {k}
    /\ Sent(proto_handler[owner[asked[k.req].on]], [reply |-> k.req])
    /\ UNCHANGED <<voltha, manager, agent, owner, link, handler, rx,
                   packet_out_queue, asked,
                   inputs>>

\* The result is back in the reactor: the rest of the query's handler, whose
\* connection is the one the request came on.
Complete(k) ==
    /\ k \in calls /\ k.done
    /\ calls' = calls \ {k}
    /\ Sent(asked[k.req].on, [reply |-> k.req])
    /\ UNCHANGED <<voltha, manager, agent, owner, link, handler, rx,
                   packet_out_queue, asked,
                   inputs>>

\* packet_generator(), in the stream's thread.
StreamPacketOut ==
    /\ packet_out_queue # <<>>
    /\ packet_out_queue' = Tail(packet_out_queue)
    /\ applied' = Append(applied, Head(packet_out_queue))
    /\ UNCHANGED <<devices, manager, agent, wires, calls, asked,
                   inputs>>

-----------------------------------------------------------------------------

ConnStep(c) ==
    \/ ConnectFails(c) \/ Connects(c) \/ ConnectionLost(c)
    \/ HandlerStarts(c) \/ ReceiveHello(c) \/ TakeHello(c) \/ HandleNext(c)
    \/ \E r \in Requests, k \in Kinds : Receive(c, r, k)

Next ==
    \/ \E ds \in Lists : VolthaChanges(ds)
    \/ Refresh \/ Stop
    \/ \E d \in Ids : Forward(d)
    \/ \E a \in Agents : KeepConnected(a)
    \/ \E c \in Conns : ConnStep(c)
    \/ \E k \in calls : Execute(k) \/ CallFails(k) \/ Complete(k)
    \/ StreamPacketOut

\* What the process does of itself once it is connected or told to stop.
Internal ==
    \/ Refresh \/ StreamPacketOut
    \/ \E c \in Conns :
        \/ HandlerStarts(c) \/ TakeHello(c) \/ HandleNext(c)
        \/ link[c] = "closing" /\ ConnectionLost(c)
    \/ \E k \in calls : Execute(k) \/ CallFails(k) \/ Complete(k)

\* Polls, timers and callbacks happen, and calls of threads end; an attempt to
\* connect ends, and the controller accepts one that is repeated again and
\* again.
Fairness ==
    /\ WF_vars(Internal)
    /\ \A a \in Agents : WF_vars(KeepConnected(a))
    /\ \A c \in Conns : WF_vars(ConnectFails(c)) /\ SF_vars(Connects(c))

Spec == Init /\ [][Next]_vars
FairSpec == Spec /\ Fairness

-----------------------------------------------------------------------------

\* The manager's two maps fit together, so that the look-up of an event's
\* agent never fails and finds an agent of that very device.
MapsAgree ==
    /\ \A p \in DOMAIN agent_map : LET d == device_id[agent_map[p]] IN
        d \in DOMAIN device_map /\ device_map[d] = p
    /\ \A d \in DOMAIN device_map :
        /\ device_map[d] \in DOMAIN agent_map
        /\ device_id[agent_map[device_map[d]]] = d

\* An agent never has two connections (or attempts) at a time, although lost
\* connections, failures, pauses and stop() come in any order.
OneConnection ==
    \A c, e \in Conns :
        link[c] \in Live /\ link[e] \in Live /\ owner[c] = owner[e] => c = e

Replies(c, r) == {i \in 1..Len(out[c]) : out[c][i] = [reply |-> r]}

\* A reply goes out on the connection its request came on, once, also when
\* the agent has reconnected while VOLTHA worked on it; and VOLTHA executes a
\* mod or a packet out at most once.
AnsweredOnce ==
    /\ \A c \in Conns, r \in Requests :
        /\ Replies(c, r) # {} => asked[r].on = c
        /\ \A i, j \in Replies(c, r) : i = j
    /\ \A i, j \in 1..Len(applied) : applied[i] = applied[j] => i = j

\* Events of a device go to the controller as events of that device, although
\* the manager's picture of VOLTHA's devices may be out of date.
EventsOfOwnDevice ==
    \A c \in Conns, d \in Ids :
        (\E i \in 1..Len(out[c]) : out[c][i] = [event |-> d])
            => device_id[owner[c]] = d

\* The agents catch up with VOLTHA's devices, by datapath id.
AgentsFollow == []<>(stopped \/ DOMAIN agent_map = Desired)

\* An agent that is not told to stop gets a connection, and gets one back as
\* often as it is lost or an attempt fails.
Reconnects ==
    \A a \in Agents : []<>(\/ loop[a] = "unborn" \/ exiting[a] \/ Free = {}
                          \/ \E c \in Conns : owner[c] = a /\ link[c] = "up")

\* An agent that was stopped, at whatever moment, ends up without connection
\* for good.
StoppedIsQuiet ==
    <>[](\A c \in Conns : owner[c] # None /\ exiting[owner[c]]
            => link[c] \notin Live)

\* After the controller's hello a handler works off its requests, those from
\* before the hello too, unless one of them ended the loop; the hello itself
\* is always taken.
WorkedOff ==
    \A c \in Conns : []<>(/\ \A i \in 1..Len(rx[c]) : rx[c][i] # Hello
                          /\ handler[c] = "loop" => rx[c] = <<>>)
=============================================================================
