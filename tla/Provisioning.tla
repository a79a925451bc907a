---------------------------- MODULE Provisioning ----------------------------
(***************************************************************************)
(* A device is provisioned: the services create and activate an OLT, its   *)
(* adapter contacts it, asks it for its ONUs, and each ONU is added to the *)
(* config tree, activated by its own adapter, and sends a message through  *)
(* the OLT before it is shown as active.                                   *)
(*                                                                         *)
(* The module composes the device agents (DeviceAgent), the event bus that *)
(* carries the messages between the two adapters (EventBus) and the frame  *)
(* I/O with its thread (FrameIO), with the adapter agents' operations and  *)
(* the Tibit adapters (adapters/tibit_olt, adapters/tibit_onu), the ones   *)
(* that talk to their devices in frames.  One action is one step of the    *)
(* reactor: a service call, a timer, or a frame handed over by the thread, *)
(* with everything that runs before the next yield.                        *)
(***************************************************************************)
EXTENDS FrameIO, DeviceAgent, EventBus, FiniteSets

CONSTANTS
    Olt,                \* the OLT, adopted by TibitOltAdapter
    Onus,               \* the ONUs that it reports, no two with one c-vid
    Talkers,            \* those of them that send packets
    Eth,                \* the interface towards the OLT
    MaxCalls,           \* bound on calls of ActivateDevice
    MaxLost,            \* bound on lost requests or answers
    MaxRepeated,        \* bound on answers that arrive twice
    MaxExtra            \* bound on frames that answer nothing

ASSUME DevicesAssumption ==
    /\ Devices = {Olt} \cup Onus /\ Olt \notin Onus /\ "detect" \notin Devices
    /\ Talkers \subseteq Onus

Tx(u) == <<"tx", u>>
Rx(u) == <<"rx", u>>
PacketIn == <<"packet-in", Olt>>
PacketOut == <<"packet-out", Olt>>
Topics == ({"tx", "rx"} \X Onus) \cup {PacketIn, PacketOut}

VARIABLES
    olt,        \* the OLT adapter: [io_port, queue, pc]
    timers,     \* pending callLater: "detect", and devices to be activated
    onu,        \* the ONU adapter: [pending, waiting] of incoming_messages
    logical_ports,      \* of the OLT's logical device: "nni" and ONUs
    vlan_to_device_ids, \* ONUs whose c-vid is known
    packet_in_queue,    \* core.packet_in_queue
    wire,       \* requests on their way to the devices
    used,       \* counters for the bounds: [calls, lost, repeated, extra]
    answers,    \* history: answers of ONUs received
    exchange    \* history: answers received when the ONU sent its request,
                \* and the one it took, [from, took]

oltVars == <<olt, timers, onu, logical_ports, vlan_to_device_ids,
             packet_in_queue>>
histVars == <<answers, exchange>>
vars == <<frameVars, deviceVars, subscriptions, oltVars, wire, used, histVars>>

Init ==
    /\ FrameInit /\ DeviceInit /\ BusInit(Topics)
    /\ olt = [io_port |-> FALSE, queue |-> <<>>, pc |-> "idle"]
    /\ timers = {}
    /\ onu = [pending |-> <<>>, waiting |-> <<>>]
    /\ logical_ports = {}
    /\ vlan_to_device_ids = {}
    /\ packet_in_queue = <<>>
    /\ wire = {}
    /\ used = [calls |-> 0, lost |-> 0, repeated |-> 0, extra |-> 0]
    /\ answers = 0
    /\ exchange = [u \in Onus |-> [from |-> 0, took |-> 0]]

-----------------------------------------------------------------------------
(* The services (local_handler.py), on the reactor thread.                 *)

\* A device is created as PREPROVISIONED and gets its agent.
CreateDevice ==
    /\ ~stopped
    /\ Olt \notin device_agents
    /\ device' = [device EXCEPT ![Olt] = add_device(NewDevice("PREPROVISIONED"))]
    /\ device_agents' = device_agents \cup {Olt}
    /\ UNCHANGED <<frameVars, subscriptions, oltVars, wire, used, histVars>>

\* TibitOltAdapter.adopt_device() of a device that was just enabled: the
\* port is opened the first time, and the activation follows in a timer.
AdoptOlt(adopts) ==
    /\ timers' = IF adopts THEN timers \cup {Olt} ELSE timers
    /\ IF adopts /\ ~olt.io_port
         THEN add_interface(Eth) /\ olt' = [olt EXCEPT !.io_port = TRUE]
         ELSE UNCHANGED <<ports, ports_changed, pipe, missed, olt>>
    /\ UNCHANGED <<stopped, thread, inbox, calls>>

\* The admin state of a copy of the device is set, and the copy stored.
ActivateDevice ==
    /\ ~stopped
    /\ Olt \in device_agents
    /\ used.calls < MaxCalls
    /\ used' = [used EXCEPT !.calls = @ + 1]
    /\ LET copy == get_device(device[Olt])
           o == Newest(copy)
           done == UpdateNode([copy EXCEPT !.objects[o].admin = "ENABLED"], o)
       IN /\ device' = [device EXCEPT ![Olt] =
                          IF done.node = o THEN done ELSE device[Olt]]
          /\ AdoptOlt(Len(done.adopted) > Len(device[Olt].adopted))
    /\ UNCHANGED <<device_agents, subscriptions, onu, logical_ports,
                   vlan_to_device_ids, packet_in_queue, wire, histVars>>

-----------------------------------------------------------------------------
(* The OLT adapter.                                                        *)

\* _launch_device_activation up to its yield: a ping, and wait.
LaunchOlt ==
    /\ ~stopped
    /\ Olt \in timers
    /\ timers' = timers \ {Olt}
    /\ olt' = [olt EXCEPT !.queue = <<>>, !.pc = "ping"]
    /\ wire' = wire \cup {"ping"}
    /\ UNCHANGED <<frameVars, deviceVars, subscriptions, onu, logical_ports,
                   vlan_to_device_ids, packet_in_queue, used, histVars>>

\* The adapter writes into the object it was given, then stores it.
Contacted(s) ==
    LET o == s.adopted[1]
    IN update_device([s EXCEPT !.objects[o].info = TRUE], o)

\* "and finally update to active", with the fields that with changes.
ShownActive(s, logical) ==
    LET copy == get_device(s)
        o == Newest(copy)
    IN update_device([copy EXCEPT !.objects[o].oper = "ACTIVE",
                                  !.objects[o].logical = @ \/ logical], o)

\* The rest of it, when the queue gives a response: device, ports, logical
\* device (whose agent listens for packet-ins) and its NNI port.
OltContacted ==
    /\ device' = [device EXCEPT ![Olt] = ShownActive(Contacted(@), TRUE)]
    /\ subscriptions' = subscribe(subscribe(subscriptions, PacketIn, "core"),
                                  PacketOut, "olt")
    /\ logical_ports' = logical_ports \cup {"nni"}
    /\ timers' = timers \cup {"detect"}
    /\ olt' = [olt EXCEPT !.pc = "idle"]
    /\ UNCHANGED <<device_agents, onu, vlan_to_device_ids, packet_in_queue,
                   histVars>>

\* _detect_onus up to its yield.  A response left in the queue is taken for
\* the answer and cannot be read as one.
DetectOnus ==
    /\ ~stopped
    /\ "detect" \in timers
    /\ timers' = timers \ {"detect"}
    /\ wire' = wire \cup {"links"}
    /\ olt' = IF olt.queue = <<>> THEN [olt EXCEPT !.pc = "links"]
              ELSE [olt EXCEPT !.queue = Tail(@), !.pc = "failed"]
    /\ UNCHANGED <<frameVars, deviceVars, subscriptions, onu, logical_ports,
                   vlan_to_device_ids, packet_in_queue, used, histVars>>

\* Mutant: nobody listens for the messages of the new device.
child_devices_detected_Silent(us) ==
    /\ device' = [d \in Devices |->
                    IF d \in us THEN add_device(NewDevice("ENABLED"))
                    ELSE device[d]]
    /\ device_agents' = device_agents \cup us
    /\ timers' = timers \cup us
    /\ UNCHANGED subscriptions

\* child_device_detected() for each ONU reported: added as ENABLED, so that
\* its agent activates it and its adapter adopts it on the spot, which leaves
\* a timer; then the OLT's adapter agent subscribes to its messages.
child_devices_detected(us) ==
    /\ device' = [d \in Devices |->
                    IF d \in us THEN add_device(NewDevice("ENABLED"))
                    ELSE device[d]]
    /\ device_agents' = device_agents \cup us
    /\ timers' = timers \cup us
    /\ subscriptions' = [t \in Topics |->
                            IF \E u \in us : t = Tx(u)
                              THEN subscribe(subscriptions, t, "olt")[t]
                              ELSE subscriptions[t]]

\* The rest of _detect_onus.  An entry without a MAC address is logged and
\* then raises, so that the ONUs listed behind it are not detected.
OnusReported ==
    /\ \E us \in SUBSET Onus, pc \in {"idle", "failed"} :
        /\ pc = "idle" => us = Onus
        /\ child_devices_detected(us)
        /\ vlan_to_device_ids' = vlan_to_device_ids \cup us
        /\ olt' = [olt EXCEPT !.pc = pc]
    /\ UNCHANGED <<onu, logical_ports, packet_in_queue, histVars>>

-----------------------------------------------------------------------------
(* The ONU adapter.                                                        *)

\* Mutant: the messages left in the queue stay there.
OnuActivation_NotReset(u) ==
    /\ ~stopped
    /\ u \in timers \cap Onus
    /\ timers' = timers \ {u}
    /\ device' = [device EXCEPT ![u] = IF onu.pending = <<>> THEN Contacted(@)
                                       ELSE ShownActive(Contacted(@), FALSE)]
    /\ logical_ports' = logical_ports \cup {u}
    /\ subscriptions' = subscribe(subscriptions, Rx(u), "onu")
    /\ wire' = IF publish(Tx(u)) # <<>> THEN wire \cup {u} ELSE wire
    /\ onu' = IF onu.pending = <<>> THEN [onu EXCEPT !.waiting = Append(@, u)]
              ELSE [onu EXCEPT !.pending = Tail(@)]
    /\ exchange' = [exchange EXCEPT ![u] =
                      [from |-> answers, took |-> IF onu.pending = <<>> THEN 0
                                                  ELSE Head(onu.pending)]]
    /\ UNCHANGED <<frameVars, device_agents, olt, vlan_to_device_ids,
                   packet_in_queue, used, answers>>

\* _onu_device_activation up to the yield in _message_exchange.  If the OLT
\* has no logical device, an assertion fails when the device has been updated.
\* The queue is one for all ONUs: what is left in it is thrown away before
\* the message is sent.
OnuActivation(u) ==
    /\ ~stopped
    /\ u \in timers \cap Onus
    /\ timers' = timers \ {u}
    /\ device' = [device EXCEPT ![u] = Contacted(@)]
    /\ IF Stored(device[Olt]).logical
         THEN /\ logical_ports' = logical_ports \cup {u}
              /\ subscriptions' = subscribe(subscriptions, Rx(u), "onu")
              /\ wire' = IF publish(Tx(u)) # <<>> THEN wire \cup {u} ELSE wire
              /\ onu' = [pending |-> <<>>, waiting |-> Append(onu.waiting, u)]
              /\ exchange' = [exchange EXCEPT ![u].from = answers]
         ELSE UNCHANGED <<logical_ports, subscriptions, wire, onu, exchange>>
    /\ UNCHANGED <<frameVars, device_agents, olt, vlan_to_device_ids,
                   packet_in_queue, used, answers>>

\* receive_proxied_message(): the queue gives the message to the ONU that
\* has waited longest, whose activation goes on to its end.
OnuAnswered ==
    /\ answers' = answers + 1
    /\ IF onu.waiting = <<>>
         THEN /\ onu' = [onu EXCEPT !.pending = Append(@, answers + 1)]
              /\ UNCHANGED <<device, exchange>>
         ELSE LET u == Head(onu.waiting)
              IN /\ onu' = [onu EXCEPT !.waiting = Tail(@)]
                 /\ device' = [device EXCEPT ![u] = ShownActive(@, FALSE)]
                 /\ exchange' = [exchange EXCEPT ![u].took = answers + 1]

-----------------------------------------------------------------------------
(* Frames.                                                                 *)

\* What a frame answers, or the ONU whose packet it carries.
Requests == {"ping", "links"} \cup Onus
AnswerTo(r) == [kind |-> IF r \in Onus THEN "onu" ELSE "olt", of |-> r]
Packets == [kind : {"packet"}, of : Talkers]
Foreign == [kind |-> "foreign", of |-> Eth]

\* is_tibit_frame
Wanted(frame) == frame.kind # "foreign"

\* _rcv_io() of a frame, in the reactor.  An answer of the OLT goes to the
\* activation that waits for one, which takes any; with nobody waiting it
\* stays in the queue.  An answer of an ONU is published for its adapter, a
\* packet for the agent of the logical device.
rcv_io(frame) ==
    \/ frame.kind = "olt" /\ olt.pc = "ping" /\ OltContacted
    \/ frame.of = "links" /\ olt.pc = "links" /\ OnusReported
    \/ /\ frame.kind = "olt"
       /\ olt.pc # "ping" /\ (olt.pc = "links" => frame.of # "links")
       /\ olt' = IF olt.pc = "links" THEN [olt EXCEPT !.pc = "failed"]
                 ELSE [olt EXCEPT !.queue = Append(@, frame.of)]
       /\ UNCHANGED <<deviceVars, subscriptions, timers, onu, logical_ports,
                      vlan_to_device_ids, packet_in_queue, histVars>>
    \/ /\ frame.kind = "onu"
       /\ IF publish(Rx(frame.of)) # <<>> THEN OnuAnswered
          ELSE UNCHANGED <<device, onu, histVars>>
       /\ UNCHANGED <<device_agents, subscriptions, olt, timers, logical_ports,
                      vlan_to_device_ids, packet_in_queue>>
    \/ /\ frame.kind = "packet"
       /\ packet_in_queue' =
            IF frame.of \in vlan_to_device_ids /\ publish(PacketIn) # <<>>
              THEN Append(packet_in_queue, frame.of)
              ELSE packet_in_queue
       /\ UNCHANGED <<deviceVars, subscriptions, olt, timers, onu,
                      logical_ports, vlan_to_device_ids, histVars>>

\* A frame that the select thread passed to the reactor.
Dispatch ==
    /\ ~stopped
    /\ calls # <<>>
    /\ calls' = Tail(calls)
    /\ rcv_io(Head(calls).frame)
    /\ UNCHANGED <<ports, ports_changed, stopped, pipe, thread, inbox, missed,
                   wire, used>>

Arrive(frame) ==
    /\ inbox' = [inbox EXCEPT ![Eth] = Append(@, frame)]
    /\ UNCHANGED <<ports, ports_changed, stopped, pipe, thread, calls, missed,
                   deviceVars, subscriptions, oltVars, histVars>>

\* A device answers a request, in any order, perhaps twice.
Answer(r) ==
    /\ r \in wire
    /\ \/ wire' = wire \ {r} /\ UNCHANGED used
       \/ /\ used.repeated < MaxRepeated
          /\ used' = [used EXCEPT !.repeated = @ + 1]
          /\ UNCHANGED wire
    /\ Arrive(AnswerTo(r))

\* A request or its answer is lost.
Lose(r) ==
    /\ r \in wire
    /\ used.lost < MaxLost
    /\ used' = [used EXCEPT !.lost = @ + 1]
    /\ wire' = wire \ {r}
    /\ UNCHANGED <<frameVars, deviceVars, subscriptions, oltVars, histVars>>

\* Any other frame on the interface.
Traffic(f) ==
    /\ Eth \in ports
    /\ used.extra < MaxExtra
    /\ used' = [used EXCEPT !.extra = @ + 1]
    /\ UNCHANGED wire
    /\ Arrive(f)

\* The shutdown of the process (main.py): the adapter closes its port, and
\* the reactor waits in join() until the select thread has ended.
Shutdown ==
    /\ ~stopped
    /\ StopFrames(IF olt.io_port THEN {Eth} ELSE {})
    /\ UNCHANGED <<deviceVars, subscriptions, oltVars, wire, used, histVars>>

otherVars == <<deviceVars, subscriptions, oltVars, wire, used, histVars>>

Thread_Step == SelectLoop /\ UNCHANGED otherVars

\* What the reactor does by itself: timers, and calls from the thread.
Reactor ==
    \/ LaunchOlt \/ DetectOnus \/ Dispatch
    \/ \E u \in Onus : OnuActivation(u)

Next ==
    \/ Thread_Step
    \/ CreateDevice \/ ActivateDevice
    \/ Reactor
    \/ \E r \in Requests : Answer(r) \/ Lose(r)
    \/ \E f \in Packets \cup {Foreign} : Traffic(f)
    \/ Shutdown

\* The thread runs, the reactor serves its timers and what was passed to it,
\* and a device answers a request that reaches it.  A select and recv that
\* are tried again and again succeed some time.
Fairness ==
    /\ WF_vars(Thread_Step)
    /\ SF_vars(Select(Readable) /\ UNCHANGED otherVars)
    /\ WF_vars(Reactor)
    /\ WF_vars(\E r \in Requests : Answer(r))

Spec == Init /\ [][Next]_vars /\ Fairness

-----------------------------------------------------------------------------

Active(d) == d \in device_agents /\ Stored(device[d]).oper = "ACTIVE"

\* An answer that lay in the queue shared by the ONUs never makes an ONU
\* active: what it takes arrived after its own message had been sent.
AnswerIsFresh == \A u \in Onus : Active(u) => exchange[u].took > exchange[u].from

\* Once the OLT is activated, it and every ONU that its adapter detects become
\* active, in whatever order the answers come and although the ONUs share one
\* queue, unless a frame is lost, the port was missed by the select thread, or
\* the process is shut down.  All ONUs are detected, unless the answer that
\* lists them has an entry without a MAC address or comes behind a second
\* answer to the ping, which is then taken for it.
Provisioned ==
    []<>(used.calls > 0 =>
            \/ /\ \A d \in device_agents : Active(d)
               /\ device_agents = Devices \/ olt.pc = "failed"
            \/ used.lost > 0 \/ missed # {} \/ stopped)

\* The shutdown, which blocks the reactor until the select thread ends, comes
\* to its end.
ShutdownEnds == []<>(stopped => thread.pc = "done")
=============================================================================
