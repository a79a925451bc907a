---------------------------- MODULE DeviceAgent ----------------------------
(***************************************************************************)
(* The core's device agents (core/device_agent.py, core/core.py): one for  *)
(* every device in the config tree.  It hears of every change of its       *)
(* device, drives the device's administrative state and hands a device     *)
(* that gets enabled to its adapter; changes that come from the adapter    *)
(* must not go back to it.                                                 *)
(*                                                                         *)
(* Adapters keep the Device object that adopt_device() gave them and       *)
(* change it in place.  The config tree does not copy an object it is      *)
(* updated with, so that the adapter's object, the tree's and the agent's  *)
(* last_data may be one and the same.  The model therefore keeps, for each *)
(* device, its objects, and which of them the tree and the agent hold.     *)
(***************************************************************************)
EXTENDS Naturals, Sequences

CONSTANT Devices

VARIABLES
    device,             \* [objects, node, last_data, adopted], see NoDevice
    device_agents       \* devices with an agent in core.device_agents

deviceVars == <<device, device_agents>>

\* objects are the Device objects in the order of their creation; node is
\* the one in the tree, last_data the agent's, both 0 before there is one;
\* adopted are the objects given to the adapter's adopt_device().
NoDevice == [objects |-> <<>>, node |-> 0, last_data |-> 0, adopted |-> <<>>]

DeviceInit ==
    /\ device = [d \in Devices |-> NoDevice]
    /\ device_agents = {}

\* The fields that matter of a Device.
NewDevice(admin) == [admin |-> admin, oper |-> "UNKNOWN", info |-> FALSE,
                     logical |-> FALSE]

Stored(s) == s.objects[s.node]

\* proxy.get(): a copy of what the tree holds, as a new object.
get_device(s) == [s EXCEPT !.objects = Append(@, Stored(s))]

Newest(s) == Len(s.objects)

LastAdmin(s) == IF s.last_data = 0 THEN "UNKNOWN" ELSE s.objects[s.last_data].admin

\* Mutant: a change of an enabled device activates it again.
Activates_Again(old, new) == new = "ENABLED"

\* admin_state_fsm for the states that the services can reach.
Activates(old, new) == new = "ENABLED" /\ old \in {"UNKNOWN", "PREPROVISIONED"}

\* _propagate_change, and the end of _process_update: a change of an enabled
\* device that did not come from the adapter raises NotImplementedError, and
\* last_data stays.
note_update(s, o) ==
    IF /\ LastAdmin(s) = "ENABLED" /\ s.objects[o].admin = "ENABLED"
       /\ s.objects[o] # s.objects[s.last_data]
      THEN s
      ELSE [s EXCEPT !.last_data = o]

\* _activate_device() of an object that the tree holds already: its update
\* has nothing to do.
activate_stored(s, o) ==
    [s EXCEPT !.objects[o].oper = "ACTIVATING", !.last_data = o,
              !.adopted = Append(@, o)]

\* config_node's update of the device's node with object o, by the agent
\* itself.  Nothing happens when the data are equal; otherwise POST_UPDATE
\* follows at once, with _process_update() inside of update_device().
StoreOwn(s, o) ==
    LET stored == [s EXCEPT !.node = o] IN
    IF Stored(s) = s.objects[o] THEN s
    ELSE IF Activates(LastAdmin(s), s.objects[o].admin)
           THEN activate_stored(stored, o)
           ELSE note_update(stored, o)

\* Mutant: the agent does not note what it is about to store.
update_device_NotNoted(s, o) == StoreOwn(s, o)

\* "so that we don't propagate back"
update_device(s, o) == StoreOwn([s EXCEPT !.last_data = o], o)

activate_device(s, o) ==
    LET marked == update_device([s EXCEPT !.objects[o].oper = "ACTIVATING"], o)
    IN [marked EXCEPT !.adopted = Append(@, o)]

process_update(s, o) ==
    IF Activates(LastAdmin(s), s.objects[o].admin)
      THEN [activate_device(s, o) EXCEPT !.last_data = o]
      ELSE note_update(s, o)

\* The update of the node by somebody else: the agent's PRE_UPDATE check
\* cannot stop it (its exception stays in a deferred).
UpdateNode(s, o) ==
    IF Stored(s) = s.objects[o] THEN s
    ELSE process_update([s EXCEPT !.node = o], o)

\* The tree gets a copy of the new device; then _handle_add_device() makes
\* the agent, whose start() processes the object that the caller still holds.
add_device(value) ==
    process_update([NoDevice EXCEPT !.objects = <<value, value>>, !.node = 2], 1)

-----------------------------------------------------------------------------

\* A device is handed to its adapter once, whatever the adapter, the agent
\* itself and the services store in the tree.
AdoptedOnce == \A d \in Devices : Len(device[d].adopted) <= 1

\* Between two steps of the reactor the agent's last_data is what the tree
\* holds, although the adapter changes its object in place: there is never a
\* change of an enabled device that would have to be propagated to it.
LastDataIsStored ==
    \A d \in device_agents :
        device[d].objects[device[d].last_data] = Stored(device[d])
=============================================================================
