------------------------------ MODULE EventBus ------------------------------
(***************************************************************************)
(* The event bus (common/event_bus.py) by which the parts of a VOLTHA      *)
(* process talk to each other, with the exact topics that VOLTHA's own     *)
(* code subscribes to.  A message goes, at once and in the publisher's     *)
(* step, to the callbacks subscribed to its topic, in the order of their   *)
(* subscription; with no subscriber it goes nowhere.                       *)
(***************************************************************************)
EXTENDS Sequences

VARIABLE subscriptions      \* topic -> callbacks, in order of subscription

BusInit(topics) == subscriptions = [t \in topics |-> <<>>]

\* The subscriptions after subscribe(topic, callback).
subscribe(subs, topic, callback) == [subs EXCEPT ![topic] = Append(@, callback)]

\* Whom publish(topic, msg) calls: an exception in a callback is logged and
\* does not keep the message from the next one.
publish(topic) == subscriptions[topic]
=============================================================================
