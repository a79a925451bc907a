# VOLTHA: TLA+ models, checks and proofs

VOLTHA presents passive optical networks (an OLT and the ONUs behind it) to
OpenFlow controllers as logical switches. It is a Python 2 / Twisted program
made of several processes. This directory models the parts of it that keep
state and that run concurrently, model-checks them with TLC on small instances,
and proves the most important properties with TLAPS for every value of the
constants. `PROJECT.json` lists components, runs, mutants, the source lines
behind each definition, hazards, findings and theorems.

## 1. The system

| Part | State | Operations | Hard behaviours |
|---|---|---|---|
| Coordinator (`voltha/coordinator.py`) | session, membership record, `i_am_leader`, `leader_id`, the `Leader` object | session creation and renewal, membership loop, leadership loop, `stop` | crash and restart, session expiry, lock delay, lost answers, `stop` in the middle of a call |
| Leader (`voltha/leader.py`) | members, workload, soak timer; assignment keys in Consul | two tracking loops, `_reassign_work` | changes during a reassignment, revoke before assign, `stop` while calls are out |
| Worker (`voltha/worker.py`) | `my_workload`, candidate, soak timer | long poll, soak, apply, `stop` | changes within the soak, polling after `stop` |
| Configuration tree (`voltha/core/config`) | nodes, revisions, branches of transactions | update, add, remove, transactions, merge, callbacks | clients interleaved with an open transaction, failing commits, partial effects |
| Persistence of the tree (`config_rev_persisted.py`; no part of VOLTHA uses it) | hash -> revision in a key-value store | store, load, delete on garbage collection | crash between writes |
| Core, device agents, adapter agents (`voltha/core`) | one agent per device, admin state machine | activation, disabling, ports, child devices, proxied messages | callbacks that yield, an update during another one |
| Logical device agent, flow decomposer, device graph (`voltha/core`) | flow and group tables, cached routes, tables of devices | flow and group mods, table callbacks, port changes | stale cache, half-activated ONUs, exceptions that are swallowed |
| Event bus, message queue, frame I/O (`common`) | subscriptions, waiters, ports | publish/subscribe, predicate get/put/cancel, select loop in a thread | re-entrance, list changes during iteration, thread races |
| OpenFlow agent (`ofagent`) | a connection per logical device, streams from VOLTHA | reconnect, flow mods through a thread pool, refresh of the agent map | reordering, disconnection, stop at any time |
| Adapters (`voltha/adapters`), Microsemi automata | activation state per device | activation, flow programming, request-reply | lost replies, timeouts |
| Northbound, tools (`chameleon`, `netconf`, `cli`, `shovel`, `podder`, `ponsim`, kafka) | little | conversion and I/O | reconnection |

How they interact: every VOLTHA instance runs a Coordinator and a Worker; the
elected one also runs a Leader. They communicate only through Consul. Within an
instance all state of the network is in the configuration tree, whose deferred
callbacks call the core's agents. The logical device agent is changed by the
OpenFlow agent through gRPC, and writes the tables of the devices, which the
device agents hand to the adapters. An OLT adapter and the adapters of its ONUs
exchange messages over the event bus and reach the hardware through frame I/O.

What "correct" means, in the order of importance: one leader at a time; one
owner per piece of work; workers end up with what is assigned to them;
commits are all-or-nothing and do not lose changes; observers of the tree are
told exactly what happened; device tables follow the logical tables; a
controller's requests are each carried out and answered once, from the bytes on
the wire on; a device that is activated becomes active.

## 2. Modules

| Module | Models |
|---|---|
| `Worker`, `WorkerProofs` | the worker; the leader's edits and Consul's answers are the environment |
| `Leader`, `MCLeader`, `LeaderProofs` | the leader; members and work keys change in the environment. `MCLeader` gives the hash ring |
| `Coordinator`, `MCCoordinator`, `CoordinatorProofs` | all instances' coordinators, and Consul's sessions and locks |
| `ConfigTree`, `MCConfigTree` | the tree with transactions, merge and callbacks |
| `FlowTables`, `MCFlowTables`, `FlowTablesProofs` | one logical device's tables, their decomposition and the tables of its devices |
| `MessageQueue`, `MessageQueueProofs` | the queue whose readers wait with a predicate |
| `OpenFlowConnection`, `MCOpenFlowConnection`, `OpenFlowConnectionProofs` | the lower half of the OpenFlow protocol: stream of bytes, messages, readers. Extends `MessageQueue` |
| `Channel` | what a connection promises: a lossless channel in order. `OpenFlowConnection` implements it |
| `OFAgent`, `MCOFAgent`, `OFAgentProofs` | the OpenFlow agent's process above the connections |
| `Layout`, `OF10...` to `OF14...` | the classes of the OpenFlow library; a module holds one or several of its files |
| `Codec`, `MCCodec` | what `pack` and `unpack` of these classes do |
| `FrameIO` | the frame I/O manager and its select thread |
| `EventBus` | subscribing and publishing within a process |
| `DeviceAgent` | device agents, the Device objects they share with the tree and the adapters |
| `Provisioning`, `ProvisioningProofs` | the composition of the last three with the services, the adapter agents and the Tibit adapters |

Granularity. Twisted runs one callback at a time, so a step is the code between
two yields. In the cluster modules a call to Consul is executed by Consul in one
step and its answer processed in a later one, wherever the code reads or
writes a field in between. The tree and the flow tables never yield: a step is
a whole operation with everything it calls, the table callbacks included. The
frame I/O thread runs beside the reactor without locks: each of its accesses to
what they share is a step.

Definitions whose comment starts with "Mutant:" are faulty variants of the
definition after them. They are not part of any specification; each one shows
that a property notices the fault.

### Cluster coordination

*Coordinator.* `session_id`, `i_am_leader`, `leader_id`, `leader` and
`shutting_down` are the fields; `lead_pc`, `put_result`, `record` and `seen` are
the position and the locals of `_leadership_tracking_loop`; `mem_pc` and
`mem_seen` those of `_maintain_membership_record`. Consul (external) keeps
`sessions`, the two kinds of keys and `lock_delay`: when a session ends, its keys
are deleted and locked for a while. `_retry` repeats a call that raised, so a
refused call is no step; an executed call whose answer is lost is repeated.
`AssertLeadership`, `Confusion`, `AssertNonleadership` and `NoRecord` are the
branches after the record was read. `stop` may come while `_async_init` is under
way, which goes on until the process exits. `budget` bounds crashes, calls of
`stop`, lost answers, administrative deletions and expiries under a running
instance.

*Leader.* `run[r]` is an activation of `_reassign_work`; it yields at every key,
so one step is one `kv_delete` or `kv_put`. A timer that fires starts a free
activation, whatever the others do; `Runs` bounds how many there are at a time.
Sets stand for Python's sets, so the order of the keys is arbitrary.
`RestartRaises` is the `AlreadyCancelled` that `cancel()` raises on a timer that
`stop` has cancelled.

*Worker.* `results` is Consul's answer between its arrival and its processing;
`scheduled` counts the timers the reactor holds, `assignment_soak_timer` is the
state of the one the field refers to.

### Configuration tree

`store.branches[n]` maps the committed branch and the transactions that touched
node `n` to the revision the branch was made from and its latest one. `Apply` is
`update`, `add` and `remove` with the walk down the path and the revisions
carried up again. `MergeTxBranch` and the `Merge...` operators are
`_merge_txbranch` and `merge_3way`, with the dry run and each exception that may
come out of it. `announced` are the deferred callbacks of a step, in order.
Revisions carry their node and a number, because `==` on lists of revisions
compares objects; `Hash` stands for the content hash.

### Flow tables

`flows` and `groups` are the logical tables, `devs` the tables of the devices,
`cache` the routes and default rules (with the graph they were computed from).
`stage` is the progress of each ONU's activation, which adapters do in the order
ports, then logical port. `raises` collects the exceptions and assertions on the
way through `decompose_flow`; the configuration tree's proxy logs and swallows
them. `Filled` is `_assure_cached_tables_up_to_date`, `TableUpdated` the two
table callbacks. `pushedAt` is a history variable.

### The OpenFlow agent

*MessageQueue.* A call of `get` is one of `Gets`, `Accepts` gives the messages its
predicate is true of. `put` fires the reader as the last thing it does, so what
the reader does then is a step that follows. `reset` fires its readers in the
middle of a loop over the live list: the loop is a step per waiter
(`ResetErrback`), between which `get` may come. `Cancel` includes the IndexError
that leaves a cancelled waiter unfired (`"orphaned"`).

*OpenFlowConnection.* A byte is `<<m, k>>`, the k-th byte of message `m`; TCP may
cut the stream anywhere. `DataReceived` appends a piece, `ParseNext` is one
iteration of the loop and `ParseStops` its end. `Recv` is possible after the
connection is lost: Twisted never clears the flag that `recv` asserts. The refinement of `Channel` maps
the history `arrived` to what the channel has delivered.

*OFAgent.* `Refresh` is a poll of VOLTHA's logical devices with the deletions and
creations it leads to; `KeepConnected`, `Connects`, `ConnectFails` and
`ConnectionLost` are the life of an agent's connection; `HandlerStarts`,
`TakeHello` and `HandleNext` the protocol handler. Requests are kept apart by what
their handlers do (`Kinds`). A call to VOLTHA is executed by a thread
(`Execute`) and its answer handled later (`Complete`), so that calls overtake
each other. Connections deliver whole messages in order, as `Channel` says.

*Layout, OF10 to OF14, Codec.* A class of the generated library is the sequence of
the items that its `pack` writes and its `unpack` reads, its place in another
class's `subtypes` and the bytes it looks at to choose a subclass; a definition
holds consecutive classes of a file. `Codec` gives the items their meaning: numbers as big-endian bytes, filled strings, bitmaps,
lengths filled in at the end, padding that is or is not counted, lists read
until a slice is empty. Numbers go up to 2^31 - 1 (TLC's limit), the upper bytes
of wider fields are zero.

### Provisioning of devices

*FrameIO.* `thread` is the position and the locals of `run`; `List` and `Clear` are
the two lines between which a new port is missed. `Select` is the select with
the reading that follows; `good` are the ports whose `recv` does not raise, and
`SelectFails` is a select that raises. `pipe` counts the bytes of the
waker's pipe, `calls` is what `callFromThread` has queued.

*DeviceAgent.* Adapters change the Device object they were given in place, and the
tree does not copy what it is updated with. So `objects` are the objects of a
device, and `node`, `last_data` and `adopted` say who holds which. In the code an
update of the tree calls the agent, which may update the tree again. `StoreOwn` is
the update by the agent itself, `UpdateNode` the one by anybody else; the calls
nest no deeper, because an update with the object that the tree holds already
does nothing (`activate_stored`).

*Provisioning.* An action is a service call, a timer that expires or a frame that
the thread handed over, with everything that runs before the next yield:
`ActivateDevice` includes the agent's transition and the adapter's
`adopt_device`, `OltContacted` all of the activation after the answer to the ping.
The two adapters talk over the event bus, on topics `Tx(u)` and `Rx(u)`. Frames
may be lost, answers may come in any order or twice. `OnusReported` goes through
the list of ONUs to its end, or stops after some of them with an exception, at
an entry without a MAC address.

## 3. Runs

Runs that pass:

| Run | Shows |
|---|---|
| `worker` | at most one soak timer, with a candidate (`OneSoakTimer`); a worker stopped in a soak applies nothing more although it keeps polling (`StopMidSoakIsFinal`); the applied workload ends up as the assignment (`Converges`) |
| `leader` | as long as `_reassign_work` is not re-entered, no work has two owners in Consul at any moment (`SingleOwner`) and the assignment ends up as the ring wants (`AssignsWhatIsWanted`); a halted leader comes to rest, re-entered or not (`HaltedComesToRest`) |
| `coordinator` | a crash, a restart and a `stop`: one leads at most (`SingleLeader`), records are re-made by their owner (`Joined`), a leader is elected and known to all (`Elected`) |
| `coordinator_faults` | expiry, deletion of the key, a lost answer and `stop` at any point: the flag and the `Leader` object go together (`FlagMatchesLeader`) |
| `config_tree` | keys stay unique; aborted transactions leave no branches; a commit merges what was asked; one that fails changes and announces nothing; additions and removals are announced exactly once |
| `flow_tables` | cached routes are never stale (`RoutesFresh`); device tables are exactly the decomposition of the logical ones (`DevicesFollow`); flow entries are unique |
| `connection` | a message and a reader that wants it never wait side by side (`NoMissedMatch`); neither is lost or served twice, with `reset` and its callbacks interleaved (`NothingLost`); both are matched in the order they came (`FirstComeFirstServed`); cutting and buffering are invisible (`ImplementsChannel`); nothing gets stuck in the buffer (`EverythingArrives`) |
| `of_agent` | the two maps agree; an agent has one connection; replies and mods happen once and on the right connection (`AnsweredOnce`); events go out as those of their device; agents follow VOLTHA's list, reconnect, fall silent when stopped, and work off what the controller sent, also before its hello |
| `codec` | for every class of the five protocol versions, parsing what was packed gives the object back and reads exactly its bytes (`RoundTrip`); the header tells length, version and xid (`HeaderTrue`) |
| `provisioning` | a device is handed to its adapter once (`AdoptedOnce`); what an agent holds for the last data is what the tree holds (`LastDataIsStored`); a port nobody listens to was added between two lines (`ListensUnlessMissed`); no stale answer makes an ONU active (`AnswerIsFresh`); the OLT and all ONUs it detects become active unless a frame is lost, the port missed or the process shut down, and all are detected unless the detection ends with an exception (`Provisioned`); the shutdown, which blocks the reactor, ends (`ShutdownEnds`) |

Runs that end in a violation. Each shows a disagreement between the code and a
comment or docstring; the findings in `PROJECT.json` quote both.

| Run | The code |
|---|---|
| `leader_reentry` | a change during a reassignment starts a second one beside it |
| `config_lost` | a commit can undo a change made elsewhere at a path it never wrote |

The conditions in the passing properties come from these. `SingleOwner` and
`AssignsWhatIsWanted` have the form `[]NotReentered => ...`: the timer does not
guarantee the condition, and both fail without it in the same instance, which
has two activations. `Coordinator.cfg` has no expiry under a running instance,
`MergedAsAsked` holds for commits where no child was removed and added anew
(`NoneReplaced`) and where all branches were made from the same tree
(`ForkedTogether`), `DevicesFollow` excepts logical ports that came after the
last table change. `Provisioned` names the ways in which the activation gets
stuck: the code has no time-out and takes any answer of the OLT for the expected
one, both marked with a TODO, and an exception in `_detect_onus` (the answer is
not a list, or an entry has no MAC address) leaves the rest of the ONUs out.

What some properties do not say: `AddsAndRemovesAnnounced` is about the root's
proxy, and a wrong child that is removed and announced as such satisfies it;
`DevicesFollow` takes a rule that is dropped because of its id for decomposed;
`AnsweredOnce` is not about the order of flow mods; `AnswerIsFresh` does not say
that the answer is the ONU's own; `NothingLost` excepts readers orphaned by
`_cancelGet`.

### Bounds

- `MaxChanges = 4` (worker): a change, its reversal within the soak, and again.
- Two members, two work ids, two activations and `MaxEdits = 1` (leader): what
  Consul holds at the start is a change for both tracking loops, and another
  one comes during any step of a reassignment, so that a member takes work over
  or gives it back; the initial assignment is any that an earlier leader may
  have left.
- Two instances, `MaxSessions = 3`, one crash, one `stop` (coordinator): the
  leader dies, restarts with a new session and meets its old records. No
  session is left for further starts, which is why the system may come to rest
  (`CHECK_DEADLOCK FALSE`). In `coordinator_faults` no crash but one fault of
  each of the other kinds, up to a renaming of the instances (`SYMMETRY`, sound
  here because the run checks an invariant only and no instance is special).
- Two children, one with a child of its own, a third key to add, two operations
  per transaction and two on the committed tree (config): both sides can add,
  change and remove the same child, or one replace what the other changes.
  Each operation may raise. When all operations are used the run ends
  (`CHECK_DEADLOCK FALSE`).
- Two ONUs, one group, nine flows, one or two of each kind that `decompose_flow`
  tells apart, `MaxFlows = 2` (flow tables): two flows for one device, with the
  same or different ids. With `MaxFlows = 3` the run passes as well (930,415
  states, nine minutes).
- Two messages, one with a body and one without, three readers (the protocol
  handler's for a class, for anything, and one for an xid) (connection): a piece
  may end in a header, after it, in a body or after two messages, with 0, 1 or 2
  readers waiting. Requests stop when all messages are used
  (`CHECK_DEADLOCK FALSE`), as in the next two.
- Two logical devices with the same datapath id, two agents, two connections, two
  requests and three inputs from outside (agent): a device takes the place of
  another, a connection is lost and made again with a request under way, and
  `stop` at any point.
- Each class of each version (codec), with the least, the greatest and mixed
  values in its fields, and with every class that can be an element of its lists,
  nested twice (`Depth = 2`).
- An OLT, two ONUs, two calls of `ActivateDevice`, one loss, one repeated answer,
  one frame that answers nothing (provisioning): two ONUs on one queue, a second
  activation at any point, a stale answer. The packets of one ONU
  (`Talkers = {onu1}`) stand for those of both, which are treated alike.

### Fairness

Weak fairness of the reactor's callbacks and timers (Twisted runs what is due),
of Consul's answers (a blocking query returns at its wait limit, `_retry`
repeats a call until it succeeds), of the expiry of sessions that nobody
renews and of the end of a lock delay. Nothing is assumed of the environment:
members, administrators, crashes and `stop` may happen or not. TCP delivers what
was written while a connection is up, and a loop that has begun goes on
(`connection`). A call in the thread pool ends, an attempt to connect ends, and a
controller that is asked again and again accepts once (strong fairness, in
`of_agent`): without it no reconnect loop can promise anything. The select
thread runs, because its select has a time-out of one second; its select and
`recv`, which may raise, succeed once when they are tried again and again
(strong fairness, in `provisioning`: an interface that never works delivers
nothing), and a device answers a request that reaches it. The tree, the flow tables and
the codec have safety properties only, and no fairness.

## 4. Proofs

All theorems hold for every value of the constants that satisfies the named
assumptions of the modules (`WorkerAssumption`, `LeaderAssumption`,
`CoordinatorAssumption`, `DistinctNames`, `QueueAssumption`, `LengthAssumption`,
`OFAgentAssumption`, `DevicesAssumption`): that `None`, `NoKey` and the like are
none of the values they stand beside, that bounds are natural numbers, that a
hash ring returns one of its members, that a predicate is about messages, that
a message is not shorter than its header, that datapath ids are positive, and
that an OLT is not one of its ONUs. Every safety property that a run checks is
proved, except those of `ConfigTree` and `Codec`.

- `WorkerTypes`, `WorkerOneSoakTimer`, `WorkerStopMidSoakIsFinal`. The inductive
  invariant is `TypeOK /\ OneSoakTimer`. That `my_workload` is never `None`
  depends on `OneSoakTimer`: a second timer would apply the `None` left by the
  first.
- `LeaderTypes`, and `LeaderSingleOwner`, for any number of activations: its
  invariant is kept by every step from a state in which one at most is busy
  (`NotReentered`), which the property assumes of all states. `OneOwner` is not
  inductive: `RevokedBeforeAssigned` adds that an
  activation that is revoking knows every key it does not want, and that one
  that assigns finds none of them left; so a key it puts meets only keys of its
  own plan, which has one owner per work.
- `CoordinatorTypes`, and `CoordinatorSingleLeader`, which assumes that there are no
  expiries under running instances and no deletions of keys. A `Leader` is
  created from an answer received earlier, so the invariant (`LeaderInv`) says
  that a granted put is still true when its answer is used (`Granted`), because
  the session of an instance that is not stopping is live (`StopFlag`) and
  nobody else's (`OwnSession`).
- `CoordinatorFlag`, which assumes nothing of sessions and keys. `FlagInv` adds to
  `FlagMatchesLeader` that an instance whose `stop` has begun is shutting down
  (`StopFlag`): `stop` takes the `Leader` away and leaves the flag.
- `CacheNeverStale`, `TablesFollowed`, `NoRulesWithoutPorts`. The invariant adds to
  the three properties that the cached graph has only ONUs with ports and that
  a logical port, once there, stays. What the decomposition computes plays no
  part: only that it is computed from the current tables and fresh routes.
- `EntriesUnique`. `FlowsUnique` is inductive together with the type of the table,
  but its steps are about sequences of any length: that `find_flow` misses
  nothing (`FindsAny`), and that the loop of `flow_delete` keeps entries at
  different indices of the old table (`WithoutPicks`). Both, and that the loop
  has a result at all (`LoopRuns`), are shown for the least index at which they
  would fail (`Least`, from the well-foundedness of the natural numbers).
- `QueueMatches`, `QueueLosesNothing`, `QueueIsFair`, about `QueueSpec`: the queue with
  any number of messages and readers. The three properties need each other:
  that `put` finds nobody is a statement about the list, that nobody waits for
  the message one about unfired deferreds, and `NothingLost` connects the two. The
  invariant (`QInv`) adds that a reader is in the list once and no longer idle
  (`Waiters`), that whatever is anywhere has arrived and whoever is anywhere has
  asked (`Known`), and that both lists are in the order of the calls (`Ordered`),
  from which the first match is the oldest. `QueueSpec` assumes that each message
  object is put once. `Extends` and `Lacks` say what `append` and `pop` keep of a
  list.
- `ConnectionIsChannel`, the refinement of `Channel`, for messages of any lengths
  and any cut of the stream. The invariant (`StreamInv`) says where each message
  is (`LaidOut`): there are offsets, each greater than the one before by the
  length of its message, such that the k-th byte of a message that has not been
  put together is in the buffer or on the wire at its offset plus k, and nothing
  else is there. Giving the offsets as a function instead of a recursive
  definition of the stream makes each step a shift of indices: `DataReceived`
  moves the border between buffer and wire, `ParseNext` finds the header at the
  first index and takes exactly one message, sending lengthens the end. With
  `Prefix`, what has arrived is a prefix of what was sent.
  `ConnectionFeedsQueue`: every step is a step of `QueueSpec`, because messages
  arrive in order and are sent once (`Distinct`); so `ConnectionServes`, the three
  properties of the queue behind the parser.
- `AgentMaps`, `AgentConnection`, `AgentAnswers`, `AgentEvents`. `AgentInv` has four
  parts. `Links`: while an agent has a connection or an attempt, its loop waits
  for the end of it, and the handler it knows is of a connection of its own,
  which is why there is no second one. `Maps`: the maps hold agents that exist
  and the datapath ids of their devices; a poll that replaces a device keeps
  them in step. `Work`: each request is at one place at a time (with the
  connection, in a call, in the queue of packet-outs, executed, or replied) and
  moves only forwards, so that it is neither executed nor answered twice.
  `Events`, which needs `Links` and `Maps`: the agent found in the maps is of the
  event's device, and so is the connection that its handler belongs to.
- `PortsListened`. `Listening` adds to `ListensUnlessMissed` that between the two
  lines of `run` every port has been listed or missed, whatever the flag says.
- `DevicesAdoptedOnce`, `LastDataFollows`, `OnuAnswersFresh`. `Held` says of the objects
  of a device with an agent that the tree's and the agent's are equal, and that
  it was either never given to its adapter and is PREPROVISIONED in the tree,
  or given once, is ENABLED there, and the adapter's object still says ENABLED
  and ACTIVATING. The last is what makes the adapter's update in place safe: it
  never changes an admin state. `ProvInv` adds that whatever an adapter or a timer
  waits for is of a device that was adopted (`Waits`), and that no request is newer than
  the last answer (`Fresh`).

Model-checked only:

- all liveness (`Converges`, `AssignsWhatIsWanted`, `HaltedComesToRest`, `Joined`,
  `Elected`, `EverythingArrives`, `AgentsFollow`, `Reconnects`, `StoppedIsQuiet`,
  `WorkedOff`, `Provisioned`, `ShutdownEnds`), which needs fairness and ENABLED;
- everything about `ConfigTree`: an operation and a merge walk down the tree by
  recursion over stores, which are the elements of no set, so that they cannot
  be written as functions, and the provers do not take RECURSIVE operators;
- `RoundTrip` and `HeaderTrue`, for the same reason: packing and unpacking follow
  the nesting of the classes.

## 5. Observations without a run

- A worker applies a candidate that was withdrawn within the soak: an answer
  equal to the applied workload leaves the timer running (`worker.py:98`); the
  next poll repairs it.
- A leader can go on reassigning after `stop`: the calls under way are not
  cancelled and `halted` is looked at only by the tracking loops
  (`leader.py:70`, `123`).
- When a reassignment is re-entered, the older activation can put or delete keys
  after the newer one is through, and nothing repairs the assignment before the
  next change (`leader.py:174`).
- The deletion of the last work key goes unnoticed, because Consul then answers
  `None` (`leader.py:116`).
- After a session has expired, the old leader still runs its `Leader` while
  another instance has started one (`coordinator.py:189`).
- While one flow cannot be decomposed (for instance a controller-bound flow
  before the first ONU is up), no device of the logical device is updated.
- `OFPG_ALL` deletes the groups and leaves the flows that use them (a TODO in the
  code). `LogicalDeviceAgent.stop` unregisters a callback that was never
  registered (lines 88-91).
- The worker asks for the keys that begin with its own id, without a slash behind
  it, and so is also woken by the keys of an instance whose id continues its own
  (`worker.py:87`).
- A session that ended under an instance is never replaced: `_retry` repeats the
  put of the leader key with it for ever (`coordinator.py:260`).
- A new logical port invalidates the caches and updates no device, so an ONU lacks
  its default rules until the next table change (`logical_device_agent.py:557`).
- A transaction that adds a child and then changes it cannot be committed; the
  merge fails in a way that `fold_txbranch` does not expect, and its branches stay
  (`config_root.py:77`, against `config_proxy.py:119` "Either way, transaction will
  be deleted").
- An `update` that would change a key field raises ValueError when the child has
  its new revision already (`config_node.py:245`). The parent keeps the old one,
  but the next `add` or `remove` below the child, which does not compare keys,
  carries the changed key up, beside a sibling that may have it too. VOLTHA's own
  updates keep the keys.
- A cancelled `get` that is not the last waiter makes `_cancelGet` raise IndexError,
  and its deferred never fires (`message_queue.py:48`).
- Publishing extends the stored list of a topic by the regular expressions that
  match, which are then called twice at the next publication (`event_bus.py:105`).
  VOLTHA's own code subscribes to exact topics only.
- A port added between two lines of the select loop is not listened to before
  another port is added or closed (`frameio.py:348` and `349`).
- The adapters change the Device object in place. The update that follows
  compares it with itself, so the tree makes no new revision and calls nobody
  back.
- `DeviceAgent._validate_update` can reject nothing: what it raises ends in the
  Deferred it returns, which the tree does not look at (`device_agent.py:93`).
- The ONUs of a Tibit adapter share one queue of answers, so the ONU shown as
  active may not be the one that answered. Its OLT adapter takes any response for
  the expected one.
- An entry without a MAC address in the OLT's list of ONUs is logged and then used
  all the same: the exception ends `_detect_onus`, and the ONUs behind it are never
  detected (`tibit_olt.py:272` and `281`).
- The c-vid of an ONU is one byte of its MAC address plus 200 (`tibit_olt.py:305`),
  so two ONUs of one OLT may get the same.
- `ponsim_onu` looks up the handler of a proxied message by the id of the OLT
  (`ponsim_onu.py:115`).
- In OpenFlow 1.0 `bsn_stats_request` and `bsn_stats_reply` have the types of
  `BARRIER_REQUEST` and `BARRIER_REPLY` (`of10/const.py:493`).
- Persistence, which VOLTHA does not use: `__del__` of a revision deletes an entry
  that another live revision with the same hash needs
  (`config_rev_persisted.py:49`); `load_latest` passes `auto_prune` where a transaction
  id is expected, so that a loaded tree neither stores nor announces changes
  (`config_node.py:569`).

## 6. Not modelled

`PROJECT.json` gives the reason per component. In the modelled parts: un-keyed
and single child fields, updates that try to change a key field, tags, pruning
and exclusive proxies of the tree; two ONUs with the same c-vid; the
walk over the device graph (represented by the ONUs it meets; the code supports
one level of ONUs only); `flow_modify`, which raises at once; the removal of
logical ports and of devices, which nothing in the code does; disabling and
re-enabling of devices, which no service offers; flow tables in `Provisioning`,
which are `FlowTables`' subject; in the OpenFlow library `show`, `__eq__` and the
rejection of bytes that no peer following the protocol sends.

Not modelled at all:

- the persistence of the tree, because nothing but its tests creates a tree with
  a store;
- the adapters other than Tibit's, whose activation is a simpler or unfinished
  form of it;
- the Microsemi automata: their control is in the decorators of scapy's automaton,
  which is not in the repository;
- EOAM and OMCI packets, protobufs and the conversion between messages: formats
  without state;
- the web, netconf and Kafka front ends, `shovel`, `podder`, the simulator and the
  command line tools: input and output around a library's client.

## 7. Open work

- `Cluster`: Coordinator, Leader and Worker composed over one Consul, with an
  abstract specification (each work id has at most one owner, and one in the
  end) that it implements. Each of the three modules now has the others as its
  environment.
- A reference semantics of device tables: a packet that goes through the ONU's
  and the OLT's tables fares as the logical flows say.
- Flow mods of `OFAgent`, which the thread pool may reorder, composed with
  `FlowTables`.
- Proofs about `ConfigTree`, from an abstract merge of trees of a fixed depth.
