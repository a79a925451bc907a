------------------------------ MODULE FrameIO ------------------------------
(***************************************************************************)
(* The frame I/O manager (common/frameio/frameio.py): raw frames of a set  *)
(* of network interfaces, read by a thread in a select loop and handed to  *)
(* the reactor thread.  The two threads share the dictionary of ports, the *)
(* flag ports_changed, the flag stopped and a pipe that wakes the select;  *)
(* no lock protects them, so every access is a step of its own here unless *)
(* it commutes with what the other thread does.                            *)
(*                                                                         *)
(* The reactor's operations are operators for the modules that use them;   *)
(* frames appear in the sockets from outside.                              *)
(***************************************************************************)
EXTENDS Naturals, Sequences, FiniteSets, Functions

CONSTANTS
    Interfaces,         \* names of network interfaces
    Filter(_)           \* the filter of the ports: which frames are wanted

VARIABLES
    ports,              \* interfaces with a FrameIOPort in self.ports
    ports_changed,
    stopped,
    pipe,               \* unread bytes of the waker's pipe
    thread,             \* [pc, sockets] of the select thread
    inbox,              \* frames in the socket of each port, oldest first
    calls,              \* the reactor's callFromThread queue: [port, frame]
    missed              \* history: ports that were added between the listing
                        \* and the clearing of the flag

frameVars == <<ports, ports_changed, stopped, pipe, thread, inbox, calls,
               missed>>

Thread(pc) == [thread EXCEPT !.pc = pc]

FrameInit ==
    /\ ports = {} /\ ports_changed = FALSE /\ stopped = FALSE
    /\ pipe = 0
    /\ thread = [pc |-> "list", sockets |-> {}]
    /\ inbox = [i \in Interfaces |-> <<>>]
    /\ calls = <<>>
    /\ missed = {}

-----------------------------------------------------------------------------
(* The reactor thread.                                                     *)

\* Mutant: the select loop is woken up but not told to list the ports again.
add_interface_NoFlag(i) ==
    /\ ports' = ports \cup {i}
    /\ pipe' = pipe + 1
    /\ UNCHANGED <<ports_changed, missed>>

\* A second port on the interface fails the assertion.
add_interface(i) ==
    /\ i \notin ports
    /\ ports' = ports \cup {i}
    /\ ports_changed' = TRUE
    /\ pipe' = pipe + 1
    /\ missed' = IF thread.pc = "clear" THEN missed \cup {i} ELSE missed

\* del_interface() of the ports in drop, then stop() up to join().
StopFrames(drop) ==
    /\ ports' = ports \ drop
    /\ ports_changed' = (ports_changed \/ drop # {})
    /\ stopped' = TRUE
    /\ pipe' = pipe + 1 + (IF drop = {} THEN 0 ELSE 1)
    /\ missed' = missed \ drop
    /\ UNCHANGED <<thread, inbox, calls>>

-----------------------------------------------------------------------------
(* The select thread.                                                      *)

\* Outer loop: the ports are listed.
List ==
    /\ thread.pc = "list"
    /\ thread' = IF stopped THEN Thread("done")
                 ELSE [Thread("clear") EXCEPT !.sockets = ports]
    /\ missed' = IF stopped THEN missed ELSE {}
    /\ UNCHANGED <<ports, ports_changed, stopped, pipe, inbox, calls>>

\* Then the flag is cleared.
Clear ==
    /\ thread.pc = "clear"
    /\ ports_changed' = FALSE
    /\ thread' = Thread("check")
    /\ UNCHANGED <<ports, stopped, pipe, inbox, calls, missed>>

\* Mutant: the inner loop does not look at the flag.
Check_Forever ==
    /\ thread.pc = "check"
    /\ thread' = Thread("select")
    /\ UNCHANGED <<ports, ports_changed, stopped, pipe, inbox, calls, missed>>

\* Inner loop: leave it, and the outer one, when stopped.
Check ==
    /\ thread.pc = "check"
    /\ thread' = Thread(IF stopped THEN "done" ELSE "select")
    /\ UNCHANGED <<ports, ports_changed, stopped, pipe, inbox, calls, missed>>

\* select() raises, as on a socket that was closed: the inner loop is left,
\* and the ports are listed again.
SelectFails ==
    /\ thread.pc = "select"
    /\ thread' = Thread("list")
    /\ UNCHANGED <<ports, ports_changed, stopped, pipe, inbox, calls, missed>>

Readable == {i \in thread.sockets : inbox[i] # <<>>}

\* The frames that pass the filter of the port.
Passed(read) == SelectSeq(read, LAMBDA c : Filter(c.frame))

\* select() returns with whatever is readable, nothing after a time-out, and
\* recv() reads a frame of each readable port, in any order; those that pass
\* the filter go to the reactor.  Then the flag is tested.  A port outside
\* good raises the RuntimeError that is only logged ("happens sometimes right
\* after the socket was attached"); its frame stays where it is.  What the
\* reactor does meanwhile might as well come first, so this is one step.
Select(good) ==
    /\ thread.pc = "select"
    /\ good \subseteq Readable
    /\ \E order \in Bijection(1..Cardinality(good), good) :
        calls' = calls \o Passed([k \in DOMAIN order |->
                        [port |-> order[k], frame |-> Head(inbox[order[k]])]])
    /\ inbox' = [i \in Interfaces |->
                    IF i \in good THEN Tail(inbox[i]) ELSE inbox[i]]
    /\ pipe' = IF pipe > 0 THEN pipe - 1 ELSE 0
    /\ thread' = Thread(IF ports_changed THEN "list" ELSE "check")
    /\ UNCHANGED <<ports, ports_changed, stopped, missed>>

SelectLoop ==
    \/ List \/ Clear \/ Check \/ SelectFails
    \/ \E good \in SUBSET Interfaces : Select(good)

-----------------------------------------------------------------------------

\* Whatever port there is, the thread reads it or is about to list the ports
\* again, unless it was added between the two lines that list the ports and
\* clear the flag: that is the only way to a port that nobody listens to.
ListensUnlessMissed ==
    \A i \in ports :
        \/ i \in thread.sockets \/ i \in missed
        \/ ports_changed \/ stopped \/ thread.pc = "list"
=============================================================================
