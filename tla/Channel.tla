------------------------------ MODULE Channel -------------------------------
(***************************************************************************)
(* What a connection promises to the code above it, whatever TCP does with *)
(* the bytes: whole messages, each once, in the order they were sent, with *)
(* nothing in between missing.  It may break and then delivers no more.    *)
(***************************************************************************)
EXTENDS Naturals, Sequences

CONSTANT Messages

VARIABLES sent, received, up

Init == sent = <<>> /\ received = <<>> /\ up = TRUE

Send ==
    /\ \E m \in Messages : sent' = Append(sent, m)
    /\ UNCHANGED <<received, up>>

Receive ==
    /\ up /\ Len(received) < Len(sent)
    /\ received' = Append(received, sent[Len(received) + 1])
    /\ UNCHANGED <<sent, up>>

Break ==
    /\ up' = FALSE
    /\ UNCHANGED <<sent, received>>

Next == Send \/ Receive \/ Break

Spec == Init /\ [][Next]_<<sent, received, up>>
=============================================================================
