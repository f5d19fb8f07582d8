--------------------------- MODULE MessageChannel ---------------------------
(***************************************************************************)
(* What the frames of the process protocol promise to the two ends of a    *)
(* pipe: a first-in first-out channel of messages that is closed once.     *)
(* The receiver learns whether the last message was cut short.  Something  *)
(* that is not a message (Garbage) takes the promise away from there on.   *)
(***************************************************************************)
EXTENDS Naturals, Sequences

CONSTANTS Message, Garbage

VARIABLES
    sent,      \* messages handed over whole, and garbage
    closed,    \* "no", or how the sender ended: "whole" or "cut" in a message
    received,  \* messages taken out
    outcome    \* "open", or what the receiver was told

vars == <<sent, closed, received, outcome>>

Init ==
    /\ sent = <<>>
    /\ closed = "no"
    /\ received = <<>>
    /\ outcome = "open"

\* No garbage among the messages received, nor next in the channel.
InStep == \A j \in 1..Len(sent) : j <= Len(received) + 1 => sent[j] # Garbage

Send(m) ==
    /\ closed = "no"
    /\ sent' = Append(sent, m)
    /\ UNCHANGED <<closed, received, outcome>>

Close ==
    /\ closed = "no"
    /\ closed' \in {"whole", "cut"}
    /\ UNCHANGED <<sent, received, outcome>>

Receive ==
    /\ InStep
    /\ outcome = "open"
    /\ Len(received) < Len(sent)
    /\ received' = Append(received, sent[Len(received) + 1])
    /\ UNCHANGED <<sent, closed, outcome>>

\* The receiver has everything and is told how the channel ended.
End ==
    /\ InStep
    /\ outcome = "open"
    /\ Len(received) = Len(sent)
    /\ \/ closed = "whole" /\ outcome' = "ended"
       \/ closed = "cut" /\ outcome' = "truncated"
    /\ UNCHANGED <<sent, closed, received>>

\* The pipe itself may fail under the receiver at any time.
Fail ==
    /\ outcome = "open"
    /\ outcome' = "failed"
    /\ UNCHANGED <<sent, closed, received>>

\* Garbage: the receiver stops, or goes on with whatever it reads in it.
ReceiveGarbage ==
    /\ ~ InStep
    /\ outcome = "open"
    /\ \/ /\ outcome' \in {"ended", "truncated", "invalid"}
          /\ UNCHANGED received
       \/ /\ \E m \in Message : received' = Append(received, m)
          /\ UNCHANGED outcome
    /\ UNCHANGED <<sent, closed>>

Next ==
    \/ \E m \in Message \cup {Garbage} : Send(m)
    \/ Close \/ Receive \/ End \/ Fail \/ ReceiveGarbage

Spec == Init /\ [][Next]_vars
=============================================================================
