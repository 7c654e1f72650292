---------------------------- MODULE MessageGate ----------------------------
(***************************************************************************)
(* What the client-to-server pipe promises, without packets, reads and     *)
(* buffers: messages are taken in the order they were sent, each exactly   *)
(* once and as a whole, and what is delivered of each is what the policy   *)
(* makes of it.                                                            *)
(***************************************************************************)
EXTENDS Naturals, Sequences

CONSTANTS
    Message,        \* the messages clients may send
    Outcomes(_)     \* the lists of packets the policy may make of a message

VARIABLES
    sent,           \* messages sent
    handled,        \* how many of them have been decided
    delivered       \* packets delivered of these

vars == <<sent, handled, delivered>>

Init == sent = <<>> /\ handled = 0 /\ delivered = <<>>

Send ==
    /\ \E m \in Message : sent' = Append(sent, m)
    /\ UNCHANGED <<handled, delivered>>

Decide ==
    /\ handled < Len(sent)
    /\ handled' = handled + 1
    /\ \E packets \in Outcomes(sent[handled + 1]) : delivered' = delivered \o packets
    /\ UNCHANGED sent

Next == Send \/ Decide

Safety == Init /\ [][Next]_vars
Spec   == Safety /\ WF_vars(Decide)
=============================================================================
