------------------------------- MODULE Handoff -------------------------------
(* What the two threads of process/mut.c promise each other: the numbers are *)
(* handed over one by one, each at most once, none that was not sent; in      *)
(* which order they are received is left open.                                *)
EXTENDS Naturals

CONSTANT Items     \* how many numbers are sent: 0 .. Items - 1

VARIABLES sent,      \* how many have been sent
          offered,   \* sent and not received
          received   \* the numbers received

HandoffVars == <<sent, offered, received>>

HandoffInit == sent = 0 /\ offered = {} /\ received = {}

Send ==
    /\ sent < Items
    /\ sent' = sent + 1
    /\ offered' = offered \cup {sent}
    /\ UNCHANGED received

Receive(n) ==
    /\ n \in offered
    /\ offered' = offered \ {n}
    /\ received' = received \cup {n}
    /\ UNCHANGED sent

HandoffNext == Send \/ \E n \in offered : Receive(n)

HandoffSpec == HandoffInit /\ [][HandoffNext]_HandoffVars

=============================================================================
