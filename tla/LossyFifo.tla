------------------------------ MODULE LossyFifo ------------------------------
(***************************************************************************)
(* What a chain of bounded queues that drop on overflow still promises:    *)
(* items leave in the order they were offered, each at most once.          *)
(***************************************************************************)
EXTENDS Naturals

VARIABLES newest,    \* number of the last item offered
          received   \* number of the last item that came out

Init == newest = 0 /\ received = 0

Offer == newest' = newest + 1 /\ UNCHANGED received

Receive == received' \in received + 1 .. newest /\ UNCHANGED newest

Next == Offer \/ Receive

Spec == Init /\ [][Next]_<<newest, received>>
=============================================================================
