---------------------------- MODULE LossyChannel ----------------------------
(***************************************************************************)
(* What a chain of handlers promises to the far end: items arrive in the   *)
(* order they were sent and none twice, but some may be missing.  An item  *)
(* is known by its number.  The commands of a client are delivered to the  *)
(* dispatcher this way, the blocks of the board to a client.               *)
(***************************************************************************)
EXTENDS Naturals, Sequences

CONSTANTS
    Ends,  \* the receivers, each with items of its own
    Batch  \* items that come at once

VARIABLES
    sent,     \* per receiver: items sent so far; item n is the n-th
    received  \* per receiver: the items delivered to it

vars == <<sent, received>>

Init ==
    /\ sent = [e \in Ends |-> 0]
    /\ received = [e \in Ends |-> <<>>]

\* New items for one or several receivers.
Send ==
    /\ \E S \in SUBSET Ends : sent' = [e \in Ends |-> sent[e] + (IF e \in S THEN Batch ELSE 0)]
    /\ UNCHANGED received

\* One that was sent and is newer than all before; those between are lost.
Deliver(e) ==
    /\ \E n \in 1 .. sent[e] :
        /\ \A i \in 1 .. Len(received[e]) : received[e][i] < n
        /\ received' = [received EXCEPT ![e] = Append(@, n)]
    /\ UNCHANGED sent

Next == Send \/ \E e \in Ends : Deliver(e)

Spec == Init /\ [][Next]_vars

\* What a receiver has got is in the order of sending and free of repetitions.
Increasing ==
    \A e \in Ends : \A i, j \in 1 .. Len(received[e]) :
        i < j => received[e][i] < received[e][j]
=============================================================================
