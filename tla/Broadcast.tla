------------------------------ MODULE Broadcast ------------------------------
(***************************************************************************)
(* What TcpSocket promises to its clients: packets are cast one at a time, *)
(* each to all who are on the list, and the list is not touched before the *)
(* last of them has been served.  A client misses a packet only by losing  *)
(* its connection.  There are no threads, locks, calls or units here.      *)
(***************************************************************************)
EXTENDS Naturals

CONSTANT Clients

VARIABLES
    sent,     \* packets cast so far; packet n is the n-th
    listed,   \* the clients on the list
    gone,     \* those that left it, for ever
    broken,   \* those that lost their connection
    owed,     \* those that packet number sent has still to reach
    received  \* per client: the numbers of the packets it has, whole

vars == <<sent, listed, gone, broken, owed, received>>

Init ==
    /\ sent = 0
    /\ listed = {}
    /\ gone = {}
    /\ broken = {}
    /\ owed = {}
    /\ received = [c \in Clients |-> {}]

Join(c) ==
    /\ c \notin listed \cup gone
    /\ owed = {}
    /\ listed' = listed \cup {c}
    /\ UNCHANGED <<sent, gone, broken, owed, received>>

Leave(c) ==
    /\ c \in listed
    /\ owed = {}
    /\ listed' = listed \ {c}
    /\ gone' = gone \cup {c}
    /\ UNCHANGED <<sent, broken, owed, received>>

Cast ==
    /\ sent' = sent + 1
    /\ owed = {}
    /\ owed' = listed
    /\ UNCHANGED <<listed, gone, broken, received>>

Deliver(c) ==
    /\ c \in owed \ broken
    /\ received' = [received EXCEPT ![c] = @ \cup {sent}]
    /\ owed' = owed \ {c}
    /\ UNCHANGED <<sent, listed, gone, broken>>

Lose(c) ==
    /\ c \in owed \cap broken
    /\ owed' = owed \ {c}
    /\ UNCHANGED <<sent, listed, gone, broken, received>>

\* Nobody repairs a connection.
Break(c) ==
    /\ c \notin broken
    /\ broken' = broken \cup {c}
    /\ UNCHANGED <<sent, listed, gone, owed, received>>

Next ==
    \/ Cast
    \/ \E c \in Clients : Join(c) \/ Leave(c) \/ Deliver(c) \/ Lose(c) \/ Break(c)

Spec == Init /\ [][Next]_vars

\* The packets a client has are consecutive: none is missing between two it
\* received, however often others joined, left or broke off.
Consecutive ==
    \A c \in Clients : \A m, n \in received[c] : m .. n \subseteq received[c]
=============================================================================
