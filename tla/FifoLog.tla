------------------------------- MODULE FifoLog -------------------------------
(***************************************************************************)
(* What ThreadSafeQueue promises: a log of the accepted blocks with a      *)
(* cursor.  Every block that is offered is accepted unless the queue is    *)
(* full.  A consumer that waits is served the block behind the cursor;     *)
(* there is no lock, no condition variable and no consumer asleep.         *)
(***************************************************************************)
EXTENDS Naturals, Sequences

CONSTANTS
    Consumers,
    MAX_BUFFER_DEPTH

VARIABLES
    offered,  \* blocks offered so far: the newest has this number
    log,      \* every block ever accepted, oldest first
    next,     \* how many of them have left
    waiting,  \* the consumers that asked for a block
    got       \* the last block each consumer received, 0 before the first

vars == <<offered, log, next, waiting, got>>

Backlog == Len(log) - next

Init ==
    /\ offered = 0
    /\ log = <<>>
    /\ next = 0
    /\ waiting = {}
    /\ got = [c \in Consumers |-> 0]

Full == Backlog > MAX_BUFFER_DEPTH

\* The next block is offered.  A full queue refuses it, and only a full queue.
Put ==
    /\ offered' = offered + 1
    /\ log' = IF Full THEN log ELSE Append(log, offered')
    /\ UNCHANGED <<next, waiting, got>>

Ask(c) ==
    /\ c \notin waiting
    /\ waiting' = waiting \cup {c}
    /\ UNCHANGED <<offered, log, next, got>>

\* The oldest block goes to consumer c, whether it waits or only tries.
Take(c) ==
    /\ Backlog > 0
    /\ got' = [got EXCEPT ![c] = log[next + 1]]
    /\ next' = next + 1
    /\ waiting' = waiting \ {c}
    /\ UNCHANGED <<offered, log>>

Discard ==
    /\ next' = Len(log)
    /\ UNCHANGED <<offered, log, waiting, got>>

Next ==
    \/ Put
    \/ Discard
    \/ \E c \in Consumers : Ask(c) \/ Take(c)

Spec == Init /\ [][Next]_vars

\* As long as there are blocks and consumers that wait, consumers are served.
Serve == \E c \in waiting : Take(c)

FairSpec == Spec /\ WF_vars(Serve)

\* Each block that leaves is newer than all that left before, whoever took them:
\* none is handed out twice and none overtakes another.
Newer ==
    [][\A c \in Consumers : got'[c] # got[c] =>
        \A d \in Consumers : got[d] < got'[c]]_vars
=============================================================================
