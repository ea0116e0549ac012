--------------------------- MODULE ThreadSafeQueue ---------------------------
(***************************************************************************)
(* threadsafe_queue: the queue between a reader of the device, which must  *)
(* never wait, and a data thread, which waits for blocks.  Every method is *)
(* one critical section of mut and so one action, except wait_and_pop,     *)
(* which gives mut up while it waits on data_cond.                         *)
(*                                                                         *)
(* log and left are history: the blocks accepted so far and the number of  *)
(* them that have left the queue.                                          *)
(***************************************************************************)
EXTENDS Naturals, Sequences, FiniteSets

CONSTANTS
    Consumers,         \* threads that take blocks
    MAX_BUFFER_DEPTH,  \* template parameter of the queue, 10000 in the code
    MaxPush            \* bound: calls of push

ASSUME QueueAssumption ==
    /\ IsFiniteSet(Consumers)
    /\ MAX_BUFFER_DEPTH \in Nat
    /\ MaxPush \in Nat

VARIABLES
    data_queue,  \* the blocks inside, by the number of their push
    cpc,         \* per consumer: "out", "ready" to test the queue, "asleep"
    got,         \* per consumer: the last block it received
    pushed,      \* calls of push so far
    log,
    left

vars == <<data_queue, cpc, got, pushed, log, left>>

Asleep == {c \in Consumers : cpc[c] = "asleep"}
Ready  == {c \in Consumers : cpc[c] = "ready"}

Init ==
    /\ data_queue = <<>>
    /\ cpc = [c \in Consumers |-> "out"]
    /\ got = [c \in Consumers |-> 0]
    /\ pushed = 0
    /\ log = <<>>
    /\ left = 0

\* data_cond.notify_one(): one sleeper, if there is one, will test the queue.
\* A bug to catch: waking only for the first block of an empty queue.
MutantNotifyFirst ==
    IF Asleep = {} \/ data_queue # <<>>
    THEN UNCHANGED cpc
    ELSE \E c \in Asleep : cpc' = [cpc EXCEPT ![c] = "ready"]

NotifyOne ==
    IF Asleep = {}
    THEN UNCHANGED cpc
    ELSE \E c \in Asleep : cpc' = [cpc EXCEPT ![c] = "ready"]

\* Bugs to catch: no bound at all; and a queue that is full too early.
MutantNeverFull == FALSE

MutantFullEarly == Len(data_queue) >= MAX_BUFFER_DEPTH

Full == Len(data_queue) > MAX_BUFFER_DEPTH

\* A block that finds the queue full is dropped, without a trace.
Push ==
    /\ pushed < MaxPush
    /\ pushed' = pushed + 1
    /\ IF Full
       THEN UNCHANGED <<data_queue, log, cpc>>
       ELSE /\ data_queue' = Append(data_queue, pushed')
            /\ log' = Append(log, pushed')
            /\ NotifyOne
    /\ UNCHANGED <<got, left>>

\* The caller receives the front element, which leaves the queue.
TakeFront(c) ==
    /\ got' = [got EXCEPT ![c] = Head(data_queue)]
    /\ data_queue' = Tail(data_queue)
    /\ left' = left + 1

\* wait_and_pop: called, and then at each test of the predicate.
CallPop(c) ==
    /\ cpc[c] = "out"
    /\ cpc' = [cpc EXCEPT ![c] = "ready"]
    /\ UNCHANGED <<data_queue, got, pushed, log, left>>

Pop(c) ==
    /\ cpc[c] = "ready"
    /\ data_queue # <<>>
    /\ TakeFront(c)
    /\ cpc' = [cpc EXCEPT ![c] = "out"]
    /\ UNCHANGED <<pushed, log>>

Sleep(c) ==
    /\ cpc[c] = "ready"
    /\ data_queue = <<>>
    /\ cpc' = [cpc EXCEPT ![c] = "asleep"]
    /\ UNCHANGED <<data_queue, got, pushed, log, left>>

\* A condition variable may wake a thread for no reason.
SpuriousWake(c) ==
    /\ cpc[c] = "asleep"
    /\ cpc' = [cpc EXCEPT ![c] = "ready"]
    /\ UNCHANGED <<data_queue, got, pushed, log, left>>

\* try_pop on an empty queue returns false and changes nothing.
TryPop(c) ==
    /\ cpc[c] = "out"
    /\ data_queue # <<>>
    /\ TakeFront(c)
    /\ UNCHANGED <<cpc, pushed, log>>

Clear ==
    /\ data_queue' = <<>>
    /\ left' = left + Len(data_queue)
    /\ UNCHANGED <<cpc, got, pushed, log>>

\* notify_all.
Notify ==
    /\ cpc' = [c \in Consumers |-> IF cpc[c] = "asleep" THEN "ready" ELSE cpc[c]]
    /\ UNCHANGED <<data_queue, got, pushed, log, left>>

WaitAndPop(c) == CallPop(c) \/ Pop(c) \/ Sleep(c) \/ SpuriousWake(c)

Next ==
    \/ Push
    \/ Clear
    \/ Notify
    \/ \E c \in Consumers : WaitAndPop(c) \/ TryPop(c)

Spec == Init /\ [][Next]_vars

\* A thread that is ready gets mut and tests the queue.  Nothing forces calls.
Fairness == \A c \in Consumers : WF_vars(Pop(c) \/ Sleep(c))

FairSpec == Spec /\ Fairness

-----------------------------------------------------------------------------
(***************************************************************************)
(* Correctness.                                                            *)
(***************************************************************************)

\* Types; and push lets the queue grow to one block more than its parameter
\* MAX_BUFFER_DEPTH, because it tests the size before it adds (push).
TypeOK ==
    /\ data_queue \in Seq(Nat)
    /\ Len(data_queue) <= MAX_BUFFER_DEPTH + 1
    /\ cpc \in [Consumers -> {"out", "ready", "asleep"}]
    /\ got \in [Consumers -> Nat]
    /\ pushed \in Nat
    /\ log \in Seq(Nat)
    /\ left \in Nat

\* No wakeup is lost: while a consumer sleeps, there is an awake one for every
\* block in the queue, although a consumer that comes late may take the block
\* another one was woken for (push and wait_and_pop).
NoLostWakeup == Asleep # {} => Len(data_queue) <= Cardinality(Ready)

\* Inside the queue no accepted block is lost, doubled or overtaken: what it
\* holds is the log without the blocks that left (push, pop and clear).
QueueIsSuffix ==
    /\ left + Len(data_queue) = Len(log)
    /\ \A i \in 1 .. Len(data_queue) : data_queue[i] = log[left + i]

\* The queue implements its promise: of the blocks handed to push only those that
\* find it full are refused, the others come out in the order they were accepted,
\* each at most once, and waiting consumers are served while there are blocks.
\* The log's count of offered blocks is the queue's count of calls of push, so
\* that a block that is dropped is a step of the log too.
Fifo == INSTANCE FifoLog WITH
            offered <- pushed, next <- left,
            waiting <- {c \in Consumers : cpc[c] # "out"}

ImplementsFifo == Fifo!Spec

ServesLikeFifo == Fifo!FairSpec

\* Of two blocks that leave the queue the later one is the newer, whichever
\* consumers took them (wait_and_pop, try_pop and clear).
NewerEachTime == Fifo!Newer
=============================================================================
