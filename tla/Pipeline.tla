------------------------------ MODULE Pipeline ------------------------------
(***************************************************************************)
(* The way of a block through the server: the read thread of its channel   *)
(* takes it from the board and pushes it into the queue, a data thread     *)
(* makes messages of it, and SendMsg writes each to all sessions.          *)
(*                                                                         *)
(* The parts are those of Acquisition, ThreadSafeQueue, WBSpectrum,        *)
(* NarrowBand and TcpServer, each reduced to what it promises; what this   *)
(* module adds is how they hold each other up: the three locks of the      *)
(* server, taken by data threads, sessions and the accept handler, the     *)
(* clients that stall, and the queue that drops what does not fit.         *)
(***************************************************************************)
EXTENDS Naturals, Sequences, FiniteSets

CONSTANTS
    Channels,          \* WB and NB
    WB,                \* the channel whose data thread holds ParamPowerWBMutex
    Clients,
    MAX_BUFFER_DEPTH,  \* of the queues
    FRAMES,            \* messages of a block
    Free,              \* the holder of a free lock
    Slow,              \* the clients that may stall or break
    MaxBlocks,         \* bound: blocks of the board, for each channel
    MaxCommands        \* bound: commands, all clients together

ASSUME PipelineAssumption ==
    /\ WB \in Channels
    /\ Free \notin Channels \cup Clients
    /\ Channels \cap Clients = {}
    /\ MAX_BUFFER_DEPTH \in Nat
    /\ FRAMES \in Nat \ {0}
    /\ Slow \subseteq Clients
    /\ MaxBlocks \in [Channels -> Nat]
    /\ MaxCommands \in Nat

VARIABLES
    read,        \* per channel: blocks read from the board, numbered from 1
    queue,       \* per channel: tsqueueWBs, tsqueueNBs
    block,       \* per channel: the block its data thread works on, 0 if none
    part,        \* per channel: messages of that block that are out
    todo,        \* per channel: sessions the message has still to be written to
    SessionSet,
    ParamPowerWBMutex,
    SessionSetMutex,
    WriteLock,   \* per client
    conn,        \* per client: "away", "on", "stalled", "broken" or "gone"
    command,     \* per client: "none", "parse" or "answer"
    commands,    \* commands received
    received,    \* per client and channel: the messages it got, by number
    lost         \* history: blocks that met a full queue or ended without a
                 \* message: filtered, or kept for the frame of a later one

boardVars  == <<read, queue, lost>>
workVars   == <<block, part, ParamPowerWBMutex>>
sendVars   == <<todo, SessionSetMutex>>
clientVars == <<SessionSet, conn>>
commandVars == <<command, commands>>
vars == <<boardVars, workVars, sendVars, clientVars, commandVars, WriteLock, received>>

Ends == Clients \X Channels

Init ==
    /\ read = [ch \in Channels |-> 0]
    /\ queue = [ch \in Channels |-> <<>>]
    /\ block = [ch \in Channels |-> 0]
    /\ part = [ch \in Channels |-> 0]
    /\ todo = [ch \in Channels |-> {}]
    /\ SessionSet = {}
    /\ ParamPowerWBMutex = Free
    /\ SessionSetMutex = Free
    /\ WriteLock = [c \in Clients |-> Free]
    /\ conn = [c \in Clients |-> "away"]
    /\ command = [c \in Clients |-> "none"]
    /\ commands = 0
    /\ received = [e \in Ends |-> <<>>]
    /\ lost = [ch \in Channels |-> {}]

(***************************************************************************)
(* The read thread: a block from the board, the callback, the push.        *)
(***************************************************************************)
\* A bug to catch: one block more fits.
MutantFull(ch) == Len(queue[ch]) > MAX_BUFFER_DEPTH + 1

Full(ch) == Len(queue[ch]) > MAX_BUFFER_DEPTH

ReadBlock(ch) ==
    /\ read[ch] < MaxBlocks[ch]
    /\ read' = [read EXCEPT ![ch] = @ + 1]
    /\ IF Full(ch)
       THEN /\ lost' = [lost EXCEPT ![ch] = @ \cup {read'[ch]}]
            /\ UNCHANGED queue
       ELSE /\ queue' = [queue EXCEPT ![ch] = Append(@, read'[ch])]
            /\ UNCHANGED lost
    /\ UNCHANGED <<workVars, sendVars, clientVars, commandVars, WriteLock, received>>

(***************************************************************************)
(* The data thread.                                                        *)
(***************************************************************************)
\* A bug to catch: a block is looked at and stays in the queue while it is sent.
MutantPopFront(ch) == queue

PopFront(ch) == [queue EXCEPT ![ch] = Tail(@)]

WaitAndPop(ch) ==
    /\ block[ch] = 0
    /\ queue[ch] # <<>>
    /\ block' = [block EXCEPT ![ch] = Head(queue[ch])]
    /\ part' = [part EXCEPT ![ch] = 0]
    /\ queue' = PopFront(ch)
    /\ UNCHANGED <<read, lost, ParamPowerWBMutex, sendVars, clientVars, commandVars>>
    /\ UNCHANGED <<WriteLock, received>>

\* DataDealWB holds the parameters from the filter to the last frame.
Ready(ch) == ch = WB => ParamPowerWBMutex = ch

LockParams ==
    /\ block[WB] # 0
    /\ ParamPowerWBMutex = Free
    /\ ParamPowerWBMutex' = WB
    /\ UNCHANGED <<boardVars, block, part, sendVars, clientVars, commandVars>>
    /\ UNCHANGED <<WriteLock, received>>

\* The block makes no message, or it made its last one.  It makes none if the data
\* thread filters it, and if ToWaveData or ToPulseData only collects it: the frame
\* is sent with the block that completes it, and that block has the message here.
EndBlock(ch) ==
    /\ block[ch] # 0
    /\ Ready(ch)
    /\ SessionSetMutex # ch
    /\ part[ch] \in {0, FRAMES}
    /\ lost' = IF part[ch] = 0 THEN [lost EXCEPT ![ch] = @ \cup {block[ch]}] ELSE lost
    /\ block' = [block EXCEPT ![ch] = 0]
    /\ ParamPowerWBMutex' = IF ch = WB THEN Free ELSE ParamPowerWBMutex
    /\ UNCHANGED <<read, queue, part, sendVars, clientVars, commandVars>>
    /\ UNCHANGED <<WriteLock, received>>

BeginSendMsg(ch) ==
    /\ block[ch] # 0
    /\ Ready(ch)
    /\ part[ch] < FRAMES
    /\ SessionSetMutex = Free
    /\ SessionSetMutex' = ch
    /\ todo' = [todo EXCEPT ![ch] = SessionSet]
    /\ part' = [part EXCEPT ![ch] = @ + 1]
    /\ UNCHANGED <<boardVars, block, ParamPowerWBMutex, clientVars, commandVars>>
    /\ UNCHANGED <<WriteLock, received>>

EndSendMsg(ch) ==
    /\ SessionSetMutex = ch
    /\ todo[ch] = {}
    /\ SessionSetMutex' = Free
    /\ UNCHANGED <<boardVars, workVars, todo, clientVars, commandVars, WriteLock, received>>

(***************************************************************************)
(* write, for thread x, a data thread or the read thread of the session.   *)
(***************************************************************************)
LockWrite(x, c) ==
    /\ WriteLock[c] = Free
    /\ WriteLock' = [WriteLock EXCEPT ![c] = x]
    /\ UNCHANGED <<boardVars, workVars, sendVars, clientVars, commandVars, received>>

\* A bug to catch: a session that is being answered is passed over.
MutantLockSession(ch, c) ==
    /\ SessionSetMutex = ch
    /\ c \in todo[ch]
    /\ \A d \in Clients : WriteLock[d] # ch
    /\ IF WriteLock[c] = Free
       THEN LockWrite(ch, c)
       ELSE /\ todo' = [todo EXCEPT ![ch] = @ \ {c}]
            /\ UNCHANGED <<boardVars, workVars, SessionSetMutex, clientVars, commandVars>>
            /\ UNCHANGED <<WriteLock, received>>

\* The loop goes from session to session: it holds one WriteLock at a time.
LockSession(ch, c) ==
    /\ SessionSetMutex = ch
    /\ c \in todo[ch]
    /\ \A d \in Clients : WriteLock[d] # ch
    /\ LockWrite(ch, c)

\* A bug to catch: a write that fails is tried again.
MutantWriteSession(ch, c) ==
    /\ WriteLock[c] = ch
    /\ conn[c] = "on"
    /\ received' = [received EXCEPT ![<<c, ch>>] = Append(@, FRAMES * (block[ch] - 1) + part[ch])]
    /\ todo' = [todo EXCEPT ![ch] = @ \ {c}]
    /\ WriteLock' = [WriteLock EXCEPT ![c] = Free]
    /\ UNCHANGED <<boardVars, workVars, SessionSetMutex, clientVars, commandVars>>

\* The message is out, or the connection is broken: write returns either way.
WriteSession(ch, c) ==
    /\ WriteLock[c] = ch
    /\ conn[c] # "stalled"
    /\ received' = IF conn[c] = "on"
                   THEN [received EXCEPT ![<<c, ch>>] =
                            Append(@, FRAMES * (block[ch] - 1) + part[ch])]
                   ELSE received
    /\ todo' = [todo EXCEPT ![ch] = @ \ {c}]
    /\ WriteLock' = [WriteLock EXCEPT ![c] = Free]
    /\ UNCHANGED <<boardVars, workVars, SessionSetMutex, clientVars, commandVars>>

DataThread(ch) ==
    \/ WaitAndPop(ch)
    \/ ch = WB /\ LockParams
    \/ EndBlock(ch)
    \/ BeginSendMsg(ch)
    \/ EndSendMsg(ch)
    \/ \E c \in Clients : LockSession(ch, c) \/ WriteSession(ch, c)

(***************************************************************************)
(* A session: the accept handler puts it on the list, its read thread      *)
(* executes commands and takes it off the list in the end.                 *)
(***************************************************************************)
AddToSet(c) ==
    /\ conn[c] = "away"
    /\ SessionSetMutex = Free
    /\ SessionSet' = SessionSet \cup {c}
    /\ conn' = [conn EXCEPT ![c] = "on"]
    /\ UNCHANGED <<boardVars, workVars, sendVars, commandVars, WriteLock, received>>

ReadCommand(c) ==
    /\ c \in SessionSet
    /\ conn[c] # "broken"
    /\ command[c] = "none"
    /\ commands < MaxCommands
    /\ commands' = commands + 1
    /\ command' = [command EXCEPT ![c] = "parse"]
    /\ UNCHANGED <<boardVars, workVars, sendVars, clientVars, WriteLock, received>>

\* A bug to catch: the answer is begun before the parameters are set.
MutantSetParam(c) ==
    /\ command[c] = "parse"
    /\ IF WriteLock[c] = c
       THEN /\ ParamPowerWBMutex = Free
            /\ command' = [command EXCEPT ![c] = "answer"]
            /\ UNCHANGED WriteLock
       ELSE /\ WriteLock[c] = Free
            /\ WriteLock' = [WriteLock EXCEPT ![c] = c]
            /\ UNCHANGED command
    /\ UNCHANGED <<boardVars, workVars, sendVars, clientVars, commands, received>>

\* The setters of the wide-band parameters hold their mutex for one assignment.
SetParam(c) ==
    /\ command[c] = "parse"
    /\ ParamPowerWBMutex = Free
    /\ command' = [command EXCEPT ![c] = "answer"]
    /\ UNCHANGED <<boardVars, workVars, sendVars, clientVars, commands, WriteLock, received>>

LockAnswer(c) ==
    /\ command[c] = "answer"
    /\ LockWrite(c, c)

ControlReplay(c) ==
    /\ command[c] = "answer"
    /\ WriteLock[c] = c
    /\ conn[c] # "stalled"
    /\ command' = [command EXCEPT ![c] = "none"]
    /\ WriteLock' = [WriteLock EXCEPT ![c] = Free]
    /\ UNCHANGED <<boardVars, workVars, sendVars, clientVars, commands, received>>

RemoveFromSet(c) ==
    /\ conn[c] = "broken"
    /\ command[c] = "none"
    /\ SessionSetMutex = Free
    /\ SessionSet' = SessionSet \ {c}
    /\ conn' = [conn EXCEPT ![c] = "gone"]
    /\ UNCHANGED <<boardVars, workVars, sendVars, commandVars, WriteLock, received>>

ReadThread(c) == SetParam(c) \/ LockAnswer(c) \/ ControlReplay(c) \/ RemoveFromSet(c)

\* A client stops to read, reads again, or is gone.
ConnChanges(c, from, to) ==
    /\ conn[c] = from
    /\ conn' = [conn EXCEPT ![c] = to]
    /\ UNCHANGED <<boardVars, workVars, sendVars, SessionSet, commandVars, WriteLock, received>>

Peer(c) ==
    \/ c \in Slow /\ ConnChanges(c, "on", "stalled")
    \/ ConnChanges(c, "stalled", "on")
    \/ c \in Slow /\ ConnChanges(c, "on", "broken")
    \/ ConnChanges(c, "stalled", "broken")

Next ==
    \/ \E ch \in Channels : ReadBlock(ch) \/ DataThread(ch)
    \/ \E c \in Clients : AddToSet(c) \/ ReadCommand(c) \/ ReadThread(c) \/ Peer(c)

Spec == Init /\ [][Next]_vars

\* The board goes on, threads that can go on do, and a write gets on while its
\* client reads; nothing is assumed of clients.  Weak fairness is enough for the
\* three locks only because the board and the clients send finitely many blocks
\* and commands: a thread that is overtaken at a lock again and again, as it may
\* be at ParamPowerWBMutex while wide-band blocks come without end, is outside.
FairSpec ==
    /\ Spec
    /\ \A ch \in Channels :
        /\ WF_vars(ReadBlock(ch))
        /\ WF_vars(DataThread(ch))
        /\ SF_vars(\E c \in Clients : WriteSession(ch, c))
    /\ \A c \in Clients : WF_vars(ReadThread(c)) /\ SF_vars(ControlReplay(c))

-----------------------------------------------------------------------------
(***************************************************************************)
(* Correctness.                                                            *)
(***************************************************************************)

\* However long a client stalls, a channel holds at most MAX_BUFFER_DEPTH + 2
\* blocks, and locks are held by who is at work (threadsafe_queue::push).
TypeOK ==
    /\ \A ch \in Channels :
        /\ Len(queue[ch]) <= MAX_BUFFER_DEPTH + 1
        /\ block[ch] \in 0 .. read[ch]
        /\ part[ch] \in 0 .. FRAMES
        /\ todo[ch] \subseteq SessionSet
        /\ SessionSetMutex = ch => block[ch] # 0 /\ Ready(ch)
        /\ todo[ch] # {} => SessionSetMutex = ch
    /\ ParamPowerWBMutex \in {Free, WB}
    /\ SessionSetMutex \in Channels \cup {Free}
    /\ \A c \in Clients :
        /\ WriteLock[c] \in Channels => c \in todo[WriteLock[c]]
        /\ WriteLock[c] = c => command[c] = "answer"
        /\ c \in SessionSet <=> conn[c] \in {"on", "stalled", "broken"}

\* From the board to a client: the messages of a channel arrive in the order of
\* the blocks they were made of, none twice, through the queue, the data thread
\* and the broadcast, whatever clients come, stall and go.
Chain == INSTANCE LossyChannel WITH
    Ends <- Ends,
    Batch <- FRAMES,
    sent <- [e \in Ends |-> FRAMES * read[e[2]]],
    received <- received

InOrderOnce == Chain!Spec

\* The messages a client has got of a channel, one after the other.
MessagesInOrder == Chain!Increasing

\* The blocks the data thread is done with.
Finished(ch) ==
    CASE block[ch] # 0 -> block[ch] - 1
      [] block[ch] = 0 /\ queue[ch] # <<>> -> Head(queue[ch]) - 1
      [] OTHER -> read[ch]

\* A client that is served misses nothing from its first message on, unless the
\* queue was full or the block made no message, because it was filtered or only
\* collected for a frame that a later block completes: stalls, other clients that
\* come and go, and commands cost no message.
OnlyTheQueueLoses ==
    \A c \in Clients, ch \in Channels :
        LET got == received[<<c, ch>>] IN
        conn[c] \in {"on", "stalled"} /\ got # <<>> =>
            \A b \in 1 .. Finished(ch), k \in 1 .. FRAMES :
                LET n == FRAMES * (b - 1) + k IN
                \/ n < got[1]
                \/ \E i \in 1 .. Len(got) : got[i] = n
                \/ b \in lost[ch]

(***************************************************************************)
(* The locks.  A thread is a data thread, or a session: its read thread,   *)
(* and the accept handler and the destructor that work for it.             *)
(***************************************************************************)
Threads == Channels \cup Clients

\* Thread x cannot go on before y gives a lock back.
WaitsFor(x, y) ==
    \/ x = WB /\ block[x] # 0 /\ ParamPowerWBMutex = y /\ y # x
    \/ /\ x \in Channels /\ block[x] # 0 /\ Ready(x) /\ part[x] < FRAMES
       /\ SessionSetMutex = y /\ y # x
    \/ /\ x \in Channels /\ SessionSetMutex = x /\ \A c \in Clients : WriteLock[c] # x
       /\ \E c \in todo[x] : WriteLock[c] = y
    \/ x \in Clients /\ command[x] = "parse" /\ ParamPowerWBMutex = y
    \/ x \in Clients /\ command[x] = "answer" /\ WriteLock[x] = y /\ y # x
    \/ /\ x \in Clients /\ command[x] = "none" /\ conn[x] \in {"away", "broken"}
       /\ SessionSetMutex = y

\* No threads wait for each other, although a data thread holds three locks, a
\* command of a session needs two of them and its end the third: among any threads
\* is one that waits for none of them (DataDealWB, SendMsg, write against
\* SetCmdWBParams, AddToSet, RemoveFromSet and the answers).
NoCircle ==
    \A S \in SUBSET Threads :
        S # {} => \E x \in S : \A y \in S : ~WaitsFor(x, y)

\* A thread has something to do.
HasWork(x) ==
    \/ x \in Channels /\ (block[x] # 0 \/ queue[x] # <<>>)
    \/ x \in Clients /\ (command[x] # "none" \/ conn[x] = "broken")

\* A thread writes to a client that does not read.
AtStalled(x) == \E c \in Clients : WriteLock[c] = x /\ conn[c] = "stalled"

\* Whoever cannot go on waits for a lock or for a client it writes to.  The
\* conjuncts stand for the guards of DataThread and ReadThread.
CanGoOn(x) ==
    \/ /\ x \in Channels
       /\ \/ block[x] = 0 /\ queue[x] # <<>>
          \/ x = WB /\ block[x] # 0 /\ ParamPowerWBMutex = Free
          \/ /\ block[x] # 0 /\ Ready(x) /\ SessionSetMutex # x
             /\ part[x] \in {0, FRAMES} \/ SessionSetMutex = Free
          \/ SessionSetMutex = x /\ todo[x] = {}
          \/ /\ SessionSetMutex = x /\ \A c \in Clients : WriteLock[c] # x
             /\ \E c \in todo[x] : WriteLock[c] = Free
          \/ \E c \in Clients : WriteLock[c] = x /\ conn[c] # "stalled"
    \/ /\ x \in Clients
       /\ \/ command[x] = "parse" /\ ParamPowerWBMutex = Free
          \/ command[x] = "answer" /\ WriteLock[x] = Free
          \/ command[x] = "answer" /\ WriteLock[x] = x /\ conn[x] # "stalled"
          \/ command[x] = "none" /\ conn[x] = "broken" /\ SessionSetMutex = Free

\* The server as a whole never stops with work left, unless a client that does
\* not read stops a write to it (DataDealWB, SendMsg, write, the read threads).
SomeoneGoesOn ==
    (\E x \in Threads : HasWork(x)) => \E x \in Threads : CanGoOn(x) \/ AtStalled(x)

NobodyStallsForEver == \A c \in Clients : []<>(conn[c] # "stalled")

\* If no client stalls for ever, what the queues accepted is worked off: no order
\* in which data threads, sessions and accept handler take the locks stops them.
BacklogDrains ==
    NobodyStallsForEver =>
        \A ch \in Channels : (queue[ch] # <<>>) ~> (queue[ch] = <<>> /\ block[ch] = 0)

\* And every command is answered, or its client breaks: it waits for the wide-band
\* parameters, which are held as long as a block is sent to all clients.
CommandEnds ==
    NobodyStallsForEver =>
        \A c \in Clients : (command[c] # "none") ~> (command[c] = "none")
=============================================================================
