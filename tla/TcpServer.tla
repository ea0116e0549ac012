------------------------------ MODULE TcpServer ------------------------------
(***************************************************************************)
(* The TCP side of the server: TcpSocket accepts clients and broadcasts    *)
(* the packets of the data threads, a TcpSession per client reads commands *)
(* and answers them.                                                       *)
(*                                                                         *)
(* A session object is kept alive by shared pointers only: the one local   *)
(* to the accept handler and the ones captured by its read and its print   *)
(* thread.  The broadcast list SessionSet holds RAW pointers; the          *)
(* destructor erases its own entry under SessionSetMutex, the lock that    *)
(* SendMsg holds for a whole broadcast.  A packet leaves in several        *)
(* write_some calls, which the session's WriteLock keeps together.         *)
(*                                                                         *)
(* Threads: the io thread (the accept handler), per session a read and a   *)
(* print thread, and DataThreads, the callers of SendMsg.  A critical      *)
(* section that neither blocks nor calls out is one action; the ones that  *)
(* span socket calls are split at every call.                              *)
(***************************************************************************)
EXTENDS Naturals, Sequences, FiniteSets

CONSTANTS
    Sessions,       \* the session objects the server may create, one per accept
    DataThreads,    \* threads that call SendMsg: DataDealWB and DataDealNB
    SlowPeers,      \* the clients that may stop reading from their socket
    NoSession,      \* "no session": the value of an unused pointer
    Free,           \* owner of a mutex nobody holds
    PacketLen,      \* units a packet is made of; write_some moves one or more
    MaxBroadcasts,  \* bound: calls of SendMsg
    MaxCommands     \* bound: commands received, all sessions together

Readers == {"read"} \X Sessions
Senders == {"data"} \X DataThreads
Writers == Readers \cup Senders

ASSUME TcpServerAssumption ==
    /\ NoSession \notin Sessions
    /\ Free \notin Writers
    /\ SlowPeers \subseteq Sessions
    /\ PacketLen \in Nat \ {0}
    /\ MaxBroadcasts \in Nat
    /\ MaxCommands \in Nat

VARIABLES
    life,             \* "none", "live", "dtor" (last pointer dropped), "gone"
    owners,           \* who holds a shared_ptr to the session
    isRunning,        \* TcpSession::isRunning
    SendState,        \* TcpSession::SendState
    conn,             \* the connection: "open", "stalled" or "broken"
    SessionSet,       \* TcpSocket::SessionSet
    SessionSetMutex,  \* its owner, or Free
    WriteLock,        \* per session: the owner of TcpSession::WriteLock
    iopc,             \* where the accept handler is
    newSession,       \* the handler's local shared_ptr
    rpc,              \* where the read thread of a session is
    reply,            \* what is left of the command being handled
    dpc,              \* is a data thread inside SendMsg
    number,           \* the number of the packet a data thread sends
    todo,             \* sessions its loop over SessionSet has still to visit
    call,             \* the call of TcpSession::write a thread is in
    wire,             \* what each client received
    broadcasts,       \* calls of SendMsg so far
    commands          \* commands received so far

sessionVars == <<life, owners, isRunning, SendState, conn>>
ioVars      == <<iopc, newSession>>
readVars    == <<rpc, reply, commands>>
sendVars    == <<dpc, number, todo, broadcasts>>
writeVars   == <<WriteLock, call, wire>>
setVars     == <<SessionSet, SessionSetMutex>>
vars == <<sessionVars, ioVars, readVars, sendVars, writeVars, setVars>>

Holders == {"accept", "read", "print"}
Idle    == [at |-> "out", target |-> NoSession, num |-> 0, left |-> 0]
NoReply == [replies |-> 0, stops |-> FALSE, throws |-> FALSE]

(***************************************************************************)
(* What RecvCommandFun can do, as far as this module is concerned: how     *)
(* many packets it answers with, whether it clears SendState, whether it   *)
(* ends in an exception.  From top to bottom: a header that does not match *)
(* or a command that is not answered (0x0411); one answer (a short         *)
(* command, an unknown type, self check, reset); WorkCtrl 1, stop; two     *)
(* answers (inquiry, wide-band parameters); a number that does not parse;  *)
(* a self check whose write to the device fails after the answer.          *)
(***************************************************************************)
Commands ==
    { NoReply,
      [replies |-> 1, stops |-> FALSE, throws |-> FALSE],
      [replies |-> 1, stops |-> TRUE,  throws |-> FALSE],
      [replies |-> 2, stops |-> FALSE, throws |-> FALSE],
      [replies |-> 0, stops |-> FALSE, throws |-> TRUE],
      [replies |-> 1, stops |-> FALSE, throws |-> TRUE] }

(***************************************************************************)
(* One packet on a client's stream: who wrote it, the number of its        *)
(* broadcast (0 for an answer) and how many of its units have arrived.     *)
(***************************************************************************)
Packet == [from : Writers, num : Nat, got : Nat]

Complete(p) == p.got = PacketLen

\* A thread is outside write, waits for WriteLock or moves units; what is left
\* of the command being handled.
Calls == [at : {"out", "lock", "xfer"}, target : Sessions \cup {NoSession},
          num : Nat, left : 0 .. PacketLen]

Answers == [replies : 0 .. 2, stops : BOOLEAN, throws : BOOLEAN]

\* The stream w after n units of packet num arrive from writer t.
Feed(w, t, num, n) ==
    LET last == Len(w) IN
    IF w # <<>> /\ ~Complete(w[last]) /\ w[last].from = t /\ w[last].num = num
    THEN [w EXCEPT ![last].got = @ + n]
    ELSE Append(w, [from |-> t, num |-> num, got |-> n])

\* The guards of a lock_guard.  Bugs to catch: a lock left out.
MutantNoLock == TRUE

SetMutexFree == SessionSetMutex = Free

MutantNoWriteLock(s) == s \in Sessions

WriteLockFree(s) == WriteLock[s] = Free

Init ==
    /\ life = [s \in Sessions |-> "none"]
    /\ owners = [s \in Sessions |-> {}]
    /\ isRunning = [s \in Sessions |-> TRUE]
    /\ SendState = [s \in Sessions |-> TRUE]
    /\ conn = [s \in Sessions |-> "open"]
    /\ SessionSet = {}
    /\ SessionSetMutex = Free
    /\ WriteLock = [s \in Sessions |-> Free]
    /\ iopc = "accept"
    /\ newSession = NoSession
    /\ rpc = [s \in Sessions |-> "none"]
    /\ reply = [s \in Sessions |-> NoReply]
    /\ dpc = [d \in DataThreads |-> "idle"]
    /\ number = [d \in DataThreads |-> 0]
    /\ todo = [d \in DataThreads |-> {}]
    /\ call = [t \in Writers |-> Idle]
    /\ wire = [s \in Sessions |-> <<>>]
    /\ broadcasts = 0
    /\ commands = 0

(***************************************************************************)
(* Lifetime.  Dropping the last shared_ptr starts the destructor on the    *)
(* dropping thread; the object's members go when the destructor returns.   *)
(***************************************************************************)
DropRef(s, h) ==
    /\ owners' = [owners EXCEPT ![s] = @ \ {h}]
    /\ life' = IF owners[s] = {h} THEN [life EXCEPT ![s] = "dtor"] ELSE life

\* A bug to catch: the destructor erases without the lock.
MutantDestroyUnlocked(s) ==
    /\ life[s] = "dtor"
    /\ SessionSet' = SessionSet \ {s}
    /\ life' = [life EXCEPT ![s] = "gone"]
    /\ IF iopc = "dtor" /\ newSession = s
       THEN iopc' = "accept" /\ newSession' = NoSession
       ELSE UNCHANGED ioVars
    /\ UNCHANGED <<owners, isRunning, SendState, conn, SessionSetMutex>>
    /\ UNCHANGED <<readVars, sendVars, writeVars>>

\* ~TcpSession, which is RemoveFromSet: lock, erase, unlock, members destroyed.
\* It runs on the io thread when the accept handler dropped the last pointer.
Destroy(s) ==
    /\ life[s] = "dtor"
    /\ SetMutexFree
    /\ SessionSet' = SessionSet \ {s}
    /\ life' = [life EXCEPT ![s] = "gone"]
    /\ IF iopc = "dtor" /\ newSession = s
       THEN iopc' = "accept" /\ newSession' = NoSession
       ELSE UNCHANGED ioVars
    /\ UNCHANGED <<owners, isRunning, SendState, conn, SessionSetMutex>>
    /\ UNCHANGED <<readVars, sendVars, writeVars>>

(***************************************************************************)
(* The accept handler.  A failed accept is only reported: a session is     *)
(* made from the unopened socket all the same.                             *)
(***************************************************************************)
OnAccept(s) ==
    /\ iopc = "accept"
    /\ life[s] = "none"
    /\ \E c \in {"open", "broken"} : conn' = [conn EXCEPT ![s] = c]
    /\ life' = [life EXCEPT ![s] = "live"]
    /\ owners' = [owners EXCEPT ![s] = {"accept"}]
    /\ newSession' = s
    /\ iopc' = "startRead"
    /\ UNCHANGED <<isRunning, SendState, readVars, sendVars, writeVars, setVars>>

StartReadThread ==
    /\ iopc = "startRead"
    /\ owners' = [owners EXCEPT ![newSession] = @ \cup {"read"}]
    /\ rpc' = [rpc EXCEPT ![newSession] = "check"]
    /\ iopc' = "startPrint"
    /\ UNCHANGED <<life, isRunning, SendState, conn, newSession, reply, commands>>
    /\ UNCHANGED <<sendVars, writeVars, setVars>>

StartPrintThread ==
    /\ iopc = "startPrint"
    /\ owners' = [owners EXCEPT ![newSession] = @ \cup {"print"}]
    /\ iopc' = "insert"
    /\ UNCHANGED <<life, isRunning, SendState, conn, newSession>>
    /\ UNCHANGED <<readVars, sendVars, writeVars, setVars>>

\* Bugs to catch: an insertion without the lock, one that skips a session
\* whose threads have failed already.
MutantInsertUnlocked ==
    /\ iopc = "insert"
    /\ SessionSet' = SessionSet \cup {newSession}
    /\ iopc' = "return"
    /\ UNCHANGED <<newSession, SessionSetMutex>>
    /\ UNCHANGED <<sessionVars, readVars, sendVars, writeVars>>

MutantInsertRunning ==
    /\ iopc = "insert"
    /\ SetMutexFree
    /\ SessionSet' = SessionSet \cup {s \in {newSession} : isRunning[s]}
    /\ iopc' = "return"
    /\ UNCHANGED <<newSession, SessionSetMutex>>
    /\ UNCHANGED <<sessionVars, readVars, sendVars, writeVars>>

\* The rest of AddToSet: the threads run already when the session is inserted.
InsertIntoSet ==
    /\ iopc = "insert"
    /\ SetMutexFree
    /\ SessionSet' = SessionSet \cup {newSession}
    /\ iopc' = "return"
    /\ UNCHANGED <<newSession, SessionSetMutex>>
    /\ UNCHANGED <<sessionVars, readVars, sendVars, writeVars>>

\* async_accept is armed again and the handler's own pointer goes away.
HandlerReturn ==
    /\ iopc = "return"
    /\ DropRef(newSession, "accept")
    /\ IF life'[newSession] = "dtor"
       THEN iopc' = "dtor" /\ newSession' = newSession
       ELSE iopc' = "accept" /\ newSession' = NoSession
    /\ UNCHANGED <<isRunning, SendState, conn>>
    /\ UNCHANGED <<readVars, sendVars, writeVars, setVars>>

(***************************************************************************)
(* The read thread: while (isRunning) read();                              *)
(***************************************************************************)
ReadLoop(s) ==
    /\ rpc[s] = "check"
    /\ isRunning[s]
    /\ rpc' = [rpc EXCEPT ![s] = "recv"]
    /\ UNCHANGED <<reply, commands>>
    /\ UNCHANGED <<sessionVars, ioVars, sendVars, writeVars, setVars>>

\* A bug to catch: the read thread ends but its pointer is kept (a cycle).
MutantReadExitKeeps(s) ==
    /\ rpc[s] = "check"
    /\ ~isRunning[s]
    /\ rpc' = [rpc EXCEPT ![s] = "exited"]
    /\ UNCHANGED <<sessionVars, reply, commands>>
    /\ UNCHANGED <<ioVars, sendVars, writeVars, setVars>>

ReadExit(s) ==
    /\ rpc[s] = "check"
    /\ ~isRunning[s]
    /\ rpc' = [rpc EXCEPT ![s] = "exited"]
    /\ DropRef(s, "read")
    /\ UNCHANGED <<isRunning, SendState, conn, reply, commands>>
    /\ UNCHANGED <<ioVars, sendVars, writeVars, setVars>>

\* read_some returns an error: the connection is broken or the peer closed
\* its sending side (which leaves the other direction usable).
ReadFails(s) ==
    /\ rpc[s] = "recv"
    /\ isRunning' = [isRunning EXCEPT ![s] = FALSE]
    /\ rpc' = [rpc EXCEPT ![s] = "check"]
    /\ UNCHANGED <<life, owners, SendState, conn, reply, commands>>
    /\ UNCHANGED <<ioVars, sendVars, writeVars, setVars>>

ReadCommand(s) ==
    /\ rpc[s] = "recv"
    /\ conn[s] # "broken"
    /\ commands < MaxCommands
    /\ commands' = commands + 1
    /\ \E c \in Commands :
        /\ reply' = [reply EXCEPT ![s] = c]
        /\ SendState' = [SendState EXCEPT ![s] = @ /\ ~c.stops]
    /\ rpc' = [rpc EXCEPT ![s] = "handle"]
    /\ UNCHANGED <<life, owners, isRunning, conn>>
    /\ UNCHANGED <<ioVars, sendVars, writeVars, setVars>>

\* ControlReplay and WorkParmReplay: a packet for this session only.
Reply(s) ==
    /\ rpc[s] = "handle"
    /\ reply[s].replies > 0
    /\ call[<<"read", s>>].at = "out"
    /\ reply' = [reply EXCEPT ![s].replies = @ - 1]
    /\ call' = [call EXCEPT ![<<"read", s>>] =
                    [at |-> "lock", target |-> s, num |-> 0, left |-> PacketLen]]
    /\ UNCHANGED <<rpc, commands, WriteLock, wire>>
    /\ UNCHANGED <<sessionVars, ioVars, sendVars, setVars>>

\* RecvCommandFun returns, or throws into the handler of read().
CommandDone(s) ==
    /\ rpc[s] = "handle"
    /\ reply[s].replies = 0
    /\ call[<<"read", s>>].at = "out"
    /\ isRunning' = [isRunning EXCEPT ![s] = @ /\ ~reply[s].throws]
    /\ reply' = [reply EXCEPT ![s] = NoReply]
    /\ rpc' = [rpc EXCEPT ![s] = "check"]
    /\ UNCHANGED <<life, owners, SendState, conn, commands>>
    /\ UNCHANGED <<ioVars, sendVars, writeVars, setVars>>

\* The print thread leaves its loop; until then it only prints and sleeps.
PrintExit(s) ==
    /\ "print" \in owners[s]
    /\ ~isRunning[s]
    /\ DropRef(s, "print")
    /\ UNCHANGED <<isRunning, SendState, conn>>
    /\ UNCHANGED <<ioVars, readVars, sendVars, writeVars, setVars>>

(***************************************************************************)
(* SendMsg: the loop over SessionSet, under SessionSetMutex.               *)
(***************************************************************************)
BeginSend(d) ==
    /\ dpc[d] = "idle"
    /\ broadcasts < MaxBroadcasts
    /\ SetMutexFree
    /\ SessionSetMutex' = <<"data", d>>
    /\ broadcasts' = broadcasts + 1
    /\ number' = [number EXCEPT ![d] = broadcasts + 1]
    /\ todo' = [todo EXCEPT ![d] = SessionSet]
    /\ dpc' = [dpc EXCEPT ![d] = "send"]
    /\ UNCHANGED SessionSet
    /\ UNCHANGED <<sessionVars, ioVars, readVars, writeVars>>

SendNext(d) ==
    /\ dpc[d] = "send"
    /\ call[<<"data", d>>].at = "out"
    /\ \E s \in todo[d] :
        /\ todo' = [todo EXCEPT ![d] = @ \ {s}]
        /\ call' = [call EXCEPT ![<<"data", d>>] =
                [at |-> "lock", target |-> s, num |-> number[d], left |-> PacketLen]]
    /\ UNCHANGED <<dpc, number, broadcasts, WriteLock, wire>>
    /\ UNCHANGED <<sessionVars, ioVars, readVars, setVars>>

EndSend(d) ==
    /\ dpc[d] = "send"
    /\ todo[d] = {}
    /\ call[<<"data", d>>].at = "out"
    /\ dpc' = [dpc EXCEPT ![d] = "idle"]
    /\ SessionSetMutex' = Free
    /\ UNCHANGED <<number, todo, broadcasts, SessionSet>>
    /\ UNCHANGED <<sessionVars, ioVars, readVars, writeVars>>

(***************************************************************************)
(* TcpSession::write, called by thread t.                                  *)
(***************************************************************************)
LockWrite(t) ==
    LET s == call[t].target IN
    /\ call[t].at = "lock"
    /\ WriteLockFree(s)
    /\ WriteLock' = [WriteLock EXCEPT ![s] = t]
    /\ call' = [call EXCEPT ![t].at = "xfer"]
    /\ UNCHANGED wire
    /\ UNCHANGED <<sessionVars, ioVars, readVars, sendVars, setVars>>

\* write_some moves n units; the last ones end the call and unlock.
WriteSome(t) ==
    LET s == call[t].target IN
    /\ call[t].at = "xfer"
    /\ conn[s] = "open"
    /\ \E n \in 1 .. call[t].left :
        /\ wire' = [wire EXCEPT ![s] = Feed(@, t, call[t].num, n)]
        /\ IF n = call[t].left
           THEN /\ call' = [call EXCEPT ![t] = Idle]
                /\ WriteLock' = [WriteLock EXCEPT ![s] = Free]
           ELSE /\ call' = [call EXCEPT ![t].left = @ - n]
                /\ UNCHANGED WriteLock
    /\ UNCHANGED <<sessionVars, ioVars, readVars, sendVars, setVars>>

\* Bugs to catch: a failed write_some is tried again for ever, or returns
\* without unlocking.
MutantWriteRetries(t) ==
    LET s == call[t].target IN
    /\ call[t].at = "xfer"
    /\ conn[s] = "broken"
    /\ isRunning' = [isRunning EXCEPT ![s] = FALSE]
    /\ UNCHANGED <<life, owners, SendState, conn>>
    /\ UNCHANGED <<ioVars, readVars, sendVars, writeVars, setVars>>

WriteFails(t) ==
    LET s == call[t].target IN
    /\ call[t].at = "xfer"
    /\ conn[s] = "broken"
    /\ isRunning' = [isRunning EXCEPT ![s] = FALSE]
    /\ call' = [call EXCEPT ![t] = Idle]
    /\ WriteLock' = [WriteLock EXCEPT ![s] = Free]
    /\ UNCHANGED <<life, owners, SendState, conn, wire>>
    /\ UNCHANGED <<ioVars, readVars, sendVars, setVars>>

(***************************************************************************)
(* The clients.  A stalled one does not read: its window is full and       *)
(* write_some blocks.  A broken connection stays broken.                   *)
(***************************************************************************)
SetConn(s, from, to) ==
    /\ life[s] \in {"live", "dtor"}
    /\ conn[s] \in from
    /\ conn' = [conn EXCEPT ![s] = to]
    /\ UNCHANGED <<life, owners, isRunning, SendState>>
    /\ UNCHANGED <<ioVars, readVars, sendVars, writeVars, setVars>>

PeerStalls(s) == s \in SlowPeers /\ SetConn(s, {"open"}, "stalled")

PeerDrains(s) == SetConn(s, {"stalled"}, "open")

PeerBreaks(s) == SetConn(s, {"open", "stalled"}, "broken")

-----------------------------------------------------------------------------

IoThread ==
    \/ \E s \in Sessions : OnAccept(s)
    \/ StartReadThread
    \/ StartPrintThread
    \/ InsertIntoSet
    \/ HandlerReturn

ReadThread(s) ==
    \/ ReadLoop(s)
    \/ ReadExit(s)
    \/ ReadFails(s)
    \/ ReadCommand(s)
    \/ Reply(s)
    \/ CommandDone(s)

SendMsg(d) == BeginSend(d) \/ SendNext(d) \/ EndSend(d)

Write(t) == LockWrite(t) \/ WriteSome(t) \/ WriteFails(t)

Peer(s) == PeerStalls(s) \/ PeerDrains(s) \/ PeerBreaks(s)

Next ==
    \/ IoThread
    \/ \E s \in Sessions : ReadThread(s) \/ PrintExit(s) \/ Destroy(s) \/ Peer(s)
    \/ \E d \in DataThreads : SendMsg(d)
    \/ \E t \in Writers : Write(t)

Spec == Init /\ [][Next]_vars

(***************************************************************************)
(* Fairness.  Every thread runs when it can.  Nothing forces an accept, a  *)
(* command, a broadcast or a peer; a read must return only on a broken     *)
(* connection.  A mutex that is released again and again is granted at     *)
(* last to each thread that waits for it.                                  *)
(***************************************************************************)
Fairness ==
    /\ WF_vars(StartReadThread \/ StartPrintThread \/ HandlerReturn)
    /\ SF_vars(InsertIntoSet)
    /\ \A s \in Sessions :
        /\ WF_vars(ReadLoop(s) \/ ReadExit(s) \/ Reply(s) \/ CommandDone(s))
        /\ WF_vars(conn[s] = "broken" /\ ReadFails(s))
        /\ WF_vars(PrintExit(s))
        /\ SF_vars(Destroy(s))
    /\ \A d \in DataThreads : WF_vars(SendNext(d) \/ EndSend(d))
    /\ \A t \in Writers :
        /\ SF_vars(LockWrite(t))
        /\ SF_vars(WriteSome(t) \/ WriteFails(t))

FairSpec == Spec /\ Fairness
-----------------------------------------------------------------------------
(***************************************************************************)
(* Correctness.                                                            *)
(***************************************************************************)

\* Every variable has its type; a call in a session carries what is left of
\* one packet, and only writers own a WriteLock (TcpSession.h, TcpSocket.h).
TypeOK ==
    /\ life \in [Sessions -> {"none", "live", "dtor", "gone"}]
    /\ owners \in [Sessions -> SUBSET Holders]
    /\ isRunning \in [Sessions -> BOOLEAN]
    /\ SendState \in [Sessions -> BOOLEAN]
    /\ conn \in [Sessions -> {"open", "stalled", "broken"}]
    /\ SessionSet \subseteq Sessions
    /\ SessionSetMutex \in Senders \cup {Free}
    /\ WriteLock \in [Sessions -> Writers \cup {Free}]
    /\ iopc \in {"accept", "startRead", "startPrint", "insert", "return", "dtor"}
    /\ newSession \in Sessions \cup {NoSession}
    /\ rpc \in [Sessions -> {"none", "check", "recv", "handle", "exited"}]
    /\ reply \in [Sessions -> Answers]
    /\ dpc \in [DataThreads -> {"idle", "send"}]
    /\ number \in [DataThreads -> Nat]
    /\ todo \in [DataThreads -> SUBSET Sessions]
    /\ call \in [Writers -> Calls]
    /\ wire \in [Sessions -> Seq(Packet)]
    /\ broadcasts \in Nat
    /\ commands \in Nat

Exists(s) == life[s] \in {"live", "dtor"}

\* No thread ever touches a destroyed session.  A data thread works with raw
\* pointers from SessionSet, which own nothing: whatever it has still to visit
\* and the session it is writing to must exist until it is done, whoever drops
\* the last shared_ptr meanwhile (TcpSocket::SendMsg against ~TcpSession).
NoUseAfterDestroy ==
    /\ \A t \in Writers : call[t].at # "out" => Exists(call[t].target)
    /\ \A d \in DataThreads : \A s \in todo[d] : Exists(s)
    /\ \A s \in SessionSet : Exists(s)

\* A packet leaves in several write_some calls, between which an answer of the
\* read thread and a broadcast meet: on every client's stream each packet is
\* whole, except a last one that its writer is still sending under WriteLock,
\* or that a broken connection cut off (TcpSession::write).
WholePackets ==
    \A s \in Sessions : \A i \in 1 .. Len(wire[s]) :
        LET p == wire[s][i] IN
        ~Complete(p) =>
            /\ i = Len(wire[s])
            /\ \/ conn[s] = "broken"
               \/ /\ WriteLock[s] = p.from
                  /\ call[p.from].at = "xfer"
                  /\ call[p.from].target = s
                  /\ call[p.from].left = PacketLen - p.got

\* All clients see the broadcasts in one order, that of the calls of SendMsg,
\* and none of them twice, although several data threads send and every client
\* drains at its own pace (TcpSocket::SendMsg).
SameOrderEverywhere ==
    \A s \in Sessions : \A i, j \in 1 .. Len(wire[s]) :
        i < j /\ wire[s][i].num # 0 /\ wire[s][j].num # 0 =>
            wire[s][i].num < wire[s][j].num

\* A broadcast skips nobody: as long as it holds SessionSetMutex, each client
\* on the list is either still to be served, or has the whole packet, or lost
\* its connection.  The list may not change under the loop (TcpSocket::SendMsg
\* against AddToSet and RemoveFromSet).
BroadcastReachesAll ==
    \A d \in DataThreads : dpc[d] = "send" =>
        \A s \in SessionSet :
            \/ s \in todo[d]
            \/ call[<<"data", d>>].target = s
            \/ conn[s] = "broken"
            \/ \E i \in 1 .. Len(wire[s]) :
                wire[s][i].num = number[d] /\ Complete(wire[s][i])

\* The broadcasts that a client has got, whole.
Whole(s) ==
    {wire[s][i].num : i \in {j \in 1 .. Len(wire[s]) : Complete(wire[s][j])}} \ {0}

\* The sessions that the broadcast under way has still to serve.
Unserved ==
    {s \in Sessions : \E d \in DataThreads :
        \/ s \in todo[d]
        \/ call[<<"data", d>>].at # "out" /\ call[<<"data", d>>].target = s}

GoneSessions == {s \in Sessions : life[s] = "gone"}

BrokenSessions == {s \in Sessions : conn[s] = "broken"}

Received == [s \in Sessions |-> Whole(s)]

B == INSTANCE Broadcast WITH
        Clients <- Sessions,
        sent <- broadcasts,
        listed <- SessionSet,
        gone <- GoneSessions,
        broken <- BrokenSessions,
        owed <- Unserved,
        received <- Received

\* Threads, locks, calls of write and units make one atomic broadcast after the
\* other: SendMsg, AddToSet, RemoveFromSet and write implement Broadcast, where
\* a client misses a packet only by losing its connection.
ImplementsBroadcast == B!Spec

\* Between two broadcasts that a client has got it misses none, however often
\* others were accepted, destroyed or broke off meanwhile (TcpSocket::SendMsg).
NoGaps == B!Consecutive

\* A client whose accept handler has returned is on the broadcast list until
\* its session is destroyed, even if its threads ran and failed before the
\* handler inserted it (TcpSession::AddToSet starts them first).
Registered ==
    \A s \in Sessions :
        life[s] = "live" /\ "accept" \notin owners[s] => s \in SessionSet

\* After "Work Param Stop, State: Stopped" the client gets no further data: when
\* the command is done, SendMsg does not call write on a session whose SendState
\* is off (TcpSession::RecvCommandFun, case WorkCtrl 1).
StopIsObeyed ==
    [][\A d \in DataThreads, s \in Sessions :
        s \in todo[d] /\ call'[<<"data", d>>].target = s =>
            SendState[s] \/ rpc[s] = "handle"]_vars

\* No client stalls for ever: it drains, breaks off or is gone at last.
PeersMakeProgress ==
    \A s \in Sessions : []<>(conn[s] # "stalled" \/ life[s] = "gone")

\* If no client stalls for ever, a session that stopped running is destroyed:
\* both its threads notice, and its destructor gets SessionSetMutex
\* (TcpSession::read, write and StartWork).
StoppedIsReaped ==
    PeersMakeProgress =>
        \A s \in Sessions : (life[s] = "live" /\ ~isRunning[s]) ~> (life[s] = "gone")

\* If no client stalls for ever, every broadcast ends, and with it the hold
\* on SessionSetMutex that accept and destructor wait for (TcpSocket::SendMsg).
BroadcastEnds ==
    PeersMakeProgress =>
        \A d \in DataThreads : (dpc[d] = "send") ~> (dpc[d] = "idle")
=============================================================================
