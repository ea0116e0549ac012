--------------------------- MODULE TcpServerProofs ---------------------------
(***************************************************************************)
(* Proofs about TcpServer, for any number of sessions and data threads.    *)
(***************************************************************************)
EXTENDS TcpServer, TLAPS

(***************************************************************************)
(* The inductive invariant.  NoUseAfterDestroy alone is not inductive: why *)
(* a session with a raw pointer still in use is not destroyed depends on   *)
(* who owns it (OwnersOK), on what a data thread that is inside SendMsg    *)
(* holds (SendOK) and on a reader writing only to its own client (ReadOK). *)
(***************************************************************************)
\* The accept handler owns exactly the session it works on.
AcceptOK ==
    /\ iopc = "accept" <=> newSession = NoSession
    /\ \A s \in Sessions :
        "accept" \in owners[s] <=> iopc # "dtor" /\ newSession = s
    /\ iopc = "startRead" => owners[newSession] = {"accept"}

\* A session lives as long as it has an owner, and its read thread is one.
OwnersOK ==
    \A s \in Sessions :
        /\ life[s] = "live" <=> owners[s] # {}
        /\ rpc[s] \in {"check", "recv", "handle"} <=> "read" \in owners[s]

\* A data thread inside SendMsg owns the lock, and visits members of the list.
SendOK ==
    \A d \in DataThreads :
        /\ dpc[d] = "send" <=> SessionSetMutex = <<"data", d>>
        /\ todo[d] \subseteq SessionSet
        /\ dpc[d] = "idle" => todo[d] = {}
        /\ call[<<"data", d>>].at # "out" =>
            dpc[d] = "send" /\ call[<<"data", d>>].target \in SessionSet

\* A read thread writes to its own client, while it handles a command.
ReadOK ==
    \A s \in Sessions :
        call[<<"read", s>>].at # "out" =>
            rpc[s] = "handle" /\ call[<<"read", s>>].target = s

ListOK == \A s \in SessionSet : Exists(s)

IInv == TypeOK /\ AcceptOK /\ OwnersOK /\ SendOK /\ ReadOK /\ ListOK
LEMMA IdleIsCall == Idle \in Calls
  BY TcpServerAssumption DEF Idle, Calls

LEMMA CommandsAreAnswers == Commands \subseteq Answers /\ NoReply \in Answers
<1>1. \A n \in 0 .. 2, b, c \in BOOLEAN :
        [replies |-> n, stops |-> b, throws |-> c] \in Answers
  BY DEF Answers
<1>2. {0, 1, 2} \subseteq 0 .. 2
  OBVIOUS
<1> QED
  BY <1>1, <1>2 DEF Commands, NoReply

\* Answering once more, and moving n more units, keep the records well typed.
LEMMA AnswerLess ==
    ASSUME NEW r \in Answers, r.replies > 0
    PROVE  [r EXCEPT !.replies = @ - 1] \in Answers
  BY DEF Answers

LEMMA CallLocks ==
    ASSUME NEW c \in Calls
    PROVE  [c EXCEPT !.at = "xfer"] \in Calls
  BY DEF Calls

LEMMA CallMoves ==
    ASSUME NEW c \in Calls, NEW n \in 1 .. c.left
    PROVE  /\ [c EXCEPT !.left = @ - n] \in Calls
           /\ [c EXCEPT !.left = @ - n].target = c.target
           /\ [c EXCEPT !.left = @ - n].at = c.at
  BY TcpServerAssumption DEF Calls

LEMMA FeedType ==
    ASSUME NEW w \in Seq(Packet), NEW t \in Writers, NEW num \in Nat, NEW n \in Nat
    PROVE  Feed(w, t, num, n) \in Seq(Packet)
<1> DEFINE last == Len(w)
<1>1. CASE w # <<>> /\ ~Complete(w[last]) /\ w[last].from = t /\ w[last].num = num
  <2>1. last \in 1 .. Len(w) /\ w[last] \in Packet
    BY <1>1
  <2>2. [w[last] EXCEPT !.got = @ + n] \in Packet
    <3> DEFINE q == w[last]
    <3>1. q \in Packet
      BY <2>1
    <3> HIDE DEF q
    <3>2. q.got + n \in Nat
      BY <3>1 DEF Packet
    <3> QED
      BY <3>1, <3>2 DEF Packet, q
  <2>3. Feed(w, t, num, n) = [w EXCEPT ![last] = [w[last] EXCEPT !.got = @ + n]]
    BY <1>1 DEF Feed
  <2> QED
    BY <2>1, <2>2, <2>3
<1>2. CASE ~(w # <<>> /\ ~Complete(w[last]) /\ w[last].from = t /\ w[last].num = num)
  <2>1. [from |-> t, num |-> num, got |-> n] \in Packet
    BY DEF Packet
  <2> QED
    BY <1>2, <2>1 DEF Feed
<1> QED
  BY <1>1, <1>2

LEMMA TypeStep ==
    ASSUME TypeOK, AcceptOK, [Next]_vars
    PROVE  TypeOK'
<1> USE TcpServerAssumption DEF TypeOK, sessionVars, ioVars, readVars, sendVars, writeVars, setVars
<1>1. ASSUME NEW s \in Sessions, OnAccept(s) PROVE TypeOK'
  BY <1>1 DEF OnAccept, Holders
<1>2. ASSUME StartReadThread PROVE TypeOK'
  BY <1>2 DEF StartReadThread, Holders, AcceptOK
<1>3. ASSUME StartPrintThread PROVE TypeOK'
  BY <1>3 DEF StartPrintThread, Holders
<1>4. ASSUME InsertIntoSet PROVE TypeOK'
  BY <1>4 DEF InsertIntoSet, AcceptOK
<1>5. ASSUME HandlerReturn PROVE TypeOK'
  BY <1>5 DEF HandlerReturn, DropRef
<1>6. ASSUME NEW s \in Sessions, ReadLoop(s) PROVE TypeOK'
  BY <1>6 DEF ReadLoop
<1>7. ASSUME NEW s \in Sessions, ReadExit(s) PROVE TypeOK'
  BY <1>7 DEF ReadExit, DropRef
<1>8. ASSUME NEW s \in Sessions, ReadFails(s) PROVE TypeOK'
  BY <1>8 DEF ReadFails
<1>9. ASSUME NEW s \in Sessions, ReadCommand(s) PROVE TypeOK'
  <2>1. PICK c \in Commands : /\ reply' = [reply EXCEPT ![s] = c]
                              /\ SendState' = [SendState EXCEPT ![s] = @ /\ ~c.stops]
    BY <1>9 DEF ReadCommand
  <2>2. c \in Answers
    BY CommandsAreAnswers
  <2>3. reply' \in [Sessions -> Answers]
    BY <2>1, <2>2
  <2>4. SendState' \in [Sessions -> BOOLEAN]
    BY <2>1
  <2> QED
    BY <1>9, <2>3, <2>4 DEF ReadCommand
<1>10. ASSUME NEW s \in Sessions, Reply(s) PROVE TypeOK'
  <2>1. reply' \in [Sessions -> Answers]
    <3>1. reply' = [reply EXCEPT ![s] = [reply[s] EXCEPT !.replies = @ - 1]]
      BY <1>10 DEF Reply
    <3>2. reply[s] \in Answers /\ reply[s].replies > 0
      BY <1>10 DEF Reply
    <3>3. [reply[s] EXCEPT !.replies = @ - 1] \in Answers
      BY <3>2, AnswerLess
    <3> QED
      BY <3>1, <3>3
  <2>2. [at |-> "lock", target |-> s, num |-> 0, left |-> PacketLen] \in Calls
    BY DEF Calls
  <2>3. call' \in [Writers -> Calls]
    BY <1>10, <2>2 DEF Reply
  <2> QED
    BY <1>10, <2>1, <2>3 DEF Reply
<1>11. ASSUME NEW s \in Sessions, CommandDone(s) PROVE TypeOK'
  BY <1>11, CommandsAreAnswers DEF CommandDone
<1>12. ASSUME NEW s \in Sessions, PrintExit(s) PROVE TypeOK'
  BY <1>12 DEF PrintExit, DropRef
<1>13. ASSUME NEW s \in Sessions, Destroy(s) PROVE TypeOK'
  BY <1>13 DEF Destroy
<1>14. ASSUME NEW d \in DataThreads, BeginSend(d) PROVE TypeOK'
  BY <1>14 DEF BeginSend, Senders
<1>15. ASSUME NEW d \in DataThreads, SendNext(d) PROVE TypeOK'
  <2>1. PICK s \in todo[d] :
            /\ todo' = [todo EXCEPT ![d] = @ \ {s}]
            /\ call' = [call EXCEPT ![<<"data", d>>] =
                    [at |-> "lock", target |-> s, num |-> number[d], left |-> PacketLen]]
    BY <1>15 DEF SendNext
  <2>2. [at |-> "lock", target |-> s, num |-> number[d], left |-> PacketLen] \in Calls
    BY <2>1 DEF Calls
  <2>3. call' \in [Writers -> Calls]
    BY <2>1, <2>2
  <2>4. todo' \in [DataThreads -> SUBSET Sessions]
    BY <2>1
  <2> QED
    BY <1>15, <2>3, <2>4 DEF SendNext
<1>16. ASSUME NEW d \in DataThreads, EndSend(d) PROVE TypeOK'
  BY <1>16 DEF EndSend
<1>17. ASSUME NEW t \in Writers, LockWrite(t) PROVE TypeOK'
  <2>1. call' = [call EXCEPT ![t] = [call[t] EXCEPT !.at = "xfer"]]
    BY <1>17 DEF LockWrite
  <2>2. [call[t] EXCEPT !.at = "xfer"] \in Calls
    BY CallLocks
  <2>3. call' \in [Writers -> Calls]
    BY <2>1, <2>2
  <2> QED
    BY <1>17, <2>3 DEF LockWrite
<1>18. ASSUME NEW t \in Writers, WriteSome(t) PROVE TypeOK'
  <2> DEFINE s == call[t].target
  <2>1. PICK n \in 1 .. call[t].left :
            /\ wire' = [wire EXCEPT ![s] = Feed(@, t, call[t].num, n)]
            /\ IF n = call[t].left
               THEN /\ call' = [call EXCEPT ![t] = Idle]
                    /\ WriteLock' = [WriteLock EXCEPT ![s] = Free]
               ELSE /\ call' = [call EXCEPT ![t].left = @ - n]
                    /\ UNCHANGED WriteLock
    BY <1>18 DEF WriteSome
  <2>2. wire' \in [Sessions -> Seq(Packet)]
    <3>1. ASSUME s \in Sessions PROVE Feed(wire[s], t, call[t].num, n) \in Seq(Packet)
      <4>1. wire[s] \in Seq(Packet) /\ call[t].num \in Nat /\ n \in Nat
        BY <3>1, <2>1 DEF Calls
      <4> QED
        BY <4>1, FeedType
    <3>2. wire' = [wire EXCEPT ![s] = Feed(wire[s], t, call[t].num, n)]
      BY <2>1
    <3> QED
      BY <3>1, <3>2
  <2>3. Idle \in Calls
    BY IdleIsCall
  <2>4. call' \in [Writers -> Calls]
    <3>1. CASE n = call[t].left
      BY <2>1, <2>3, <3>1
    <3>2. CASE n # call[t].left
      <4>1. call' = [call EXCEPT ![t] = [call[t] EXCEPT !.left = @ - n]]
        BY <2>1, <3>2
      <4>2. [call[t] EXCEPT !.left = @ - n] \in Calls
        BY CallMoves
      <4> QED
        BY <4>1, <4>2
    <3> QED
      BY <3>1, <3>2
  <2>5. WriteLock' \in [Sessions -> Writers \cup {Free}]
    BY <2>1
  <2> QED
    BY <1>18, <2>2, <2>4, <2>5 DEF WriteSome
<1>19. ASSUME NEW t \in Writers, WriteFails(t) PROVE TypeOK'
  <2>1. Idle \in Calls
    BY IdleIsCall
  <2>2. call' \in [Writers -> Calls]
    BY <1>19, <2>1 DEF WriteFails
  <2> QED
    BY <1>19, <2>2 DEF WriteFails
<1>20. ASSUME NEW s \in Sessions, Peer(s) PROVE TypeOK'
  <2>1. conn' \in [Sessions -> {"open", "stalled", "broken"}]
    BY <1>20 DEF Peer, PeerStalls, PeerDrains, PeerBreaks, SetConn
  <2> QED
    BY <1>20, <2>1 DEF Peer, PeerStalls, PeerDrains, PeerBreaks, SetConn
<1>21. ASSUME UNCHANGED vars PROVE TypeOK'
  BY <1>21 DEF vars
<1> QED
  BY <1>1, <1>2, <1>3, <1>4, <1>5, <1>6, <1>7, <1>8, <1>9, <1>10, <1>11, <1>12, <1>13, <1>14, <1>15, <1>16, <1>17, <1>18, <1>19, <1>20, <1>21
     DEF Next, IoThread, ReadThread, SendMsg, Write

LEMMA OwnersStep ==
    ASSUME IInv, [Next]_vars
    PROVE  AcceptOK' /\ OwnersOK'
<1> USE TcpServerAssumption DEF IInv, TypeOK, AcceptOK, OwnersOK, Holders, sessionVars, ioVars, readVars, sendVars, writeVars, setVars
<1>1. ASSUME NEW s \in Sessions, OnAccept(s) PROVE AcceptOK' /\ OwnersOK'
  BY <1>1 DEF OnAccept
<1>2. ASSUME StartReadThread PROVE AcceptOK' /\ OwnersOK'
  BY <1>2 DEF StartReadThread
<1>3. ASSUME StartPrintThread PROVE AcceptOK' /\ OwnersOK'
  BY <1>3 DEF StartPrintThread
<1>4. ASSUME InsertIntoSet PROVE AcceptOK' /\ OwnersOK'
  BY <1>4 DEF InsertIntoSet
<1>5. ASSUME HandlerReturn PROVE AcceptOK' /\ OwnersOK'
  BY <1>5 DEF HandlerReturn, DropRef
<1>6. ASSUME NEW s \in Sessions, ReadLoop(s) PROVE AcceptOK' /\ OwnersOK'
  BY <1>6 DEF ReadLoop
<1>7. ASSUME NEW s \in Sessions, ReadExit(s) PROVE AcceptOK' /\ OwnersOK'
  BY <1>7 DEF ReadExit, DropRef
<1>8. ASSUME NEW s \in Sessions, ReadFails(s) PROVE AcceptOK' /\ OwnersOK'
  BY <1>8 DEF ReadFails
<1>9. ASSUME NEW s \in Sessions, ReadCommand(s) PROVE AcceptOK' /\ OwnersOK'
  BY <1>9 DEF ReadCommand
<1>10. ASSUME NEW s \in Sessions, Reply(s) PROVE AcceptOK' /\ OwnersOK'
  BY <1>10 DEF Reply
<1>11. ASSUME NEW s \in Sessions, CommandDone(s) PROVE AcceptOK' /\ OwnersOK'
  BY <1>11 DEF CommandDone
<1>12. ASSUME NEW s \in Sessions, PrintExit(s) PROVE AcceptOK' /\ OwnersOK'
  BY <1>12 DEF PrintExit, DropRef
<1>13. ASSUME NEW s \in Sessions, Destroy(s) PROVE AcceptOK' /\ OwnersOK'
  BY <1>13 DEF Destroy
<1>14. ASSUME NEW d \in DataThreads, BeginSend(d) PROVE AcceptOK' /\ OwnersOK'
  BY <1>14 DEF BeginSend
<1>15. ASSUME NEW d \in DataThreads, SendNext(d) PROVE AcceptOK' /\ OwnersOK'
  BY <1>15 DEF SendNext
<1>16. ASSUME NEW d \in DataThreads, EndSend(d) PROVE AcceptOK' /\ OwnersOK'
  BY <1>16 DEF EndSend
<1>17. ASSUME NEW t \in Writers, LockWrite(t) PROVE AcceptOK' /\ OwnersOK'
  BY <1>17 DEF LockWrite
<1>18. ASSUME NEW t \in Writers, WriteSome(t) PROVE AcceptOK' /\ OwnersOK'
  BY <1>18 DEF WriteSome
<1>19. ASSUME NEW t \in Writers, WriteFails(t) PROVE AcceptOK' /\ OwnersOK'
  BY <1>19 DEF WriteFails
<1>20. ASSUME NEW s \in Sessions, Peer(s) PROVE AcceptOK' /\ OwnersOK'
  BY <1>20 DEF Peer, PeerStalls, PeerDrains, PeerBreaks, SetConn
<1>21. ASSUME UNCHANGED vars PROVE AcceptOK' /\ OwnersOK'
  BY <1>21 DEF vars
<1> QED
  BY <1>1, <1>2, <1>3, <1>4, <1>5, <1>6, <1>7, <1>8, <1>9, <1>10, <1>11, <1>12, <1>13, <1>14, <1>15, <1>16, <1>17, <1>18, <1>19, <1>20, <1>21
     DEF Next, IoThread, ReadThread, SendMsg, Write

\* SessionSetMutex has one owner, and a free one has none: so a data thread in
\* SendMsg is the only one there.
LEMMA OneSender ==
    ASSUME IInv, NEW d \in DataThreads, dpc[d] # "idle"
    PROVE  /\ SessionSetMutex # Free
           /\ SessionSetMutex = <<"data", d>>
           /\ \A e \in DataThreads : dpc[e] # "idle" => e = d
<1>1. \A e \in DataThreads : dpc[e] # "idle" => SessionSetMutex = <<"data", e>>
  <2> SUFFICES ASSUME NEW e \in DataThreads, dpc[e] # "idle"
               PROVE  SessionSetMutex = <<"data", e>>
    OBVIOUS
  <2>1. dpc[e] = "send"
    BY DEF IInv, TypeOK
  <2> QED
    BY <2>1 DEF IInv, SendOK
<1>2. <<"data", d>> \in Writers
  BY DEF Writers, Senders
<1>3. <<"data", d>> # Free
  BY <1>2, TcpServerAssumption
<1>4. \A e \in DataThreads : <<"data", e>> = <<"data", d>> => e = d
  OBVIOUS
<1> QED
  BY <1>1, <1>3, <1>4

LEMMA ListStep ==
    ASSUME IInv, [Next]_vars
    PROVE  SendOK' /\ ReadOK' /\ ListOK'
<1>d. /\ \A d \in DataThreads : SessionSetMutex = Free => dpc[d] = "idle"
      /\ \A d, e \in DataThreads : dpc[d] = "send" /\ d # e => dpc[e] = "idle"
  BY OneSender
<1> USE DEF SendOK, ReadOK, ListOK, Exists, SetMutexFree,
            sessionVars, ioVars, readVars, sendVars, writeVars, setVars
<1>a. /\ SendOK /\ ReadOK /\ ListOK
      /\ rpc \in [Sessions -> {"none", "check", "recv", "handle", "exited"}]
      /\ dpc \in [DataThreads -> {"idle", "send"}]
      /\ todo \in [DataThreads -> SUBSET Sessions]
      /\ life \in [Sessions -> {"none", "live", "dtor", "gone"}]
      /\ SessionSet \subseteq Sessions
      /\ call \in [Writers -> Calls]
  BY DEF IInv, TypeOK
<1>b. /\ AcceptOK /\ OwnersOK /\ owners \in [Sessions -> SUBSET Holders]
      /\ newSession \in Sessions \cup {NoSession}
  BY DEF IInv, TypeOK
<1>c. /\ \A s \in Sessions : <<"read", s>> \in Writers
      /\ \A d \in DataThreads : <<"data", d>> \in Writers /\ <<"data", d>> # Free
      /\ \A s, d : <<"read", s>> # <<"data", d>>
      /\ \A d, e : <<"data", d>> = <<"data", e>> => d = e
  BY TcpServerAssumption DEF Writers, Readers, Senders
<1>1. ASSUME NEW s \in Sessions, OnAccept(s) PROVE SendOK' /\ ReadOK' /\ ListOK'
  BY <1>1, <1>a, <1>c DEF OnAccept
<1>2. ASSUME StartReadThread PROVE SendOK' /\ ReadOK' /\ ListOK'
  <2>1. SendOK'
    BY <1>2, <1>a, <1>b, <1>c DEF StartReadThread, AcceptOK, OwnersOK, Holders
  <2>2. ReadOK'
    BY <1>2, <1>a, <1>b, <1>c DEF StartReadThread, AcceptOK, OwnersOK, Holders
  <2>3. ListOK'
    BY <1>2, <1>a, <1>b, <1>c DEF StartReadThread, AcceptOK, OwnersOK, Holders
  <2> QED
    BY <2>1, <2>2, <2>3
<1>3. ASSUME StartPrintThread PROVE SendOK' /\ ReadOK' /\ ListOK'
  BY <1>3, <1>a, <1>c DEF StartPrintThread
<1>4. ASSUME InsertIntoSet PROVE SendOK' /\ ReadOK' /\ ListOK'
  <2>1. newSession \in Sessions /\ life[newSession] = "live"
    BY <1>4, <1>b DEF InsertIntoSet, AcceptOK, OwnersOK
  <2>2. SendOK'
    BY <1>4, <1>a DEF InsertIntoSet
  <2>3. ReadOK'
    BY <1>4, <1>a DEF InsertIntoSet
  <2>4. ListOK'
    BY <1>4, <2>1, <1>a DEF InsertIntoSet
  <2> QED
    BY <2>2, <2>3, <2>4
<1>5. ASSUME HandlerReturn PROVE SendOK' /\ ReadOK' /\ ListOK'
  BY <1>5, <1>a, <1>b, <1>c DEF HandlerReturn, DropRef, AcceptOK, OwnersOK, Holders
<1>6. ASSUME NEW s \in Sessions, ReadLoop(s) PROVE SendOK' /\ ReadOK' /\ ListOK'
  BY <1>6, <1>a, <1>c DEF ReadLoop
<1>7. ASSUME NEW s \in Sessions, ReadExit(s) PROVE SendOK' /\ ReadOK' /\ ListOK'
  BY <1>7, <1>a, <1>b, <1>c DEF ReadExit, DropRef, AcceptOK, OwnersOK, Holders
<1>8. ASSUME NEW s \in Sessions, ReadFails(s) PROVE SendOK' /\ ReadOK' /\ ListOK'
  BY <1>8, <1>a, <1>c DEF ReadFails
<1>9. ASSUME NEW s \in Sessions, ReadCommand(s) PROVE SendOK' /\ ReadOK' /\ ListOK'
  BY <1>9, <1>a, <1>c DEF ReadCommand
<1>10. ASSUME NEW s \in Sessions, Reply(s) PROVE SendOK' /\ ReadOK' /\ ListOK'
  BY <1>10, <1>a, <1>c DEF Reply
<1>11. ASSUME NEW s \in Sessions, CommandDone(s) PROVE SendOK' /\ ReadOK' /\ ListOK'
  <2>1. SendOK'
    BY <1>11, <1>a, <1>c DEF CommandDone
  <2>2. ReadOK'
    BY <1>11, <1>a, <1>c DEF CommandDone
  <2>3. ListOK'
    BY <1>11, <1>a, <1>c DEF CommandDone
  <2> QED
    BY <2>1, <2>2, <2>3
<1>12. ASSUME NEW s \in Sessions, PrintExit(s) PROVE SendOK' /\ ReadOK' /\ ListOK'
  BY <1>12, <1>a, <1>b, <1>c DEF PrintExit, DropRef, AcceptOK, OwnersOK, Holders
<1>13. ASSUME NEW s \in Sessions, Destroy(s) PROVE SendOK' /\ ReadOK' /\ ListOK'
  <2>1. SendOK'
    <3>1. \A d \in DataThreads : dpc[d] = "idle"
      BY <1>13, <1>d DEF Destroy
    <3>2. \A d \in DataThreads : todo[d] = {} /\ call[<<"data", d>>].at = "out"
      BY <3>1, <1>a
    <3> QED
      BY <1>13, <3>1, <3>2, <1>a DEF Destroy
  <2>2. ReadOK'
    BY <1>13, <1>a, <1>b, <1>c DEF Destroy, AcceptOK, OwnersOK, Holders
  <2>3. ListOK'
    BY <1>13, <1>a, <1>b, <1>c DEF Destroy, AcceptOK, OwnersOK, Holders
  <2> QED
    BY <2>1, <2>2, <2>3
<1>14. ASSUME NEW d \in DataThreads, BeginSend(d) PROVE SendOK' /\ ReadOK' /\ ListOK'
  <2>1. SendOK'
    <3>1. \A e \in DataThreads : dpc[e] = "idle"
      BY <1>14, <1>d DEF BeginSend
    <3>2. \A e \in DataThreads \ {d} :
            dpc'[e] = "idle" /\ todo'[e] = {} /\ SessionSetMutex' # <<"data", e>>
      <4> TAKE e \in DataThreads \ {d}
      <4>1. SessionSetMutex' = <<"data", d>>
        BY <1>14 DEF BeginSend
      <4>2. <<"data", d>> # <<"data", e>>
        OBVIOUS
      <4>3. dpc'[e] = "idle" /\ todo'[e] = {}
        <5>1. dpc[e] = "idle" /\ todo[e] = {}
          BY <3>1, <1>a
        <5>2. dpc'[e] = dpc[e]
          BY <1>14, <1>a DEF BeginSend
        <5>3. todo'[e] = todo[e]
          BY <1>14, <1>a DEF BeginSend
        <5> QED
          BY <5>1, <5>2, <5>3
      <4> QED
        BY <4>1, <4>2, <4>3
    <3>3. /\ dpc'[d] = "send" /\ SessionSetMutex' = <<"data", d>>
          /\ todo'[d] \subseteq SessionSet'
      BY <1>14, <1>a DEF BeginSend
    <3>4. \A e \in DataThreads : call'[<<"data", e>>].at = "out"
      BY <1>14, <3>1, <1>a DEF BeginSend
    <3> QED
      BY <3>2, <3>3, <3>4
  <2>2. ReadOK'
    BY <1>14, <1>a, <1>c DEF BeginSend
  <2>3. ListOK'
    BY <1>14, <1>a, <1>c DEF BeginSend
  <2> QED
    BY <2>1, <2>2, <2>3
<1>15. ASSUME NEW d \in DataThreads, SendNext(d) PROVE SendOK' /\ ReadOK' /\ ListOK'
  BY <1>15, <1>a, <1>c DEF SendNext
<1>16. ASSUME NEW d \in DataThreads, EndSend(d) PROVE SendOK' /\ ReadOK' /\ ListOK'
  <2>1. SendOK'
    <3>1. \A e \in DataThreads \ {d} : dpc[e] = "idle" /\ dpc'[e] = "idle"
      BY <1>16, <1>a, <1>d DEF EndSend
    <3>2. dpc'[d] = "idle" /\ \A e \in DataThreads : SessionSetMutex' # <<"data", e>>
      BY <1>16, <1>a, <1>c DEF EndSend
    <3> QED
      BY <1>16, <3>1, <3>2, <1>a, <1>c DEF EndSend
  <2>2. ReadOK'
    BY <1>16, <1>a, <1>c DEF EndSend
  <2>3. ListOK'
    BY <1>16, <1>a, <1>c DEF EndSend
  <2> QED
    BY <2>1, <2>2, <2>3
<1>17. ASSUME NEW t \in Writers, LockWrite(t) PROVE SendOK' /\ ReadOK' /\ ListOK'
  BY <1>17, <1>a, <1>c DEF LockWrite
<1>18. ASSUME NEW t \in Writers, WriteSome(t) PROVE SendOK' /\ ReadOK' /\ ListOK'
  <2>1. PICK n \in 1 .. call[t].left :
            IF n = call[t].left
            THEN call' = [call EXCEPT ![t] = Idle]
            ELSE call' = [call EXCEPT ![t] = [call[t] EXCEPT !.left = @ - n]]
    BY <1>18 DEF WriteSome
  <2>2. \A u \in Writers : call'[u].at # "out" =>
            call[u].at # "out" /\ call'[u].target = call[u].target
    <3>1. CASE n = call[t].left
      BY <2>1, <3>1, <1>a DEF Idle
    <3>2. CASE n # call[t].left
      <4>1. call[t] \in Calls
        BY <1>a
      <4> DEFINE r == [call[t] EXCEPT !.left = @ - n]
      <4>2. r.target = call[t].target /\ r.at = call[t].at
        BY <4>1, CallMoves
      <4>3. call' = [call EXCEPT ![t] = r]
        BY <2>1, <3>2
      <4> HIDE DEF r
      <4>4. \A u \in Writers : call'[u] = IF u = t THEN r ELSE call[u]
        BY <1>a, <4>3
      <4> QED
        BY <4>2, <4>4, <1>18 DEF WriteSome
    <3> QED
      BY <3>1, <3>2
  <2> QED
    BY <1>18, <2>2, <1>a, <1>c DEF WriteSome
<1>19. ASSUME NEW t \in Writers, WriteFails(t) PROVE SendOK' /\ ReadOK' /\ ListOK'
  BY <1>19, <1>a, <1>c DEF WriteFails, Idle
<1>20. ASSUME NEW s \in Sessions, Peer(s) PROVE SendOK' /\ ReadOK' /\ ListOK'
  BY <1>20, <1>a, <1>c DEF Peer, PeerStalls, PeerDrains, PeerBreaks, SetConn
<1>21. ASSUME UNCHANGED vars PROVE SendOK' /\ ReadOK' /\ ListOK'
  BY <1>21, <1>a DEF vars
<1> QED
  BY <1>1, <1>2, <1>3, <1>4, <1>5, <1>6, <1>7, <1>8, <1>9, <1>10, <1>11, <1>12, <1>13, <1>14, <1>15, <1>16, <1>17, <1>18, <1>19, <1>20, <1>21
     DEF Next, IoThread, ReadThread, SendMsg, Write

LEMMA InitOK == Init => IInv
  BY TcpServerAssumption, IdleIsCall, CommandsAreAnswers
     DEF Init, IInv, TypeOK, AcceptOK, OwnersOK, SendOK, ReadOK, ListOK, Idle,
         Writers, Readers, Senders

THEOREM Invariance == Spec => []IInv
<1>1. IInv /\ [Next]_vars => IInv'
  <2> SUFFICES ASSUME IInv, [Next]_vars PROVE IInv'
    OBVIOUS
  <2>1. TypeOK'
    BY TypeStep DEF IInv
  <2> QED
    BY <2>1, OwnersStep, ListStep DEF IInv
<1> QED
  BY InitOK, <1>1, PTL DEF Spec

\* Types are kept, whatever the threads and the clients do.
THEOREM TypeCorrect == Spec => []TypeOK
<1>1. IInv => TypeOK
  BY DEF IInv
<1> QED
  BY Invariance, <1>1, PTL

\* With any number of clients and data threads, no thread touches a destroyed
\* session: a raw pointer in use is either in SessionSet while SessionSetMutex
\* is held, which keeps the destructor out, or the thread's own shared_ptr.
THEOREM SafeLifetimes == Spec => []NoUseAfterDestroy
<1>1. IInv => NoUseAfterDestroy
  <2> SUFFICES ASSUME IInv PROVE NoUseAfterDestroy
    OBVIOUS
  <2>1. ASSUME NEW s \in Sessions, call[<<"read", s>>].at # "out"
        PROVE  Exists(call[<<"read", s>>].target)
    BY <2>1 DEF IInv, ReadOK, OwnersOK, Exists
  <2>2. ASSUME NEW d \in DataThreads, call[<<"data", d>>].at # "out"
        PROVE  Exists(call[<<"data", d>>].target)
    BY <2>2 DEF IInv, SendOK, ListOK
  <2>3. \A t \in Writers : call[t].at # "out" => Exists(call[t].target)
    BY <2>1, <2>2 DEF Writers, Readers, Senders
  <2>4. \A d \in DataThreads : \A s \in todo[d] : Exists(s)
    BY DEF IInv, SendOK, ListOK
  <2> QED
    BY <2>3, <2>4 DEF NoUseAfterDestroy, IInv, ListOK
<1> QED
  BY Invariance, <1>1, PTL

(***************************************************************************)
(* Registration.  Between its creation and InsertIntoSet a session is      *)
(* known by the accept handler only.                                       *)
(***************************************************************************)
ListedOK ==
    \A s \in Sessions : Exists(s) =>
        \/ s \in SessionSet
        \/ newSession = s /\ iopc \in {"startRead", "startPrint", "insert"}

LEMMA ListedStep ==
    ASSUME IInv, ListedOK, [Next]_vars
    PROVE  ListedOK'
<1> USE DEF ListedOK, Exists, sessionVars, ioVars, readVars, sendVars, writeVars, setVars
<1>a. /\ life \in [Sessions -> {"none", "live", "dtor", "gone"}]
      /\ AcceptOK
      /\ NoSession \notin Sessions
  BY TcpServerAssumption DEF IInv, TypeOK
<1>1. ASSUME NEW s \in Sessions, OnAccept(s) PROVE ListedOK'
  BY <1>1, <1>a DEF OnAccept, AcceptOK
<1>2. ASSUME StartReadThread \/ StartPrintThread PROVE ListedOK'
  BY <1>2 DEF StartReadThread, StartPrintThread
<1>3. ASSUME InsertIntoSet PROVE ListedOK'
  BY <1>3 DEF InsertIntoSet
<1>b. ASSUME NEW s \in Sessions, NEW h, DropRef(s, h)
      PROVE  \A o \in Sessions : Exists(o)' <=> Exists(o)
  <2>1. owners[s] = {h} => life[s] = "live"
    BY DEF IInv, OwnersOK
  <2> QED
    BY <1>a, <1>b, <2>1 DEF DropRef
<1>4. ASSUME HandlerReturn PROVE ListedOK'
  <2>1. newSession \in Sessions /\ DropRef(newSession, "accept")
    BY <1>4, <1>a DEF HandlerReturn, IInv, TypeOK, AcceptOK
  <2>2. \A o \in Sessions : Exists(o)' <=> Exists(o)
    BY <1>b, <2>1
  <2>3. \A o \in Sessions : Exists(o) => o \in SessionSet
    BY <1>4 DEF HandlerReturn
  <2> QED
    BY <1>4, <2>2, <2>3 DEF HandlerReturn
<1>5. ASSUME NEW s \in Sessions, ReadExit(s) \/ PrintExit(s) PROVE ListedOK'
  <2>1. \A o \in Sessions : Exists(o)' <=> Exists(o)
    BY <1>5, <1>b DEF ReadExit, PrintExit
  <2> QED
    BY <1>5, <2>1 DEF ReadExit, PrintExit
<1>6. ASSUME NEW s \in Sessions, Destroy(s) PROVE ListedOK'
  BY <1>6, <1>a DEF Destroy
<1>7. ASSUME NEW s \in Sessions,
             ReadLoop(s) \/ ReadFails(s) \/ ReadCommand(s) \/ Reply(s) \/ CommandDone(s)
      PROVE  ListedOK'
  BY <1>7 DEF ReadLoop, ReadFails, ReadCommand, Reply, CommandDone
<1>8. ASSUME NEW d \in DataThreads, SendMsg(d) PROVE ListedOK'
  BY <1>8 DEF SendMsg, BeginSend, SendNext, EndSend
<1>9. ASSUME NEW t \in Writers, Write(t) PROVE ListedOK'
  BY <1>9 DEF Write, LockWrite, WriteSome, WriteFails
<1>10. ASSUME NEW s \in Sessions, Peer(s) PROVE ListedOK'
  BY <1>10 DEF Peer, PeerStalls, PeerDrains, PeerBreaks, SetConn
<1>11. ASSUME UNCHANGED vars PROVE ListedOK'
  BY <1>11 DEF vars
<1> QED
  BY <1>1, <1>2, <1>3, <1>4, <1>5, <1>6, <1>7, <1>8, <1>9, <1>10, <1>11 DEF Next, IoThread, ReadThread

LEMMA ListedInvariance == Spec => []ListedOK
<1>1. Init => ListedOK
  BY DEF Init, ListedOK, Exists
<1>2. IInv /\ ListedOK /\ [Next]_vars => ListedOK'
  BY ListedStep
<1> QED
  BY Invariance, <1>1, <1>2, PTL DEF Spec

\* Whoever wins the race between the accept handler and the threads it started,
\* a live session whose handler has returned is on the broadcast list.
THEOREM ListedWhenServed == Spec => []Registered
<1>1. IInv /\ ListedOK => Registered
  BY DEF IInv, AcceptOK, ListedOK, Registered, Exists
<1> QED
  BY Invariance, ListedInvariance, <1>1, PTL

(***************************************************************************)
(* The streams.  The owner of a WriteLock is inside write, moving units    *)
(* (LockOK); the packet it has begun is the last one on the stream, and    *)
(* what it has still to move completes that packet (StreamOK, CallOK).     *)
(***************************************************************************)
InCall(t, s) == call[t].at # "out" /\ call[t].target = s

Moves(t, s) == call[t].at = "xfer" /\ call[t].target = s

LockOK == \A s \in Sessions : \A t \in Writers : WriteLock[s] = t <=> Moves(t, s)

StreamOK(s) ==
    /\ life[s] = "none" => wire[s] = <<>>
    /\ \A i \in 1 .. Len(wire[s]) : ~Complete(wire[s][i]) =>
        /\ i = Len(wire[s])
        /\ \/ conn[s] = "broken"
           \/ /\ Moves(wire[s][i].from, s)
              /\ call[wire[s][i].from].num = wire[s][i].num
              /\ call[wire[s][i].from].left + wire[s][i].got = PacketLen

Begun(t, w) ==
    /\ w # <<>>
    /\ ~Complete(w[Len(w)])
    /\ w[Len(w)].from = t
    /\ w[Len(w)].num = call[t].num

CallOK(t) ==
    /\ call[t].at = "lock" => call[t].left = PacketLen
    /\ call[t].at # "out" => call[t].left > 0
    /\ call[t].at = "xfer" /\ call[t].left # PacketLen => Begun(t, wire[call[t].target])

StreamInv ==
    /\ LockOK
    /\ \A s \in Sessions : StreamOK(s)
    /\ \A t \in Writers : CallOK(t)

LEMMA TargetExists ==
    ASSUME IInv, NEW t \in Writers, call[t].at # "out"
    PROVE  call[t].target \in Sessions /\ life[call[t].target] # "none"
<1>1. ASSUME NEW s \in Sessions, t = <<"read", s>>
      PROVE  call[t].target \in Sessions /\ life[call[t].target] # "none"
  BY <1>1 DEF IInv, ReadOK, OwnersOK
<1>2. ASSUME NEW d \in DataThreads, t = <<"data", d>>
      PROVE  call[t].target \in Sessions /\ life[call[t].target] # "none"
  BY <1>2 DEF IInv, SendOK, ListOK, Exists, TypeOK
<1> QED
  BY <1>1, <1>2 DEF Writers, Readers, Senders

\* What Feed does to a stream whose last packet is t's own, or complete.
LEMMA FeedExtends ==
    ASSUME NEW w \in Seq(Packet), NEW t \in Writers, NEW num \in Nat, NEW n \in Nat,
           w # <<>>, ~Complete(w[Len(w)]), w[Len(w)].from = t, w[Len(w)].num = num
    PROVE  /\ Len(Feed(w, t, num, n)) = Len(w)
           /\ \A i \in 1 .. Len(w) : i # Len(w) => Feed(w, t, num, n)[i] = w[i]
           /\ Feed(w, t, num, n)[Len(w)].from = t
           /\ Feed(w, t, num, n)[Len(w)].num = num
           /\ Feed(w, t, num, n)[Len(w)].got = w[Len(w)].got + n
<1> DEFINE last == Len(w)
           p == [w[last] EXCEPT !.got = @ + n]
<1>1. last \in 1 .. Len(w) /\ w[last] \in Packet
  OBVIOUS
<1>2. p.from = t /\ p.num = num /\ p.got = w[last].got + n
  BY <1>1 DEF Packet
<1>3. Feed(w, t, num, n) = [w EXCEPT ![last] = p]
  BY DEF Feed
<1> HIDE DEF p
<1> QED
  BY <1>1, <1>2, <1>3

LEMMA FeedAppends ==
    ASSUME NEW w \in Seq(Packet), NEW t \in Writers, NEW num \in Nat, NEW n \in Nat,
           w # <<>> => Complete(w[Len(w)])
    PROVE  /\ Len(Feed(w, t, num, n)) = Len(w) + 1
           /\ \A i \in 1 .. Len(w) : Feed(w, t, num, n)[i] = w[i]
           /\ Feed(w, t, num, n)[Len(w) + 1].from = t
           /\ Feed(w, t, num, n)[Len(w) + 1].num = num
           /\ Feed(w, t, num, n)[Len(w) + 1].got = n
<1> DEFINE p == [from |-> t, num |-> num, got |-> n]
<1>1. p \in Packet /\ p.from = t /\ p.num = num /\ p.got = n
  BY DEF Packet
<1>2. Feed(w, t, num, n) = Append(w, p)
  BY DEF Feed
<1> HIDE DEF p
<1> QED
  BY <1>1, <1>2

\* A write_some of t ends the call with the packet, or goes on with it.
Ended(t, s) ==
    /\ call' = [call EXCEPT ![t] = Idle]
    /\ WriteLock' = [WriteLock EXCEPT ![s] = Free]
    /\ wire'[s][Len(wire'[s])].got = PacketLen

GoesOn(t, s) ==
    /\ WriteLock' = WriteLock
    /\ call'[t].at = "xfer" /\ call'[t].target = s /\ call'[t].num = call[t].num
    /\ call'[t].left \in 1 .. PacketLen - 1
    /\ wire'[s][Len(wire'[s])].got \in Nat
    /\ call'[t].left + wire'[s][Len(wire'[s])].got = PacketLen
    /\ \A u \in Writers \ {t} : call'[u] = call[u]

LEMMA LeftAfter ==
    ASSUME NEW l \in Nat, NEW g \in Nat, NEW n \in Nat \ {0}, NEW p \in Nat,
           n < l, l <= p, g + l = p + n
    PROVE  l - n \in 1 .. p - 1 /\ (l - n) + g = p
  OBVIOUS

LEMMA GotAfter ==
    ASSUME NEW l \in Nat, NEW g \in Nat, NEW n \in Nat, NEW p \in Nat, l + g = p
    PROVE  (g + n) + l = p + n
  OBVIOUS

LEMMA WriteSomeStep ==
    ASSUME IInv, StreamInv, NEW t \in Writers, WriteSome(t),
           NEW s \in Sessions, call[t].target = s
    PROVE  /\ conn[s] = "open" /\ Moves(t, s)
           /\ \A o \in Sessions \ {s} : wire'[o] = wire[o]
           /\ wire'[s] \in Seq(Packet) /\ wire'[s] # <<>>
           /\ wire'[s][Len(wire'[s])].from = t
           /\ wire'[s][Len(wire'[s])].num = call[t].num
           /\ \A i \in 1 .. Len(wire[s]) : Complete(wire[s][i]) =>
                i < Len(wire'[s]) /\ wire'[s][i] = wire[s][i]
           /\ \A i \in 1 .. Len(wire'[s]) : i # Len(wire'[s]) =>
                i \in 1 .. Len(wire[s]) /\ wire'[s][i] = wire[s][i] /\ Complete(wire[s][i])
           /\ \/ Begun(t, wire[s]) /\ Len(wire'[s]) = Len(wire[s])
              \/ call[t].left = PacketLen /\ Len(wire'[s]) = Len(wire[s]) + 1
           /\ Ended(t, s) \/ GoesOn(t, s)
<1> DEFINE w == wire[s]
           v == wire'[s]
<1>1. PICK n \in 1 .. call[t].left :
            /\ wire' = [wire EXCEPT ![s] = Feed(w, t, call[t].num, n)]
            /\ IF n = call[t].left
               THEN /\ call' = [call EXCEPT ![t] = Idle]
                    /\ WriteLock' = [WriteLock EXCEPT ![s] = Free]
               ELSE /\ call' = [call EXCEPT ![t] = [call[t] EXCEPT !.left = @ - n]]
                    /\ UNCHANGED WriteLock
  BY DEF WriteSome
<1>2. /\ call[t] \in Calls /\ wire \in [Sessions -> Seq(Packet)] /\ w \in Seq(Packet)
      /\ call \in [Writers -> Calls]
  BY DEF IInv, TypeOK
<1>3. /\ call[t].num \in Nat /\ call[t].left \in 0 .. PacketLen
      /\ PacketLen \in Nat \ {0} /\ n \in Nat \ {0} /\ n <= call[t].left
  BY <1>1, <1>2, TcpServerAssumption DEF Calls
<1>4. conn[s] = "open" /\ Moves(t, s)
  BY DEF WriteSome, Moves
<1>5. StreamOK(s) /\ CallOK(t) /\ WriteLock[s] = t
  BY <1>4 DEF StreamInv, LockOK
<1>6. v = Feed(w, t, call[t].num, n) /\ \A o \in Sessions \ {s} : wire'[o] = wire[o]
  BY <1>1, <1>2
<1>7. v \in Seq(Packet)
  <2>1. Feed(w, t, call[t].num, n) \in Seq(Packet)
    BY <1>2, <1>3, FeedType
  <2> QED
    BY <1>6, <2>1
<1>8. \A i \in 1 .. Len(w) : ~Complete(w[i]) =>
          i = Len(w) /\ Begun(t, w) /\ call[t].left + w[i].got = PacketLen
  <2> TAKE i \in 1 .. Len(w)
  <2> HAVE ~Complete(w[i])
  <2>1. i = Len(w) /\ Moves(w[i].from, s)
    BY <1>4, <1>5 DEF StreamOK
  <2>2. w[i].from \in Writers
    <3>1. w[i] \in Packet
      BY <1>2
    <3> QED
      BY <3>1 DEF Packet
  <2>3. w[i].from = t
    BY <1>5, <2>1, <2>2 DEF StreamInv, LockOK
  <2>4. call[t].num = w[i].num /\ call[t].left + w[i].got = PacketLen
    BY <1>4, <1>5, <2>3 DEF StreamOK
  <2>5. i = Len(w) /\ w # <<>>
    BY <1>2, <2>1
  <2>6. Begun(t, w)
    BY <2>3, <2>4, <2>5 DEF Begun
  <2> QED
    BY <2>4, <2>5, <2>6
<1>9. Ended(t, s) \/ GoesOn(t, s) \/ ~(v # <<>> /\ v[Len(v)].got + call[t].left = PacketLen + n)
  <2> SUFFICES ASSUME v # <<>>, v[Len(v)].got + call[t].left = PacketLen + n
               PROVE  Ended(t, s) \/ GoesOn(t, s)
    OBVIOUS
  <2> DEFINE p == v[Len(v)]
  <2> HIDE DEF v
  <2>1. p \in Packet /\ p.got \in Nat
    <3>1. p \in Packet
      BY <1>7
    <3> QED
      BY <3>1 DEF Packet
  <2>2. CASE n = call[t].left
    <3>1. p.got = PacketLen
      BY <1>3, <2>1, <2>2
    <3> QED
      BY <1>1, <2>2, <3>1 DEF Ended, v
  <2>3. CASE n # call[t].left
    <3> DEFINE r == [call[t] EXCEPT !.left = @ - n]
    <3>1. r.at = "xfer" /\ r.target = s /\ r.num = call[t].num /\ r.left = call[t].left - n
      BY <1>2, <1>4 DEF Calls, Moves
    <3>2. WriteLock' = WriteLock /\ call' = [call EXCEPT ![t] = r]
      BY <1>1, <2>3
    <3> HIDE DEF r
    <3>3. call'[t] = r /\ \A u \in Writers \ {t} : call'[u] = call[u]
      BY <1>2, <3>2
    <3>4. r.left \in 1 .. PacketLen - 1 /\ r.left + p.got = PacketLen
      <4> DEFINE l == call[t].left
                 g == p.got
      <4>1. /\ l \in Nat /\ n \in Nat \ {0} /\ PacketLen \in Nat /\ n < l /\ l <= PacketLen
        BY <1>3, <2>3
      <4>2. g \in Nat /\ g + l = PacketLen + n
        BY <2>1 DEF v
      <4> HIDE DEF l, g
      <4>3. l - n \in 1 .. PacketLen - 1 /\ (l - n) + g = PacketLen
        BY <4>1, <4>2, LeftAfter
      <4>4. r.left = l - n
        BY <3>1 DEF l
      <4> QED
        BY <4>3, <4>4, Zenon DEF g
    <3> QED
      BY <2>1, <3>1, <3>2, <3>3, <3>4 DEF GoesOn, v
  <2> QED
    BY <2>2, <2>3
<1>10. CASE Begun(t, w)
  <2>1. w # <<>> /\ ~Complete(w[Len(w)]) /\ w[Len(w)].from = t /\ w[Len(w)].num = call[t].num
    BY <1>10 DEF Begun
  <2>2. /\ Len(v) = Len(w)
        /\ \A i \in 1 .. Len(w) : i # Len(w) => v[i] = w[i]
        /\ v[Len(w)].from = t /\ v[Len(w)].num = call[t].num
        /\ v[Len(w)].got = w[Len(w)].got + n
    BY <1>2, <1>3, <1>6, <2>1, FeedExtends
  <2>3. /\ Len(w) \in 1 .. Len(w) /\ Len(w) \in Nat /\ w[Len(w)] \in Packet
        /\ w[Len(w)].got \in Nat
    <3>1. Len(w) \in 1 .. Len(w) /\ w[Len(w)] \in Packet
      BY <1>2, <2>1
    <3> QED
      BY <3>1 DEF Packet
  <2>4. call[t].left + w[Len(w)].got = PacketLen
    BY <1>8, <2>1, <2>3
  <2>5. v # <<>> /\ v[Len(v)].got + call[t].left = PacketLen + n
    <3>1. v[Len(v)].got = w[Len(w)].got + n
      BY <2>2, Zenon
    <3>2. v # <<>>
      BY <1>7, <2>2, <2>3
    <3> DEFINE l == call[t].left
               g == w[Len(w)].got
    <3>3. g \in Nat /\ l \in Nat /\ n \in Nat /\ PacketLen \in Nat /\ l + g = PacketLen
      BY <1>3, <2>3, <2>4
    <3> HIDE DEF v, l, g
    <3>4. (g + n) + l = PacketLen + n
      BY <3>3, GotAfter
    <3> QED
      BY <3>1, <3>2, <3>4, Zenon DEF l, g
  <2>6. \A i \in 1 .. Len(w) : Complete(w[i]) => i < Len(v) /\ v[i] = w[i]
    BY <2>1, <2>2, <2>3
  <2>7. \A i \in 1 .. Len(v) : i # Len(v) =>
            i \in 1 .. Len(w) /\ v[i] = w[i] /\ Complete(w[i])
    BY <1>8, <2>2
  <2> QED
    BY <1>4, <1>6, <1>7, <1>9, <1>10, <2>2, <2>5, <2>6, <2>7
<1>11. CASE ~Begun(t, w)
  <2>1. \A i \in 1 .. Len(w) : Complete(w[i])
    BY <1>8, <1>11
  <2>2. Len(w) \in Nat /\ (w # <<>> => Complete(w[Len(w)]))
    <3>1. w # <<>> => Len(w) \in 1 .. Len(w)
      BY <1>2
    <3> QED
      BY <1>2, <2>1, <3>1
  <2>3. /\ Len(v) = Len(w) + 1
        /\ \A i \in 1 .. Len(w) : v[i] = w[i]
        /\ v[Len(w) + 1].from = t /\ v[Len(w) + 1].num = call[t].num
        /\ v[Len(w) + 1].got = n
    BY <1>2, <1>3, <1>6, <2>2, FeedAppends
  <2>4. call[t].left = PacketLen
    BY <1>4, <1>5, <1>11 DEF CallOK, Moves
  <2>5. v # <<>> /\ v[Len(v)].got + call[t].left = PacketLen + n
    BY <1>3, <1>7, <2>2, <2>3, <2>4
  <2>6. \A i \in 1 .. Len(w) : Complete(w[i]) => i < Len(v) /\ v[i] = w[i]
    BY <2>2, <2>3
  <2>7. \A i \in 1 .. Len(v) : i # Len(v) =>
            i \in 1 .. Len(w) /\ v[i] = w[i] /\ Complete(w[i])
    BY <2>1, <2>2, <2>3
  <2> QED
    BY <1>4, <1>6, <1>7, <1>9, <2>3, <2>4, <2>5, <2>6, <2>7
<1> QED
  BY <1>10, <1>11

\* Steps that leave calls and streams alone, and break connections at most.
LEMMA StreamFrame ==
    ASSUME StreamInv, UNCHANGED <<WriteLock, call, wire>>,
           \A s \in Sessions : life'[s] = "none" => life[s] = "none",
           \A s \in Sessions : conn[s] = "broken" => conn'[s] = "broken" \/ wire[s] = <<>>
    PROVE  StreamInv'
<1>1. LockOK'
  BY DEF StreamInv, LockOK, Moves
<1>2. ASSUME NEW s \in Sessions PROVE StreamOK(s)'
  <2>1. StreamOK(s) /\ wire'[s] = wire[s]
    BY DEF StreamInv
  <2>2. life'[s] = "none" => wire'[s] = <<>>
    BY <2>1 DEF StreamOK
  <2>3. CASE wire[s] = <<>>
    BY <2>1, <2>2, <2>3 DEF StreamOK
  <2>4. CASE wire[s] # <<>>
    BY <2>1, <2>2, <2>4 DEF StreamOK, Moves
  <2> QED
    BY <2>3, <2>4
<1>3. ASSUME NEW t \in Writers PROVE CallOK(t)'
  BY DEF StreamInv, CallOK, Begun
<1> QED
  BY <1>1, <1>2, <1>3 DEF StreamInv

\* A thread that was outside write enters it with a whole packet to move.
LEMMA StreamEnters ==
    ASSUME IInv, StreamInv, NEW t \in Writers, call[t].at = "out",
           NEW c \in Calls, c.at = "lock", c.left = PacketLen,
           call' = [call EXCEPT ![t] = c], UNCHANGED <<life, conn, WriteLock, wire>>
    PROVE  StreamInv'
<1>1. /\ \A u \in Writers : call'[u] = IF u = t THEN c ELSE call[u]
      /\ wire \in [Sessions -> Seq(Packet)]
  BY DEF IInv, TypeOK
<1>2. \A u \in Writers, s \in Sessions : Moves(u, s)' <=> Moves(u, s)
  BY <1>1 DEF Moves
<1>3. LockOK'
  BY <1>2 DEF StreamInv, LockOK
<1>4. ASSUME NEW s \in Sessions PROVE StreamOK(s)'
  <2>1. ASSUME NEW i \in 1 .. Len(wire[s]), Moves(wire[s][i].from, s)
        PROVE  call'[wire[s][i].from] = call[wire[s][i].from]
    <3>1. wire[s][i] \in Packet
      BY <1>1
    <3>2. wire[s][i].from \in Writers
      BY <3>1 DEF Packet
    <3> QED
      BY <1>1, <1>2, <2>1, <3>2 DEF Moves
  <2> QED
    BY <1>1, <2>1 DEF StreamInv, StreamOK, Moves
<1>5. ASSUME NEW u \in Writers PROVE CallOK(u)'
  <2>1. CASE u = t
    BY <1>1, <2>1, TcpServerAssumption DEF CallOK
  <2>2. CASE u # t
    BY <1>1, <2>2 DEF StreamInv, CallOK, Begun
  <2> QED
    BY <2>1, <2>2
<1> QED
  BY <1>3, <1>4, <1>5 DEF StreamInv

LEMMA StreamLocks ==
    ASSUME IInv, StreamInv, NEW t \in Writers, LockWrite(t)
    PROVE  StreamInv'
<1> DEFINE s == call[t].target
           c == [call[t] EXCEPT !.at = "xfer"]
<1>1. /\ s \in Sessions /\ WriteLock[s] = Free
      /\ WriteLock' = [WriteLock EXCEPT ![s] = t]
      /\ call' = [call EXCEPT ![t] = c]
      /\ UNCHANGED <<life, conn, wire>> /\ call[t].at = "lock"
  BY TargetExists DEF LockWrite, WriteLockFree, sessionVars
<1>2. c.at = "xfer" /\ c.target = s /\ c.num = call[t].num /\ c.left = call[t].left
  BY DEF IInv, TypeOK, Calls
<1> HIDE DEF c
<1>3. /\ \A u \in Writers : call'[u] = IF u = t THEN c ELSE call[u]
      /\ \A o \in Sessions : WriteLock'[o] = IF o = s THEN t ELSE WriteLock[o]
      /\ wire \in [Sessions -> Seq(Packet)]
  BY <1>1 DEF IInv, TypeOK
<1>4. \A u \in Writers : ~Moves(u, s)
  BY <1>1, TcpServerAssumption DEF StreamInv, LockOK
<1>5. LockOK'
  <2> SUFFICES ASSUME NEW o \in Sessions, NEW u \in Writers
               PROVE  WriteLock'[o] = u <=> Moves(u, o)'
    BY DEF LockOK
  <2>1. WriteLock[o] = u <=> Moves(u, o)
    BY DEF StreamInv, LockOK
  <2>2. CASE u = t
    BY <1>1, <1>2, <1>3, <2>1, <2>2 DEF Moves
  <2>3. CASE u # t
    BY <1>3, <1>4, <2>1, <2>3 DEF Moves
  <2> QED
    BY <2>2, <2>3
<1>6. ASSUME NEW o \in Sessions PROVE StreamOK(o)'
  <2>1. ASSUME NEW i \in 1 .. Len(wire[o]), Moves(wire[o][i].from, o)
        PROVE  call'[wire[o][i].from] = call[wire[o][i].from]
    <3>1. wire[o][i] \in Packet
      BY <1>3
    <3>2. wire[o][i].from \in Writers
      BY <3>1 DEF Packet
    <3>3. wire[o][i].from # t
      BY <1>1, <2>1 DEF Moves
    <3> QED
      BY <1>3, <2>1, <3>2, <3>3 DEF Moves
  <2> QED
    BY <1>1, <2>1 DEF StreamInv, StreamOK, Moves
<1>7. ASSUME NEW u \in Writers PROVE CallOK(u)'
  <2>1. CASE u = t
    BY <1>1, <1>2, <1>3, <2>1 DEF StreamInv, CallOK
  <2>2. CASE u # t
    BY <1>1, <1>3, <2>2 DEF StreamInv, CallOK, Begun
  <2> QED
    BY <2>1, <2>2
<1> QED
  BY <1>5, <1>6, <1>7 DEF StreamInv

LEMMA StreamFails ==
    ASSUME IInv, StreamInv, NEW t \in Writers, WriteFails(t)
    PROVE  StreamInv'
<1> DEFINE s == call[t].target
<1>1. /\ s \in Sessions /\ conn[s] = "broken" /\ Moves(t, s)
      /\ WriteLock' = [WriteLock EXCEPT ![s] = Free]
      /\ call' = [call EXCEPT ![t] = Idle]
      /\ UNCHANGED <<life, conn, wire>>
  BY TargetExists DEF WriteFails, Moves
<1>2. /\ \A u \in Writers : call'[u] = IF u = t THEN Idle ELSE call[u]
      /\ \A o \in Sessions : WriteLock'[o] = IF o = s THEN Free ELSE WriteLock[o]
      /\ wire \in [Sessions -> Seq(Packet)]
  BY <1>1 DEF IInv, TypeOK
<1>3. \A u \in Writers, o \in Sessions : Moves(u, o)' <=> u # t /\ Moves(u, o)
  BY <1>2 DEF Moves, Idle
<1>4. \A u \in Writers : Moves(u, s) => u = t
  BY <1>1 DEF StreamInv, LockOK
<1>5. LockOK'
  <2> SUFFICES ASSUME NEW o \in Sessions, NEW u \in Writers
               PROVE  WriteLock'[o] = u <=> Moves(u, o)'
    BY DEF LockOK
  <2>1. WriteLock[o] = u <=> Moves(u, o)
    BY DEF StreamInv, LockOK
  <2>2. CASE o = s
    BY <1>2, <1>3, <1>4, <2>2, TcpServerAssumption
  <2>3. CASE o # s
    <3>1. ~Moves(t, o)
      BY <1>1, <2>3 DEF Moves
    <3> QED
      BY <1>2, <1>3, <2>1, <2>3, <3>1
  <2> QED
    BY <2>2, <2>3
<1>6. ASSUME NEW o \in Sessions PROVE StreamOK(o)'
  <2>1. CASE o = s
    BY <1>1, <2>1 DEF StreamInv, StreamOK
  <2>2. CASE o # s
    <3>1. ASSUME NEW i \in 1 .. Len(wire[o]), Moves(wire[o][i].from, o)
          PROVE  call'[wire[o][i].from] = call[wire[o][i].from]
      <4>1. wire[o][i] \in Packet
        BY <1>2
      <4>2. wire[o][i].from \in Writers
        BY <4>1 DEF Packet
      <4>3. wire[o][i].from # t
        BY <1>1, <2>2, <3>1 DEF Moves
      <4> QED
        BY <1>2, <1>3, <3>1, <4>2, <4>3
    <3> QED
      BY <1>1, <3>1 DEF StreamInv, StreamOK, Moves
  <2> QED
    BY <2>1, <2>2
<1>7. ASSUME NEW u \in Writers PROVE CallOK(u)'
  <2>1. CASE u = t
    BY <1>2, <2>1 DEF CallOK, Idle
  <2>2. CASE u # t
    BY <1>1, <1>2, <2>2 DEF StreamInv, CallOK, Begun
  <2> QED
    BY <2>1, <2>2
<1> QED
  BY <1>5, <1>6, <1>7 DEF StreamInv

LEMMA StreamMoves ==
    ASSUME IInv, StreamInv, NEW t \in Writers, WriteSome(t)
    PROVE  StreamInv'
<1> DEFINE s == call[t].target
           v == wire'[s]
<1>1. call[t].at = "xfer" /\ s \in Sessions /\ UNCHANGED <<life, conn>>
  BY TargetExists DEF WriteSome, sessionVars
<1>2. /\ conn[s] = "open" /\ Moves(t, s)
      /\ \A o \in Sessions \ {s} : wire'[o] = wire[o]
      /\ v \in Seq(Packet) /\ v # <<>>
      /\ v[Len(v)].from = t /\ v[Len(v)].num = call[t].num
      /\ \A i \in 1 .. Len(v) : i # Len(v) =>
            i \in 1 .. Len(wire[s]) /\ v[i] = wire[s][i] /\ Complete(wire[s][i])
      /\ Ended(t, s) \/ GoesOn(t, s)
  BY <1>1, WriteSomeStep
<1> HIDE DEF s, v
<1>3. /\ \A u \in Writers \ {t} : call'[u] = call[u]
      /\ call \in [Writers -> Calls] /\ WriteLock \in [Sessions -> Writers \cup {Free}]
      /\ wire \in [Sessions -> Seq(Packet)]
  <2>1. call \in [Writers -> Calls] /\ WriteLock \in [Sessions -> Writers \cup {Free}]
        /\ wire \in [Sessions -> Seq(Packet)]
    BY DEF IInv, TypeOK
  <2>2. CASE Ended(t, s)
    BY <2>1, <2>2 DEF Ended
  <2>3. CASE GoesOn(t, s)
    BY <2>1, <2>3 DEF GoesOn
  <2> QED
    BY <1>2, <2>1, <2>2, <2>3
<1>4. \A u \in Writers : Moves(u, s) => u = t
  BY <1>1, <1>2 DEF StreamInv, LockOK
<1>5. LockOK'
  <2> SUFFICES ASSUME NEW o \in Sessions, NEW u \in Writers
               PROVE  WriteLock'[o] = u <=> call'[u].at = "xfer" /\ call'[u].target = o
    BY DEF LockOK, Moves
  <2>1. WriteLock[o] = u <=> call[u].at = "xfer" /\ call[u].target = o
    BY DEF StreamInv, LockOK, Moves
  <2>2. CASE Ended(t, s)
    <3>1. call'[t].at = "out"
      BY <1>3, <2>2 DEF Ended, Idle
    <3>2. WriteLock'[o] = IF o = s THEN Free ELSE WriteLock[o]
      BY <1>3, <2>2 DEF Ended
    <3>3. Free # u
      BY TcpServerAssumption
    <3>4. CASE o = s
      BY <1>3, <1>4, <3>1, <3>2, <3>3, <3>4 DEF Moves
    <3>5. CASE o # s
      BY <1>2, <1>3, <2>1, <3>1, <3>2, <3>5 DEF Moves
    <3> QED
      BY <3>4, <3>5
  <2>3. CASE GoesOn(t, s)
    BY <1>2, <1>3, <2>1, <2>3 DEF GoesOn, Moves
  <2> QED
    BY <1>2, <2>2, <2>3
<1>6. ASSUME NEW o \in Sessions, o # s PROVE StreamOK(o)'
  <2>1. ASSUME NEW i \in 1 .. Len(wire[o]), Moves(wire[o][i].from, o)
        PROVE  call'[wire[o][i].from] = call[wire[o][i].from]
    <3>1. wire[o][i] \in Packet
      BY <1>3
    <3>2. wire[o][i].from \in Writers
      BY <3>1 DEF Packet
    <3>3. wire[o][i].from # t
      BY <1>2, <1>6, <2>1 DEF Moves
    <3> QED
      BY <1>3, <3>2, <3>3
  <2>2. wire'[o] = wire[o]
    BY <1>2, <1>6
  <2> QED
    BY <1>1, <2>1, <2>2 DEF StreamInv, StreamOK, Moves
<1>7. ASSUME NEW i \in 1 .. Len(v), ~Complete(v[i])
      PROVE  i = Len(v) /\ GoesOn(t, s)
  <2>1. i = Len(v)
    BY <1>2, <1>7
  <2>2. ~Ended(t, s)
    BY <1>7, <2>1 DEF Ended, Complete, v
  <2> QED
    BY <1>2, <2>1, <2>2
<1>8. ASSUME NEW o \in Sessions, o = s PROVE StreamOK(o)'
  <2>1. life[s] # "none"
    BY <1>1, TargetExists DEF s
  <2>2. ASSUME NEW i \in 1 .. Len(v), ~Complete(v[i])
        PROVE  /\ i = Len(v)
               /\ call'[v[i].from].at = "xfer" /\ call'[v[i].from].target = s
               /\ call'[v[i].from].num = v[i].num
               /\ call'[v[i].from].left + v[i].got = PacketLen
    <3>1. i = Len(v) /\ GoesOn(t, s)
      BY <1>7, <2>2
    <3> QED
      BY <1>2, <3>1 DEF GoesOn, v
  <2> QED
    BY <1>1, <1>8, <2>1, <2>2 DEF StreamOK, Moves, Complete, v
<1>9. ASSUME NEW u \in Writers PROVE CallOK(u)'
  <2>1. CASE u = t /\ Ended(t, s)
    BY <1>3, <2>1 DEF CallOK, Ended, Idle
  <2>2. CASE u = t /\ GoesOn(t, s)
    <3>1. /\ call'[t].at = "xfer" /\ call'[t].target = s /\ call'[t].num = call[t].num
          /\ call'[t].left \in 1 .. PacketLen - 1
          /\ v[Len(v)].got \in Nat
          /\ call'[t].left + v[Len(v)].got = PacketLen
      BY <2>2 DEF GoesOn, v
    <3>2. v[Len(v)].got # PacketLen /\ call'[t].left > 0
      BY <3>1, TcpServerAssumption
    <3> QED
      BY <1>2, <2>2, <3>1, <3>2 DEF CallOK, Begun, Complete, v
  <2>3. CASE u # t
    <3>1. call'[u] = call[u] /\ CallOK(u)
      BY <1>3, <2>3 DEF StreamInv
    <3>2. ASSUME call[u].at = "xfer"
          PROVE  wire'[call[u].target] = wire[call[u].target]
      <4>1. call[u].target \in Sessions
        BY <3>2, TargetExists
      <4>2. call[u].target # s
        BY <1>4, <2>3, <3>2 DEF Moves
      <4> QED
        BY <1>2, <4>1, <4>2
    <3> QED
      BY <3>1, <3>2 DEF CallOK, Begun, Complete
  <2> QED
    BY <1>2, <2>1, <2>2, <2>3
<1> QED
  BY <1>5, <1>6, <1>8, <1>9 DEF StreamInv

LEMMA StreamStep ==
    ASSUME IInv, StreamInv, [Next]_vars
    PROVE  StreamInv'
<1> USE DEF sessionVars, ioVars, readVars, sendVars, writeVars, setVars
<1>a. /\ conn \in [Sessions -> {"open", "stalled", "broken"}]
      /\ life \in [Sessions -> {"none", "live", "dtor", "gone"}]
      /\ \A s \in Sessions : life[s] = "none" => wire[s] = <<>>
  BY DEF IInv, TypeOK, StreamInv, StreamOK
<1>1. ASSUME NEW s \in Sessions, OnAccept(s) PROVE StreamInv'
  <2>1. \A o \in Sessions : conn[o] = "broken" => conn'[o] = "broken" \/ wire[o] = <<>>
    BY <1>1, <1>a DEF OnAccept
  <2>2. \A o \in Sessions : life'[o] = "none" => life[o] = "none"
    BY <1>1, <1>a DEF OnAccept
  <2> QED
    BY <1>1, <2>1, <2>2, StreamFrame DEF OnAccept
<1>2. ASSUME StartReadThread \/ StartPrintThread \/ InsertIntoSet PROVE StreamInv'
  BY <1>2, StreamFrame DEF StartReadThread, StartPrintThread, InsertIntoSet
<1>3. ASSUME HandlerReturn PROVE StreamInv'
  <2>1. \A o \in Sessions : life'[o] = "none" => life[o] = "none"
    BY <1>3, <1>a DEF HandlerReturn, DropRef
  <2> QED
    BY <1>3, <2>1, StreamFrame DEF HandlerReturn
<1>4. ASSUME NEW s \in Sessions, ReadExit(s) \/ PrintExit(s) PROVE StreamInv'
  <2>1. \A o \in Sessions : life'[o] = "none" => life[o] = "none"
    BY <1>4, <1>a DEF ReadExit, PrintExit, DropRef
  <2> QED
    BY <1>4, <2>1, StreamFrame DEF ReadExit, PrintExit
<1>5. ASSUME NEW s \in Sessions,
             ReadLoop(s) \/ ReadFails(s) \/ ReadCommand(s) \/ CommandDone(s)
      PROVE  StreamInv'
  BY <1>5, StreamFrame DEF ReadLoop, ReadFails, ReadCommand, CommandDone
<1>6. ASSUME NEW s \in Sessions, Reply(s) PROVE StreamInv'
  <2> DEFINE c == [at |-> "lock", target |-> s, num |-> 0, left |-> PacketLen]
             t == <<"read", s>>
  <2>1. c \in Calls /\ c.at = "lock" /\ c.left = PacketLen
    BY TcpServerAssumption DEF Calls
  <2>2. t \in Writers
    BY DEF Writers, Readers
  <2>3. /\ call[t].at = "out" /\ call' = [call EXCEPT ![t] = c]
        /\ UNCHANGED <<life, conn, WriteLock, wire>>
    BY <1>6 DEF Reply
  <2> HIDE DEF c, t
  <2> QED
    BY <2>1, <2>2, <2>3, StreamEnters
<1>7. ASSUME NEW s \in Sessions, Destroy(s) PROVE StreamInv'
  <2>1. \A o \in Sessions : life'[o] = "none" => life[o] = "none"
    BY <1>7, <1>a DEF Destroy
  <2> QED
    BY <1>7, <2>1, StreamFrame DEF Destroy
<1>8. ASSUME NEW d \in DataThreads, BeginSend(d) \/ EndSend(d) PROVE StreamInv'
  BY <1>8, StreamFrame DEF BeginSend, EndSend
<1>9. ASSUME NEW d \in DataThreads, SendNext(d) PROVE StreamInv'
  <2> DEFINE t == <<"data", d>>
  <2>1. PICK s \in todo[d] : call' = [call EXCEPT ![t] =
            [at |-> "lock", target |-> s, num |-> number[d], left |-> PacketLen]]
    BY <1>9 DEF SendNext
  <2> DEFINE c == [at |-> "lock", target |-> s, num |-> number[d], left |-> PacketLen]
  <2>2. s \in Sessions /\ number[d] \in Nat
    BY DEF IInv, TypeOK
  <2>3. c \in Calls /\ c.at = "lock" /\ c.left = PacketLen
    BY <2>2, TcpServerAssumption DEF Calls
  <2>4. t \in Writers
    BY DEF Writers, Senders
  <2>5. /\ call[t].at = "out" /\ call' = [call EXCEPT ![t] = c]
        /\ UNCHANGED <<life, conn, WriteLock, wire>>
    BY <1>9, <2>1 DEF SendNext
  <2> HIDE DEF c, t
  <2> QED
    BY <2>3, <2>4, <2>5, StreamEnters
<1>10. ASSUME NEW t \in Writers, Write(t) PROVE StreamInv'
  BY <1>10, StreamLocks, StreamMoves, StreamFails DEF Write
<1>11. ASSUME NEW s \in Sessions, Peer(s) PROVE StreamInv'
  <2>1. \A o \in Sessions : conn[o] = "broken" => conn'[o] = "broken"
    BY <1>11, <1>a DEF Peer, PeerStalls, PeerDrains, PeerBreaks, SetConn
  <2>2. UNCHANGED <<WriteLock, call, wire, life>>
    BY <1>11 DEF Peer, PeerStalls, PeerDrains, PeerBreaks, SetConn
  <2> QED
    BY <2>1, <2>2, StreamFrame
<1>12. ASSUME UNCHANGED vars PROVE StreamInv'
  BY <1>12, StreamFrame DEF vars
<1> QED
  BY <1>1, <1>2, <1>3, <1>4, <1>5, <1>6, <1>7, <1>8, <1>9, <1>10, <1>11, <1>12
     DEF Next, IoThread, ReadThread, SendMsg

LEMMA StreamInit == Init => StreamInv
  BY TcpServerAssumption
     DEF Init, StreamInv, LockOK, StreamOK, CallOK, Moves, Idle, Writers, Readers, Senders

LEMMA StreamInvariance == Spec => []StreamInv
<1>1. IInv /\ StreamInv /\ [Next]_vars => StreamInv'
  BY StreamStep
<1> QED
  BY Invariance, StreamInit, <1>1, PTL DEF Spec

\* With packets of any length and any number of writers, what a client receives
\* are whole packets: a writer owns WriteLock from the first unit to the last,
\* so that the one incomplete packet of a stream is its last one.
THEOREM PacketsStayWhole == Spec => []WholePackets
<1>1. IInv /\ StreamInv => WholePackets
  <2> SUFFICES ASSUME IInv, StreamInv, NEW s \in Sessions, NEW i \in 1 .. Len(wire[s]),
                      ~Complete(wire[s][i])
               PROVE  /\ i = Len(wire[s])
                      /\ \/ conn[s] = "broken"
                         \/ /\ WriteLock[s] = wire[s][i].from
                            /\ call[wire[s][i].from].at = "xfer"
                            /\ call[wire[s][i].from].target = s
                            /\ call[wire[s][i].from].left = PacketLen - wire[s][i].got
    BY DEF WholePackets
  <2> DEFINE p == wire[s][i]
  <2>1. p \in Packet
    BY DEF IInv, TypeOK
  <2>2. i = Len(wire[s]) /\ (conn[s] = "broken" \/
          (Moves(p.from, s) /\ call[p.from].left + p.got = PacketLen))
    BY DEF StreamInv, StreamOK
  <2> HIDE DEF p
  <2>3. p.from \in Writers /\ p.got \in Nat
    BY <2>1 DEF Packet
  <2>4. call[p.from].left \in Nat
    BY <2>3 DEF IInv, TypeOK, Calls
  <2>5. CASE conn[s] = "broken"
    BY <2>2, <2>5
  <2>6. CASE conn[s] # "broken"
    <3>1. Moves(p.from, s) /\ WriteLock[s] = p.from
      BY <2>2, <2>3, <2>6 DEF StreamInv, LockOK
    <3>2. call[p.from].left = PacketLen - p.got
      BY <2>2, <2>3, <2>4, <2>6
    <3> QED
      BY <2>2, <3>1, <3>2 DEF Moves, p
  <2> QED
    BY <2>5, <2>6
<1> QED
  BY Invariance, StreamInvariance, <1>1, PTL

(***************************************************************************)
(* The broadcasts.  The numbers on the streams are no larger than the      *)
(* number of broadcasts, and a session that is still to be served has seen *)
(* none as large as the one being sent (FreshOK); the one being sent is    *)
(* the last of all, and a session is called once for it (NumOK).           *)
(***************************************************************************)
NumOK ==
    /\ \A d \in DataThreads :
        /\ number[d] <= broadcasts
        /\ dpc[d] = "send" => number[d] = broadcasts /\ broadcasts > 0
        /\ call[<<"data", d>>].at # "out" =>
            /\ call[<<"data", d>>].num = number[d]
            /\ call[<<"data", d>>].target \notin todo[d]
    /\ \A s \in Sessions : call[<<"read", s>>].at # "out" => call[<<"read", s>>].num = 0

\* Session s has still to get the first unit of what d sends.
Awaits(d, s) ==
    /\ dpc[d] = "send"
    /\ s \in todo[d] \/ (InCall(<<"data", d>>, s) /\ call[<<"data", d>>].left = PacketLen)

FreshOK(s) ==
    \A i \in 1 .. Len(wire[s]) :
        /\ wire[s][i].num <= broadcasts
        /\ \A d \in DataThreads : Awaits(d, s) => wire[s][i].num < number[d]

OrderedOK(s) ==
    \A i, j \in 1 .. Len(wire[s]) :
        i < j /\ wire[s][i].num # 0 /\ wire[s][j].num # 0 =>
            wire[s][i].num < wire[s][j].num

\* A session on the list awaits its turn, or has had it.
ServedOK ==
    \A d \in DataThreads, s \in SessionSet : dpc[d] = "send" =>
        \/ s \in todo[d]
        \/ InCall(<<"data", d>>, s)
        \/ conn[s] = "broken"
        \/ \E i \in 1 .. Len(wire[s]) :
            wire[s][i].num = number[d] /\ Complete(wire[s][i])

OrderInv ==
    /\ NumOK
    /\ \A s \in Sessions : FreshOK(s) /\ OrderedOK(s)
    /\ ServedOK

\* Steps that leave the broadcast, the calls and the streams alone.
LEMMA OrderFrame ==
    ASSUME IInv, OrderInv, UNCHANGED <<call, wire, sendVars>>,
           \A s \in SessionSet' : s \in SessionSet \/ \A d \in DataThreads : dpc[d] # "send",
           \A s \in SessionSet : conn[s] = "broken" => conn'[s] = "broken"
    PROVE  OrderInv'
<1> USE DEF sendVars
<1>1. NumOK'
  BY DEF OrderInv, NumOK
<1>2. ASSUME NEW s \in Sessions PROVE FreshOK(s)' /\ OrderedOK(s)'
  BY DEF OrderInv, FreshOK, OrderedOK, Awaits, InCall
<1>3. ServedOK'
  <2> SUFFICES ASSUME NEW d \in DataThreads, NEW s \in SessionSet', dpc[d] = "send"
               PROVE  \/ s \in todo[d]
                      \/ InCall(<<"data", d>>, s)
                      \/ conn'[s] = "broken"
                      \/ \E i \in 1 .. Len(wire[s]) :
                            wire[s][i].num = number[d] /\ Complete(wire[s][i])
    BY DEF ServedOK, InCall, Complete
  <2>1. s \in SessionSet
    OBVIOUS
  <2> QED
    BY <2>1 DEF OrderInv, ServedOK
<1> QED
  BY <1>1, <1>2, <1>3 DEF OrderInv

\* SendMsg takes a number no client has seen, visits the sessions on its list,
\* each once, and ends.
LEMMA OrderBegins ==
    ASSUME IInv, OrderInv, NEW d \in DataThreads, BeginSend(d)
    PROVE  OrderInv'
<1>1. /\ dpc[d] = "idle" /\ SessionSetMutex = Free
      /\ broadcasts' = broadcasts + 1 /\ SessionSet' = SessionSet
      /\ UNCHANGED <<call, wire, conn>>
  BY DEF BeginSend, SetMutexFree, sessionVars, writeVars
<1>2. /\ \A e \in DataThreads : number'[e] = IF e = d THEN broadcasts + 1 ELSE number[e]
      /\ \A e \in DataThreads : todo'[e] = IF e = d THEN SessionSet ELSE todo[e]
      /\ \A e \in DataThreads : dpc'[e] = IF e = d THEN "send" ELSE dpc[e]
  BY DEF BeginSend, IInv, TypeOK
<1>3. \A e \in DataThreads : dpc[e] = "idle" /\ call[<<"data", e>>].at = "out"
  <2>1. \A e \in DataThreads : dpc[e] = "idle"
    BY <1>1, OneSender
  <2> QED
    BY <2>1 DEF IInv, SendOK
<1>4. /\ broadcasts \in Nat /\ \A e \in DataThreads : number[e] \in Nat
      /\ wire \in [Sessions -> Seq(Packet)]
  BY DEF IInv, TypeOK
<1>5. NumOK'
  <2>1. ASSUME NEW e \in DataThreads
        PROVE  number'[e] <= broadcasts' /\
               (dpc'[e] = "send" => number'[e] = broadcasts' /\ broadcasts' > 0)
    <3>1. number[e] <= broadcasts /\ number[e] \in Nat /\ broadcasts \in Nat
      BY <1>4 DEF OrderInv, NumOK
    <3>2. CASE e = d
      BY <1>1, <1>2, <3>1, <3>2
    <3>3. CASE e # d
      <4>1. number'[e] = number[e] /\ dpc'[e] = "idle"
        BY <1>2, <1>3, <3>3
      <4> QED
        BY <1>1, <3>1, <4>1
    <3> QED
      BY <3>2, <3>3
  <2> QED
    BY <1>1, <1>3, <2>1 DEF OrderInv, NumOK
<1>6. ASSUME NEW s \in Sessions PROVE FreshOK(s)' /\ OrderedOK(s)'
  <2>1. ASSUME NEW i \in 1 .. Len(wire[s])
        PROVE  /\ wire[s][i].num <= broadcasts + 1
               /\ wire[s][i].num < broadcasts + 1
    <3>1. wire[s][i] \in Packet
      BY <1>4
    <3>2. wire[s][i].num \in Nat
      BY <3>1 DEF Packet
    <3>3. wire[s][i].num <= broadcasts
      BY DEF OrderInv, FreshOK
    <3> QED
      BY <1>4, <3>2, <3>3
  <2>2. FreshOK(s)'
    BY <1>1, <1>2, <1>3, <2>1 DEF FreshOK, Awaits
  <2> QED
    BY <1>1, <2>2 DEF OrderInv, OrderedOK
<1>7. ServedOK'
  BY <1>1, <1>2, <1>3 DEF ServedOK
<1> QED
  BY <1>5, <1>6, <1>7 DEF OrderInv

LEMMA OrderEnds ==
    ASSUME IInv, OrderInv, NEW d \in DataThreads, EndSend(d)
    PROVE  OrderInv'
<1>1. /\ UNCHANGED <<number, todo, broadcasts, SessionSet, call, wire, conn>>
      /\ \A e \in DataThreads : dpc'[e] = IF e = d THEN "idle" ELSE dpc[e]
  BY DEF EndSend, IInv, TypeOK, sessionVars, writeVars
<1>2. NumOK'
  BY <1>1 DEF OrderInv, NumOK
<1>3. ASSUME NEW s \in Sessions PROVE FreshOK(s)' /\ OrderedOK(s)'
  BY <1>1 DEF OrderInv, FreshOK, OrderedOK, Awaits, InCall
<1>4. ServedOK'
  BY <1>1 DEF OrderInv, ServedOK, InCall, Complete
<1> QED
  BY <1>2, <1>3, <1>4 DEF OrderInv

LEMMA OrderVisits ==
    ASSUME IInv, OrderInv, NEW d \in DataThreads, SendNext(d)
    PROVE  OrderInv'
<1> DEFINE t == <<"data", d>>
<1>1. PICK o \in todo[d] :
          /\ todo' = [todo EXCEPT ![d] = @ \ {o}]
          /\ call' = [call EXCEPT ![t] =
                [at |-> "lock", target |-> o, num |-> number[d], left |-> PacketLen]]
  BY DEF SendNext
<1>2. /\ dpc[d] = "send" /\ call[t].at = "out"
      /\ UNCHANGED <<dpc, number, broadcasts, wire, SessionSet, conn>>
  BY DEF SendNext, sessionVars, setVars
<1>3. /\ \A u \in Writers : call'[u] = IF u = t
            THEN [at |-> "lock", target |-> o, num |-> number[d], left |-> PacketLen]
            ELSE call[u]
      /\ \A e \in DataThreads : todo'[e] = IF e = d THEN todo[d] \ {o} ELSE todo[e]
      /\ t \in Writers
  BY <1>1 DEF IInv, TypeOK, Writers, Senders
<1>4. /\ \A e \in DataThreads : <<"data", e>> \in Writers /\ (<<"data", e>> = t => e = d)
      /\ \A s \in Sessions : <<"read", s>> \in Writers /\ <<"read", s>> # t
  BY DEF Writers, Senders, Readers
<1> HIDE DEF t
<1>5. /\ call'[t].at = "lock" /\ call'[t].target = o /\ call'[t].num = number[d]
      /\ call'[t].left = PacketLen
  BY <1>3
<1>6. \A u \in Writers : u # t => call'[u] = call[u]
  BY <1>3
<1>7. NumOK'
  <2>1. ASSUME NEW e \in DataThreads
        PROVE  /\ number'[e] <= broadcasts'
               /\ dpc'[e] = "send" => number'[e] = broadcasts' /\ broadcasts' > 0
               /\ call'[<<"data", e>>].at # "out" =>
                    /\ call'[<<"data", e>>].num = number'[e]
                    /\ call'[<<"data", e>>].target \notin todo'[e]
    <3>1. CASE e = d
      BY <1>2, <1>3, <1>5, <3>1 DEF OrderInv, NumOK, t
    <3>2. CASE e # d
      BY <1>2, <1>3, <1>4, <1>6, <3>2 DEF OrderInv, NumOK
    <3> QED
      BY <3>1, <3>2
  <2>2. \A s \in Sessions : call'[<<"read", s>>].at # "out" => call'[<<"read", s>>].num = 0
    BY <1>4, <1>6 DEF OrderInv, NumOK
  <2> QED
    BY <2>1, <2>2 DEF NumOK
<1>8. ASSUME NEW e \in DataThreads, NEW s
      PROVE  /\ s \in todo'[e] \/ InCall(<<"data", e>>, s)' =>
                    s \in todo[e] \/ InCall(<<"data", e>>, s)
             /\ s \in todo[e] \/ InCall(<<"data", e>>, s) =>
                    s \in todo'[e] \/ InCall(<<"data", e>>, s)'
             /\ Awaits(e, s)' => Awaits(e, s)
  <2>1. CASE e = d
    BY <1>1, <1>2, <1>3, <1>5, <2>1 DEF InCall, Awaits, t
  <2>2. CASE e # d
    BY <1>2, <1>3, <1>4, <1>6, <2>2 DEF InCall, Awaits
  <2> QED
    BY <2>1, <2>2
<1>9. ASSUME NEW s \in Sessions PROVE FreshOK(s)' /\ OrderedOK(s)'
  BY <1>2, <1>8 DEF OrderInv, FreshOK, OrderedOK
<1>10. ServedOK'
  BY <1>2, <1>8 DEF OrderInv, ServedOK, Complete
<1> QED
  BY <1>7, <1>9, <1>10 DEF OrderInv

\* A step of write that moves nothing: an answer enters it, or a lock is taken.
LEMMA OrderWaits ==
    ASSUME IInv, OrderInv, UNCHANGED <<wire, sendVars, SessionSet, conn>>,
           \A d \in DataThreads :
                /\ call'[<<"data", d>>].at = "out" <=> call[<<"data", d>>].at = "out"
                /\ call'[<<"data", d>>].target = call[<<"data", d>>].target
                /\ call'[<<"data", d>>].num = call[<<"data", d>>].num
                /\ call'[<<"data", d>>].left = call[<<"data", d>>].left,
           \A s \in Sessions : call'[<<"read", s>>].at # "out" => call'[<<"read", s>>].num = 0
    PROVE  OrderInv'
<1> USE DEF sendVars
<1>1. NumOK'
  BY DEF OrderInv, NumOK
<1>2. \A d \in DataThreads : \A s : InCall(<<"data", d>>, s)' <=> InCall(<<"data", d>>, s)
  BY DEF InCall
<1>3. \A d \in DataThreads : \A s : Awaits(d, s)' <=> Awaits(d, s)
  BY <1>2 DEF Awaits
<1>4. ASSUME NEW s \in Sessions PROVE FreshOK(s)' /\ OrderedOK(s)'
  BY <1>3 DEF OrderInv, FreshOK, OrderedOK
<1>5. ServedOK'
  BY <1>2 DEF OrderInv, ServedOK, Complete
<1> QED
  BY <1>1, <1>4, <1>5 DEF OrderInv

LEMMA OrderReplies ==
    ASSUME IInv, OrderInv, NEW s \in Sessions, Reply(s)
    PROVE  OrderInv'
<1> DEFINE t == <<"read", s>>
           c == [at |-> "lock", target |-> s, num |-> 0, left |-> PacketLen]
<1>1. /\ call' = [call EXCEPT ![t] = c] /\ c.num = 0
      /\ UNCHANGED <<wire, sendVars, SessionSet, conn>>
  BY DEF Reply, sessionVars, setVars
<1>2. /\ \A d \in DataThreads : <<"data", d>> \in Writers /\ <<"data", d>> # t
      /\ \A r \in Sessions : <<"read", r>> \in Writers
      /\ call \in [Writers -> Calls]
  BY DEF IInv, TypeOK, Writers, Senders, Readers
<1> HIDE DEF t, c
<1>3. \A u \in Writers : call'[u] = IF u = t THEN c ELSE call[u]
  BY <1>1, <1>2
<1>4. \A d \in DataThreads : call'[<<"data", d>>] = call[<<"data", d>>]
  BY <1>2, <1>3
<1>5. \A r \in Sessions : call'[<<"read", r>>].at # "out" => call'[<<"read", r>>].num = 0
  BY <1>1, <1>2, <1>3 DEF OrderInv, NumOK
<1> QED
  BY <1>1, <1>4, <1>5, OrderWaits

LEMMA OrderLocks ==
    ASSUME IInv, OrderInv, NEW t \in Writers, LockWrite(t)
    PROVE  OrderInv'
<1> DEFINE c == [call[t] EXCEPT !.at = "xfer"]
<1>1. /\ call' = [call EXCEPT ![t] = c] /\ call[t].at = "lock"
      /\ UNCHANGED <<wire, sendVars, SessionSet, conn>>
  BY DEF LockWrite, sessionVars, setVars
<1>2. /\ \A d \in DataThreads : <<"data", d>> \in Writers
      /\ \A s \in Sessions : <<"read", s>> \in Writers
      /\ call \in [Writers -> Calls]
  BY DEF IInv, TypeOK, Writers, Senders, Readers
<1>3. c.at = "xfer" /\ c.target = call[t].target /\ c.num = call[t].num /\ c.left = call[t].left
  BY <1>2 DEF Calls
<1> HIDE DEF c
<1>4. \A u \in Writers : call'[u] = IF u = t THEN c ELSE call[u]
  BY <1>1, <1>2
<1>5. \A u \in Writers :
        /\ call'[u].at = "out" <=> call[u].at = "out"
        /\ call'[u].target = call[u].target
        /\ call'[u].num = call[u].num
        /\ call'[u].left = call[u].left
  BY <1>1, <1>3, <1>4
<1>6. \A s \in Sessions : call'[<<"read", s>>].at # "out" => call'[<<"read", s>>].num = 0
  BY <1>2, <1>5 DEF OrderInv, NumOK
<1> QED
  BY <1>1, <1>2, <1>5, <1>6, OrderWaits

LEMMA OrderFails ==
    ASSUME IInv, OrderInv, NEW t \in Writers, WriteFails(t)
    PROVE  OrderInv'
<1>1. /\ call' = [call EXCEPT ![t] = Idle] /\ conn[call[t].target] = "broken"
      /\ UNCHANGED <<wire, sendVars, SessionSet, conn>>
  BY DEF WriteFails, setVars
<1>2. /\ \A d \in DataThreads : <<"data", d>> \in Writers
      /\ \A s \in Sessions : <<"read", s>> \in Writers
      /\ call \in [Writers -> Calls]
  BY DEF IInv, TypeOK, Writers, Senders, Readers
<1>3. \A u \in Writers : call'[u] = IF u = t THEN Idle ELSE call[u]
  BY <1>1, <1>2
<1>4. NumOK'
  BY <1>1, <1>2, <1>3 DEF OrderInv, NumOK, Idle, sendVars
<1>5. ASSUME NEW d \in DataThreads, NEW s
      PROVE  /\ InCall(<<"data", d>>, s) =>
                    \/ call'[<<"data", d>>].at # "out" /\ call'[<<"data", d>>].target = s
                    \/ conn[s] = "broken"
             /\ Awaits(d, s)' => Awaits(d, s)
  <2>1. CASE <<"data", d>> = t
    <3>1. call'[<<"data", d>>].at = "out"
      BY <1>2, <1>3, <2>1 DEF Idle
    <3>2. InCall(<<"data", d>>, s) => conn[s] = "broken"
      BY <1>1, <2>1 DEF InCall
    <3> QED
      BY <1>1, <3>1, <3>2 DEF Awaits, InCall, sendVars
  <2>2. CASE <<"data", d>> # t
    BY <1>1, <1>2, <1>3, <2>2 DEF Awaits, InCall, sendVars
  <2> QED
    BY <2>1, <2>2
<1>6. ASSUME NEW s \in Sessions PROVE FreshOK(s)' /\ OrderedOK(s)'
  BY <1>1, <1>5 DEF OrderInv, FreshOK, OrderedOK, sendVars
<1>7. ServedOK'
  BY <1>1, <1>5 DEF OrderInv, ServedOK, InCall, Complete, sendVars
<1> QED
  BY <1>4, <1>6, <1>7 DEF OrderInv

LEMMA OrderMoves ==
    ASSUME IInv, StreamInv, OrderInv, NEW t \in Writers, WriteSome(t)
    PROVE  OrderInv'
<1> DEFINE s == call[t].target
           w == wire[s]
           v == wire'[s]
<1>1. /\ call[t].at = "xfer" /\ s \in Sessions
      /\ UNCHANGED <<sendVars, SessionSet, conn>>
  BY TargetExists DEF WriteSome, sessionVars, setVars
<1>2. /\ \A o \in Sessions \ {s} : wire'[o] = wire[o]
      /\ v \in Seq(Packet) /\ v # <<>> /\ v[Len(v)].num = call[t].num
      /\ \A i \in 1 .. Len(w) : Complete(w[i]) => i < Len(v) /\ v[i] = w[i]
      /\ \A i \in 1 .. Len(v) : i # Len(v) => i \in 1 .. Len(w) /\ v[i] = w[i]
      /\ \/ Begun(t, w) /\ Len(v) = Len(w)
         \/ call[t].left = PacketLen /\ Len(v) = Len(w) + 1
      /\ Ended(t, s) \/ GoesOn(t, s)
  BY <1>1, WriteSomeStep
<1> HIDE DEF s, w, v
<1>3. /\ call \in [Writers -> Calls] /\ w \in Seq(Packet) /\ PacketLen \in Nat
      /\ \A d \in DataThreads : <<"data", d>> \in Writers
      /\ \A r \in Sessions : <<"read", r>> \in Writers
  BY <1>1, TcpServerAssumption DEF IInv, TypeOK, Writers, Senders, Readers, w
<1>4. \A u \in Writers \ {t} : call'[u] = call[u]
  BY <1>2, <1>3 DEF Ended, GoesOn
<1>5. \/ call'[t].at = "out" /\ v[Len(v)].got = PacketLen
      \/ /\ call'[t].at = "xfer" /\ call'[t].target = s /\ call'[t].num = call[t].num
         /\ call'[t].left # PacketLen
  <2>1. CASE Ended(t, s)
    BY <1>3, <2>1 DEF Ended, Idle, v
  <2>2. CASE GoesOn(t, s)
    BY <1>3, <2>2 DEF GoesOn
  <2> QED
    BY <1>2, <2>1, <2>2
<1>6. NumOK'
  <2>1. ASSUME NEW u \in Writers, call'[u].at # "out"
        PROVE  /\ call[u].at # "out" /\ call'[u].num = call[u].num
               /\ call'[u].target = call[u].target
    BY <1>1, <1>4, <1>5, <2>1 DEF s
  <2> QED
    BY <1>1, <1>3, <2>1 DEF OrderInv, NumOK, sendVars
<1>7. ASSUME NEW d \in DataThreads, NEW o \in Sessions, Awaits(d, o)'
      PROVE  Awaits(d, o) /\ dpc[d] = "send" /\ (<<"data", d>> = t => o # s)
  <2>1. dpc[d] = "send" /\ number' = number
    BY <1>1, <1>7 DEF Awaits, sendVars
  <2>2. CASE <<"data", d>> = t
    <3>1. s \notin todo[d]
      BY <1>1, <2>2 DEF OrderInv, NumOK, s
    <3>2. o \in todo[d]
      BY <1>1, <1>5, <1>7, <2>2 DEF Awaits, InCall, sendVars
    <3> QED
      BY <2>1, <3>1, <3>2 DEF Awaits
  <2>3. CASE <<"data", d>> # t
    BY <1>1, <1>3, <1>4, <1>7, <2>1, <2>3 DEF Awaits, InCall, sendVars
  <2> QED
    BY <2>2, <2>3
<1>8. ASSUME NEW o \in Sessions, o # s PROVE FreshOK(o)' /\ OrderedOK(o)'
  <2>1. wire'[o] = wire[o]
    BY <1>2, <1>8
  <2> QED
    BY <1>1, <1>7, <2>1 DEF OrderInv, FreshOK, OrderedOK, sendVars
\* The writer is a read thread, or the one data thread that is inside SendMsg.
<1>9. /\ call[t].num \in Nat /\ broadcasts \in Nat /\ \A d \in DataThreads : number[d] \in Nat
      /\ \A i \in 1 .. Len(w) : w[i].num \in Nat
  <2>1. \A i \in 1 .. Len(w) : w[i] \in Packet
    BY <1>3
  <2> QED
    BY <1>3, <2>1 DEF Packet, Calls, IInv, TypeOK
<1>10. \/ call[t].num = 0
       \/ \E d \in DataThreads : /\ t = <<"data", d>> /\ dpc[d] = "send"
                                 /\ call[t].num = number[d] /\ InCall(t, s)
  <2>1. ASSUME NEW r \in Sessions, t = <<"read", r>> PROVE call[t].num = 0
    BY <1>1, <2>1 DEF OrderInv, NumOK
  <2>2. ASSUME NEW d \in DataThreads, t = <<"data", d>>
        PROVE  dpc[d] = "send" /\ call[t].num = number[d] /\ InCall(t, s)
    BY <1>1, <2>2 DEF OrderInv, NumOK, IInv, SendOK, InCall, s
  <2> QED
    BY <2>1, <2>2 DEF Writers, Readers, Senders
<1>11. \A d, e \in DataThreads : dpc[d] = "send" /\ dpc[e] = "send" => d = e
  BY OneSender
<1>12. FreshOK(s) /\ OrderedOK(s)
  BY <1>1 DEF OrderInv
<1>13. ASSUME NEW o \in Sessions, o = s, NEW i \in 1 .. Len(v)
       PROVE  /\ v[i].num <= broadcasts
              /\ \A d \in DataThreads : Awaits(d, o)' => v[i].num < number[d]
  <2>1. CASE i # Len(v)
    <3>1. \A d \in DataThreads : Awaits(d, o)' => Awaits(d, s)
      BY <1>7, <1>13
    <3>2. i \in 1 .. Len(w) /\ v[i] = w[i]
      BY <1>2, <2>1
    <3> QED
      BY <1>12, <3>1, <3>2 DEF FreshOK, w
  <2>2. CASE i = Len(v)
    <3>1. call[t].num <= broadcasts
      BY <1>9, <1>10 DEF OrderInv, NumOK
    <3>2. ASSUME NEW d \in DataThreads, Awaits(d, o)' PROVE call[t].num < number[d]
      <4>1. dpc[d] = "send" /\ <<"data", d>> # t
        BY <1>7, <1>13, <3>2
      <4>2. call[t].num = 0
        BY <1>10, <1>11, <4>1
      <4>3. number[d] > 0
        BY <4>1 DEF OrderInv, NumOK
      <4> QED
        BY <1>9, <4>2, <4>3
    <3> QED
      BY <1>2, <2>2, <3>1, <3>2
  <2> QED
    BY <2>1, <2>2
<1>14. ASSUME NEW i \in 1 .. Len(v), NEW j \in 1 .. Len(v), i < j,
              v[i].num # 0, v[j].num # 0
       PROVE  v[i].num < v[j].num
  <2>1. i # Len(v) /\ i \in 1 .. Len(w) /\ v[i] = w[i] /\ Len(w) \in Nat
    BY <1>2, <1>3, <1>14
  <2>2. CASE j # Len(v)
    BY <1>2, <1>12, <1>14, <2>1, <2>2 DEF OrderedOK, w
  <2>3. CASE j = Len(v) /\ Begun(t, w) /\ Len(v) = Len(w)
    <3>1. j \in 1 .. Len(w) /\ w[j].num = v[j].num
      BY <1>2, <2>3 DEF Begun
    <3> QED
      BY <1>12, <1>14, <2>1, <3>1 DEF OrderedOK, w
  <2>4. CASE j = Len(v) /\ call[t].left = PacketLen
    <3>1. call[t].num # 0 /\ v[j].num = call[t].num
      BY <1>2, <1>14, <2>4
    <3>2. PICK d \in DataThreads : /\ t = <<"data", d>> /\ dpc[d] = "send"
                                   /\ call[t].num = number[d] /\ InCall(t, s)
      BY <1>10, <3>1
    <3>3. Awaits(d, s)
      BY <2>4, <3>2 DEF Awaits
    <3>4. w[i].num < number[d]
      BY <1>12, <2>1, <3>3 DEF FreshOK, w
    <3> QED
      BY <2>1, <3>1, <3>2, <3>4
  <2> QED
    BY <1>2, <2>2, <2>3, <2>4
<1>15. ASSUME NEW o \in Sessions, o = s PROVE FreshOK(o)' /\ OrderedOK(o)'
  <2>1. FreshOK(o)'
    BY <1>1, <1>13, <1>15 DEF FreshOK, v, sendVars
  <2>2. OrderedOK(o)'
    BY <1>14, <1>15 DEF OrderedOK, v
  <2> QED
    BY <2>1, <2>2
<1>16. ASSUME NEW d \in DataThreads, NEW o \in SessionSet, dpc[d] = "send"
       PROVE  \/ o \in todo[d]
              \/ InCall(<<"data", d>>, o)'
              \/ conn[o] = "broken"
              \/ \E i \in 1 .. Len(wire'[o]) :
                    wire'[o][i].num = number[d] /\ Complete(wire'[o][i])
  <2>1. CASE InCall(<<"data", d>>, o)
    <3>1. CASE <<"data", d>> = t /\ call'[t].at = "out"
      <4>1. o = s /\ call[t].num = number[d]
        BY <1>1, <2>1, <3>1 DEF InCall, OrderInv, NumOK, s
      <4>2. v[Len(v)].num = number[d] /\ Complete(v[Len(v)]) /\ Len(v) \in 1 .. Len(v)
        BY <1>2, <1>5, <3>1, <4>1 DEF Complete
      <4> QED
        BY <4>1, <4>2 DEF v
    <3>2. CASE <<"data", d>> # t \/ call'[t].at # "out"
      BY <1>1, <1>3, <1>4, <1>5, <2>1, <3>2 DEF InCall, s
    <3> QED
      BY <3>1, <3>2
  <2>2. ASSUME NEW i \in 1 .. Len(wire[o]), wire[o][i].num = number[d], Complete(wire[o][i])
        PROVE  \E k \in 1 .. Len(wire'[o]) :
                    wire'[o][k].num = number[d] /\ Complete(wire'[o][k])
    <3>1. CASE o = s
      <4>1. i < Len(v) /\ v[i] = w[i] /\ Len(v) \in Nat
        BY <1>2, <2>2, <3>1 DEF w
      <4>2. i \in 1 .. Len(v)
        BY <4>1
      <4> QED
        BY <2>2, <3>1, <4>1, <4>2 DEF v, w
    <3>2. CASE o # s
      <4>1. o \in Sessions
        BY DEF IInv, TypeOK
      <4> QED
        BY <1>2, <2>2, <3>2, <4>1
    <3> QED
      BY <3>1, <3>2
  <2> QED
    BY <1>16, <2>1, <2>2 DEF OrderInv, ServedOK
<1>17. ServedOK'
  BY <1>1, <1>16 DEF ServedOK, Complete, sendVars
<1> QED
  BY <1>6, <1>8, <1>15, <1>17 DEF OrderInv

LEMMA OrderStep ==
    ASSUME IInv, StreamInv, OrderInv, [Next]_vars
    PROVE  OrderInv'
<1> USE DEF sessionVars, ioVars, readVars, writeVars, setVars
<1>a. /\ conn \in [Sessions -> {"open", "stalled", "broken"}]
      /\ SessionSet \subseteq Sessions
      /\ dpc \in [DataThreads -> {"idle", "send"}]
      /\ \A s \in SessionSet : life[s] # "none"
  BY DEF IInv, TypeOK, ListOK, Exists
<1>1. ASSUME NEW s \in Sessions, OnAccept(s) PROVE OrderInv'
  <2>1. \A o \in SessionSet : conn'[o] = conn[o]
    BY <1>1, <1>a DEF OnAccept
  <2> QED
    BY <1>1, <2>1, OrderFrame DEF OnAccept
<1>2. ASSUME StartReadThread \/ StartPrintThread \/ HandlerReturn PROVE OrderInv'
  BY <1>2, OrderFrame DEF StartReadThread, StartPrintThread, HandlerReturn
<1>3. ASSUME InsertIntoSet PROVE OrderInv'
  <2>1. \A d \in DataThreads : dpc[d] # "send"
    BY <1>3, <1>a, OneSender DEF InsertIntoSet, SetMutexFree
  <2> QED
    BY <1>3, <2>1, OrderFrame DEF InsertIntoSet
<1>4. ASSUME NEW s \in Sessions, Destroy(s) PROVE OrderInv'
  BY <1>4, OrderFrame DEF Destroy
<1>5. ASSUME NEW s \in Sessions,
             \/ ReadLoop(s) \/ ReadExit(s) \/ ReadFails(s) \/ ReadCommand(s)
             \/ CommandDone(s) \/ PrintExit(s)
      PROVE  OrderInv'
  BY <1>5, OrderFrame
     DEF ReadLoop, ReadExit, ReadFails, ReadCommand, CommandDone, PrintExit
<1>6. ASSUME NEW s \in Sessions, Reply(s) PROVE OrderInv'
  BY <1>6, OrderReplies
<1>7. ASSUME NEW d \in DataThreads, SendMsg(d) PROVE OrderInv'
  BY <1>7, OrderBegins, OrderVisits, OrderEnds DEF SendMsg
<1>8. ASSUME NEW t \in Writers, Write(t) PROVE OrderInv'
  BY <1>8, OrderLocks, OrderMoves, OrderFails DEF Write
<1>9. ASSUME NEW s \in Sessions, Peer(s) PROVE OrderInv'
  <2>1. \A o \in SessionSet : conn[o] = "broken" => conn'[o] = "broken"
    BY <1>9, <1>a DEF Peer, PeerStalls, PeerDrains, PeerBreaks, SetConn
  <2>2. UNCHANGED <<call, wire, sendVars, SessionSet>>
    BY <1>9 DEF Peer, PeerStalls, PeerDrains, PeerBreaks, SetConn
  <2> QED
    BY <2>1, <2>2, OrderFrame
<1>10. ASSUME UNCHANGED vars PROVE OrderInv'
  BY <1>10, OrderFrame DEF vars
<1> QED
  BY <1>1, <1>2, <1>3, <1>4, <1>5, <1>6, <1>7, <1>8, <1>9, <1>10
     DEF Next, IoThread, ReadThread

LEMMA OrderInit == Init => OrderInv
  BY TcpServerAssumption
     DEF Init, OrderInv, NumOK, FreshOK, OrderedOK, ServedOK, Awaits, InCall, Idle,
         Writers, Readers, Senders

LEMMA OrderInvariance == Spec => []OrderInv
<1>1. IInv /\ StreamInv /\ OrderInv /\ [Next]_vars => OrderInv'
  BY OrderStep
<1> QED
  BY Invariance, StreamInvariance, OrderInit, <1>1, PTL DEF Spec

\* All clients see the broadcasts in one order, whatever the number of clients
\* and of data threads: SessionSetMutex lets one broadcast in at a time, and a
\* session waiting for it has seen older ones only.
THEOREM OneOrderForAll == Spec => []SameOrderEverywhere
<1>1. OrderInv => SameOrderEverywhere
  BY DEF OrderInv, OrderedOK, SameOrderEverywhere
<1> QED
  BY OrderInvariance, <1>1, PTL

\* A broadcast skips no client on the list, which does not change under it.
THEOREM NobodyIsSkipped == Spec => []BroadcastReachesAll
<1>1. OrderInv => BroadcastReachesAll
  BY DEF OrderInv, ServedOK, InCall, BroadcastReachesAll
<1> QED
  BY OrderInvariance, <1>1, PTL

(***************************************************************************)
(* The broadcast as its clients see it (Broadcast).  A step of a thread is *)
(* one of Broadcast or leaves what Broadcast knows alone.                  *)
(***************************************************************************)
\* A connection can only break once it was accepted.
FreshConn == \A s \in Sessions : life[s] = "none" => conn[s] # "broken"

LEMMA FreshConnStep ==
    ASSUME IInv, FreshConn, [Next]_vars
    PROVE  FreshConn'
<1> USE DEF FreshConn, sessionVars, ioVars, readVars, sendVars, writeVars, setVars
<1>a. /\ life \in [Sessions -> {"none", "live", "dtor", "gone"}]
      /\ conn \in [Sessions -> {"open", "stalled", "broken"}]
  BY DEF IInv, TypeOK
<1>1. ASSUME NEW s \in Sessions, OnAccept(s) PROVE FreshConn'
  BY <1>1, <1>a DEF OnAccept
<1>2. ASSUME StartReadThread \/ StartPrintThread \/ InsertIntoSet PROVE FreshConn'
  BY <1>2 DEF StartReadThread, StartPrintThread, InsertIntoSet
<1>3. ASSUME HandlerReturn PROVE FreshConn'
  BY <1>3, <1>a DEF HandlerReturn, DropRef
<1>4. ASSUME NEW s \in Sessions, ReadExit(s) \/ PrintExit(s) PROVE FreshConn'
  BY <1>4, <1>a DEF ReadExit, PrintExit, DropRef
<1>5. ASSUME NEW s \in Sessions, Destroy(s) PROVE FreshConn'
  BY <1>5, <1>a DEF Destroy
<1>6. ASSUME NEW s \in Sessions,
             ReadLoop(s) \/ ReadFails(s) \/ ReadCommand(s) \/ Reply(s) \/ CommandDone(s)
      PROVE  FreshConn'
  BY <1>6 DEF ReadLoop, ReadFails, ReadCommand, Reply, CommandDone
<1>7. ASSUME NEW d \in DataThreads, SendMsg(d) PROVE FreshConn'
  BY <1>7 DEF SendMsg, BeginSend, SendNext, EndSend
<1>8. ASSUME NEW t \in Writers, Write(t) PROVE FreshConn'
  BY <1>8 DEF Write, LockWrite, WriteSome, WriteFails
<1>9. ASSUME NEW s \in Sessions, Peer(s) PROVE FreshConn'
  BY <1>9, <1>a DEF Peer, PeerStalls, PeerDrains, PeerBreaks, SetConn
<1>10. ASSUME UNCHANGED vars PROVE FreshConn'
  BY <1>10 DEF vars
<1> QED
  BY <1>1, <1>2, <1>3, <1>4, <1>5, <1>6, <1>7, <1>8, <1>9, <1>10 DEF Next, IoThread, ReadThread

LEMMA FreshConnInvariance == Spec => []FreshConn
<1>1. Init => FreshConn
  BY DEF Init, FreshConn
<1> QED
  BY Invariance, FreshConnStep, <1>1, PTL DEF Spec

\* What each of the mapped variables depends on.
LEMMA UnservedFrame ==
    ASSUME todo' = todo,
           \A d \in DataThreads :
                /\ call'[<<"data", d>>].at = "out" <=> call[<<"data", d>>].at = "out"
                /\ call'[<<"data", d>>].target = call[<<"data", d>>].target
    PROVE  Unserved' = Unserved
  BY DEF Unserved

LEMMA GoneFrame ==
    ASSUME IInv, NEW s \in Sessions, NEW h, DropRef(s, h)
    PROVE  GoneSessions' = GoneSessions
<1>1. owners[s] = {h} => life[s] = "live"
  BY DEF IInv, OwnersOK
<1>2. life \in [Sessions -> {"none", "live", "dtor", "gone"}]
  BY DEF IInv, TypeOK
<1>3. \A o \in Sessions : life'[o] = "gone" <=> life[o] = "gone"
  BY <1>1, <1>2 DEF DropRef
<1> QED
  BY <1>3 DEF GoneSessions

LEMMA BroadcastStutters ==
    ASSUME UNCHANGED <<broadcasts, SessionSet, life, conn, todo, call, wire>>
    PROVE  UNCHANGED B!vars
  BY DEF B!vars, GoneSessions, BrokenSessions, Unserved, Received, Whole, Complete

\* Between broadcasts, when SessionSetMutex is free, nobody is unserved.
LEMMA NobodyUnserved ==
    ASSUME IInv, SessionSetMutex = Free
    PROVE  /\ \A d \in DataThreads : todo[d] = {} /\ call[<<"data", d>>].at = "out"
           /\ Unserved = {}
<1>1. \A d \in DataThreads : dpc[d] = "idle"
  BY OneSender DEF IInv, TypeOK
<1>2. \A d \in DataThreads : todo[d] = {} /\ call[<<"data", d>>].at = "out"
  BY <1>1 DEF IInv, SendOK
<1> QED
  BY <1>2 DEF Unserved

\* The list changes between broadcasts only.
LEMMA JoinStep ==
    ASSUME IInv, InsertIntoSet
    PROVE  [B!Next]_(B!vars)
<1>1. /\ newSession \in Sessions /\ life[newSession] = "live"
      /\ UNCHANGED <<broadcasts, life, conn, todo, call, wire>>
      /\ SessionSet' = SessionSet \cup {newSession}
  BY DEF InsertIntoSet, IInv, TypeOK, AcceptOK, OwnersOK, sessionVars, sendVars, writeVars
<1>2. /\ UNCHANGED <<broadcasts, GoneSessions, BrokenSessions, Unserved, Received>>
  BY <1>1 DEF GoneSessions, BrokenSessions, Unserved, Received, Whole, Complete
<1>3. CASE newSession \in SessionSet
  BY <1>1, <1>2, <1>3 DEF B!vars
<1>4. CASE newSession \notin SessionSet
  <2>1. newSession \notin GoneSessions
    BY <1>1 DEF GoneSessions
  <2>2. B!Join(newSession)
    BY <1>1, <1>2, <1>4, <2>1, NobodyUnserved DEF B!Join, InsertIntoSet, SetMutexFree
  <2> QED
    BY <1>1, <2>2 DEF B!Next
<1> QED
  BY <1>3, <1>4

LEMMA LeaveStep ==
    ASSUME IInv, ListedOK, NEW s \in Sessions, Destroy(s)
    PROVE  B!Leave(s)
<1>1. /\ life[s] = "dtor" /\ SessionSet' = SessionSet \ {s} /\ SessionSetMutex = Free
      /\ life' = [life EXCEPT ![s] = "gone"]
      /\ UNCHANGED <<broadcasts, conn, todo, call, wire>>
  BY DEF Destroy, SetMutexFree, sendVars, writeVars
<1>2. UNCHANGED <<broadcasts, BrokenSessions, Unserved, Received>>
  BY <1>1 DEF BrokenSessions, Unserved, Received, Whole, Complete
<1>3. GoneSessions' = GoneSessions \cup {s}
  BY <1>1 DEF GoneSessions, IInv, TypeOK
<1>4. s \in SessionSet
  <2>1. owners[s] = {}
    BY <1>1 DEF IInv, OwnersOK
  <2> QED
    BY <1>1, <2>1 DEF IInv, AcceptOK, ListedOK, Exists
<1> QED
  BY <1>1, <1>2, <1>3, <1>4, NobodyUnserved DEF B!Leave

LEMMA CastStep ==
    ASSUME IInv, NEW d \in DataThreads, BeginSend(d)
    PROVE  B!Cast
<1>1. /\ SessionSetMutex = Free /\ broadcasts' = broadcasts + 1
      /\ todo' = [todo EXCEPT ![d] = SessionSet]
      /\ UNCHANGED <<SessionSet, life, conn, call, wire>>
  BY DEF BeginSend, SetMutexFree, sessionVars, writeVars
<1>2. UNCHANGED <<GoneSessions, BrokenSessions, Received>>
  BY <1>1 DEF GoneSessions, BrokenSessions, Received, Whole, Complete
<1>3. \A e \in DataThreads : todo'[e] = IF e = d THEN SessionSet ELSE todo[e]
  BY <1>1 DEF IInv, TypeOK
<1>4. Unserved' = SessionSet
  <2>1. SessionSet \subseteq Sessions
    BY DEF IInv, TypeOK
  <2>2. \A e \in DataThreads : todo[e] = {} /\ call'[<<"data", e>>].at = "out"
    BY <1>1, NobodyUnserved
  <2> QED
    BY <1>3, <2>1, <2>2 DEF Unserved
<1> QED
  BY <1>1, <1>2, <1>4, NobodyUnserved DEF B!Cast

\* A session that is visited goes from the loop into write: unserved still.
LEMMA VisitStep ==
    ASSUME IInv, NEW d \in DataThreads, SendNext(d)
    PROVE  UNCHANGED B!vars
<1> DEFINE t == <<"data", d>>
<1>1. PICK o \in todo[d] :
          /\ todo' = [todo EXCEPT ![d] = @ \ {o}]
          /\ call' = [call EXCEPT ![t] =
                [at |-> "lock", target |-> o, num |-> number[d], left |-> PacketLen]]
  BY DEF SendNext
<1>2. /\ call[t].at = "out"
      /\ UNCHANGED <<broadcasts, wire, SessionSet, life, conn>>
  BY DEF SendNext, sessionVars, setVars
<1>3. /\ \A e \in DataThreads : todo'[e] = IF e = d THEN todo[d] \ {o} ELSE todo[e]
      /\ t \in Writers
      /\ \A e \in DataThreads : <<"data", e>> \in Writers /\ (<<"data", e>> = t => e = d)
  BY <1>1 DEF IInv, TypeOK, Writers, Senders
<1> HIDE DEF t
<1>4. call'[t].at = "lock" /\ call'[t].target = o
  BY <1>1, <1>3 DEF IInv, TypeOK
<1>5. \A u \in Writers : u # t => call'[u] = call[u]
  BY <1>1, <1>3 DEF IInv, TypeOK
<1>6. ASSUME NEW s \in Sessions, NEW e \in DataThreads
      PROVE  s \in todo'[e] \/ InCall(<<"data", e>>, s)' <=> s \in todo[e] \/ InCall(<<"data", e>>, s)
  <2>1. CASE e = d
    BY <1>1, <1>2, <1>3, <1>4, <2>1 DEF InCall, t
  <2>2. CASE e # d
    BY <1>3, <1>5, <2>2 DEF InCall
  <2> QED
    BY <2>1, <2>2
<1>7. Unserved' = Unserved
  BY <1>6 DEF Unserved, InCall
<1> QED
  BY <1>2, <1>7 DEF B!vars, GoneSessions, BrokenSessions, Received, Whole, Complete

\* Who is unserved after thread t left write: all but the session t served.
LEMMA UnservedLeaves ==
    ASSUME IInv, OrderInv, NEW t \in Writers, call[t].at # "out", call'[t].at = "out",
           \A u \in Writers : u # t => call'[u] = call[u],
           UNCHANGED todo
    PROVE  \/ t \in Readers /\ Unserved' = Unserved
           \/ t \in Senders /\ call[t].target \in Unserved
                /\ Unserved' = Unserved \ {call[t].target}
<1>1. \A d \in DataThreads : <<"data", d>> \in Writers
  BY DEF Writers, Senders
<1>2. CASE t \in Readers
  <2>1. \A d \in DataThreads : <<"data", d>> # t
    BY <1>2 DEF Readers
  <2>2. \A d \in DataThreads : call'[<<"data", d>>] = call[<<"data", d>>]
    BY <1>1, <2>1
  <2> QED
    BY <1>2, <2>2 DEF Unserved
<1>3. CASE t \in Senders
  <2>1. PICK d \in DataThreads : t = <<"data", d>>
    BY <1>3 DEF Senders
  <2>2. call[t].target \in Sessions /\ call[t].target \notin todo[d]
    BY <2>1, TargetExists DEF OrderInv, NumOK
  <2>3. \A e \in DataThreads : e # d => todo[e] = {} /\ call[<<"data", e>>].at = "out"
    <3>1. dpc[d] # "idle"
      BY <2>1 DEF IInv, SendOK
    <3>2. \A e \in DataThreads : e # d => dpc[e] = "idle"
      BY <3>1, OneSender DEF IInv, TypeOK
    <3> QED
      BY <3>2 DEF IInv, SendOK
  <2>4. \A e \in DataThreads : e # d => call'[<<"data", e>>] = call[<<"data", e>>]
    BY <1>1, <2>1
  <2>5. \A s \in Sessions : s \in Unserved <=> s \in todo[d] \/ s = call[t].target
    BY <2>1, <2>3 DEF Unserved
  <2>6. \A s \in Sessions : s \in Unserved' <=> s \in todo[d]
    BY <2>1, <2>3, <2>4 DEF Unserved
  <2>7. Unserved \subseteq Sessions /\ Unserved' \subseteq Sessions
    BY DEF Unserved
  <2> QED
    BY <1>3, <2>2, <2>5, <2>6, <2>7
<1> QED
  BY <1>2, <1>3 DEF Writers

\* A client whose connection broke under the packet loses it.
LEMMA LoseStep ==
    ASSUME IInv, OrderInv, NEW t \in Writers, WriteFails(t)
    PROVE  [B!Next]_(B!vars)
<1>1. /\ call' = [call EXCEPT ![t] = Idle] /\ conn[call[t].target] = "broken"
      /\ call[t].at # "out"
      /\ UNCHANGED <<broadcasts, SessionSet, life, conn, todo, wire>>
  BY DEF WriteFails, sendVars, setVars
<1>2. call \in [Writers -> Calls]
  BY DEF IInv, TypeOK
<1>3. call'[t].at = "out" /\ \A u \in Writers : u # t => call'[u] = call[u]
  BY <1>1, <1>2 DEF Idle
<1>4. UNCHANGED <<GoneSessions, BrokenSessions, Received>>
  BY <1>1 DEF GoneSessions, BrokenSessions, Received, Whole, Complete
<1>5. CASE Unserved' = Unserved
  BY <1>1, <1>4, <1>5 DEF B!vars
<1>6. CASE call[t].target \in Unserved /\ Unserved' = Unserved \ {call[t].target}
  <2>1. call[t].target \in Sessions
    BY <1>1, TargetExists
  <2>2. call[t].target \in BrokenSessions
    BY <1>1, <2>1 DEF BrokenSessions
  <2>3. B!Lose(call[t].target)
    BY <1>1, <1>4, <1>6, <2>2 DEF B!Lose
  <2> QED
    BY <2>1, <2>3 DEF B!Next
<1> QED
  BY <1>1, <1>3, <1>5, <1>6, UnservedLeaves

\* Which packets a client has got, whole, after a write_some.
LEMMA WholeAfter ==
    ASSUME IInv, StreamInv, NEW t \in Writers, WriteSome(t),
           NEW s \in Sessions, call[t].target = s
    PROVE  /\ \A o \in Sessions \ {s} : Whole(o)' = Whole(o)
           /\ Ended(t, s) => Whole(s)' = Whole(s) \cup ({call[t].num} \ {0})
           /\ GoesOn(t, s) => Whole(s)' = Whole(s)
<1> DEFINE w == wire[s]
           v == wire'[s]
<1>1. /\ \A o \in Sessions \ {s} : wire'[o] = wire[o]
      /\ v \in Seq(Packet) /\ v # <<>> /\ v[Len(v)].num = call[t].num
      /\ \A i \in 1 .. Len(w) : Complete(w[i]) => i < Len(v) /\ v[i] = w[i]
      /\ \A i \in 1 .. Len(v) : i # Len(v) =>
            i \in 1 .. Len(w) /\ v[i] = w[i] /\ Complete(w[i])
  BY WriteSomeStep
<1>2. \A o \in Sessions \ {s} : Whole(o)' = Whole(o)
  BY <1>1 DEF Whole, Complete
<1> DEFINE Old == {i \in 1 .. Len(w) : Complete(w[i])}
           New == {i \in 1 .. Len(v) : Complete(v[i])}
           Before == {w[i].num : i \in Old}
           After == {v[i].num : i \in New}
<1>3. Whole(s) = Before \ {0} /\ Whole(s)' = After \ {0}
  BY DEF Whole, Complete
<1>4. Len(v) \in Nat /\ Len(v) > 0
  BY <1>1
<1> HIDE DEF w, v
<1>5. Old \subseteq New /\ New \subseteq Old \cup {Len(v)} /\ \A i \in Old : v[i] = w[i]
  <2>1. \A i \in Old : i \in New /\ v[i] = w[i]
    BY <1>1, <1>4
  <2>2. \A i \in New : i # Len(v) => i \in Old
    BY <1>1
  <2> QED
    BY <2>1, <2>2
<1>6. Len(v) \notin Old
  BY <1>1, <1>4
<1>7. ASSUME Ended(t, s) PROVE Whole(s)' = Whole(s) \cup ({call[t].num} \ {0})
  <2>1. Len(v) \in New
    BY <1>4, <1>7 DEF Ended, Complete, v
  <2>2. New = Old \cup {Len(v)}
    BY <1>5, <2>1
  <2> HIDE DEF Old, New
  <2>3. After = Before \cup {call[t].num}
    BY <1>1, <1>5, <2>2
  <2> HIDE DEF Before, After
  <2> QED
    BY <1>3, <2>3
<1>8. ASSUME GoesOn(t, s) PROVE Whole(s)' = Whole(s)
  <2>1. v[Len(v)].got # PacketLen
    <3>1. call'[t].left \in 1 .. PacketLen - 1 /\ v[Len(v)].got \in Nat
          /\ call'[t].left + v[Len(v)].got = PacketLen
      BY <1>8 DEF GoesOn, v
    <3> QED
      BY <3>1, TcpServerAssumption
  <2>2. New = Old
    BY <1>5, <2>1 DEF Complete
  <2> HIDE DEF Old, New
  <2>3. After = Before
    BY <1>5, <2>2
  <2> HIDE DEF Before, After
  <2> QED
    BY <1>3, <2>3
<1> QED
  BY <1>2, <1>7, <1>8

\* The last units of a broadcast packet deliver it; no other units show.
LEMMA DeliverStep ==
    ASSUME IInv, StreamInv, OrderInv, NEW t \in Writers, WriteSome(t)
    PROVE  [B!Next]_(B!vars)
<1>0. call[t].at = "xfer" /\ call[t].target \in Sessions
  BY TargetExists DEF WriteSome
<1> PICK s \in Sessions : s = call[t].target
  BY <1>0
<1>1. /\ call[t].at = "xfer" /\ call[t].target = s /\ conn[s] = "open"
      /\ UNCHANGED <<broadcasts, SessionSet, life, conn, todo>>
  BY DEF WriteSome, sessionVars, setVars, sendVars
<1>2. Ended(t, s) \/ GoesOn(t, s)
  BY <1>1, WriteSomeStep
<1>3. /\ \A o \in Sessions \ {s} : Whole(o)' = Whole(o)
      /\ Ended(t, s) => Whole(s)' = Whole(s) \cup ({call[t].num} \ {0})
      /\ GoesOn(t, s) => Whole(s)' = Whole(s)
  BY <1>1, WholeAfter
<1>4. /\ call \in [Writers -> Calls] /\ \A d \in DataThreads : <<"data", d>> \in Writers
      /\ \A r \in Sessions : <<"read", r>> \in Writers
  BY DEF IInv, TypeOK, Writers, Senders, Readers
<1>5. UNCHANGED <<GoneSessions, BrokenSessions>>
  BY <1>1 DEF GoneSessions, BrokenSessions
<1>6. CASE GoesOn(t, s)
  <2>1. \A u \in Writers : /\ call'[u].at = "out" <=> call[u].at = "out"
                           /\ call'[u].target = call[u].target
    BY <1>1, <1>6 DEF GoesOn
  <2>2. Unserved' = Unserved
    BY <1>1, <1>4, <2>1, UnservedFrame
  <2>3. \A o \in Sessions : Whole(o)' = Whole(o)
    BY <1>3, <1>6
  <2>4. Received' = Received
    BY <2>3 DEF Received
  <2> QED
    BY <1>1, <1>5, <2>2, <2>4 DEF B!vars
<1>7. CASE Ended(t, s)
  <2>1. call'[t].at = "out" /\ \A u \in Writers : u # t => call'[u] = call[u]
    BY <1>4, <1>7 DEF Ended, Idle
  <2>2. Received' = [Received EXCEPT ![s] = @ \cup ({call[t].num} \ {0})]
    BY <1>1, <1>3, <1>7 DEF Received
  <2>3. CASE t \in Readers
    <3>1. call[t].num = 0 /\ t \notin Senders
      BY <1>1, <2>3 DEF OrderInv, NumOK, Readers, Senders
    <3>2. Unserved' = Unserved
      BY <1>1, <2>1, <3>1, UnservedLeaves
    <3>3. Received' = Received
      BY <2>2, <3>1 DEF Received
    <3> QED
      BY <1>1, <1>5, <3>2, <3>3 DEF B!vars
  <2>4. CASE t \in Senders
    <3>1. PICK d \in DataThreads : t = <<"data", d>>
      BY <2>4 DEF Senders
    <3>2. dpc[d] = "send" /\ call[t].num = number[d]
      BY <1>1, <3>1 DEF IInv, SendOK, OrderInv, NumOK
    <3>3. call[t].num = broadcasts /\ broadcasts # 0
      <4>1. broadcasts \in Nat
        BY DEF IInv, TypeOK
      <4>2. number[d] = broadcasts /\ broadcasts > 0
        BY <3>2 DEF OrderInv, NumOK
      <4> QED
        BY <3>2, <4>1, <4>2
    <3>4. s \in Unserved /\ Unserved' = Unserved \ {s}
      <4>1. t \notin Readers
        BY <3>1 DEF Readers
      <4> QED
        BY <1>1, <2>1, <4>1, UnservedLeaves
    <3>5. s \notin BrokenSessions
      BY <1>1 DEF BrokenSessions
    <3>6. Received' = [Received EXCEPT ![s] = @ \cup {broadcasts}]
      BY <2>2, <3>3
    <3>7. B!Deliver(s)
      BY <1>1, <1>5, <3>4, <3>5, <3>6 DEF B!Deliver
    <3> QED
      BY <1>1, <3>7 DEF B!Next
  <2> QED
    BY <2>3, <2>4 DEF Writers
<1> QED
  BY <1>2, <1>6, <1>7

\* An accept that failed, and a peer that breaks off.
LEMMA BreakStep ==
    ASSUME IInv, FreshConn, NEW s \in Sessions, OnAccept(s) \/ Peer(s)
    PROVE  [B!Next]_(B!vars)
<1>1. PICK c \in {"open", "stalled", "broken"} : conn' = [conn EXCEPT ![s] = c]
  BY DEF OnAccept, Peer, PeerStalls, PeerDrains, PeerBreaks, SetConn
<1>2. conn[s] # "broken"
  BY DEF OnAccept, FreshConn, Peer, PeerStalls, PeerDrains, PeerBreaks, SetConn
<1>3. UNCHANGED <<broadcasts, SessionSet, todo, call, wire>>
  BY DEF OnAccept, Peer, PeerStalls, PeerDrains, PeerBreaks, SetConn, sendVars, writeVars, setVars
<1>4. \A o \in Sessions : life'[o] = "gone" <=> life[o] = "gone"
  BY DEF OnAccept, Peer, PeerStalls, PeerDrains, PeerBreaks, SetConn, IInv, TypeOK
<1>5. UNCHANGED <<GoneSessions, Unserved, Received>>
  BY <1>3, <1>4 DEF GoneSessions, Unserved, Received, Whole, Complete
<1>6. \A o \in Sessions : conn'[o] = IF o = s THEN c ELSE conn[o]
  BY <1>1 DEF IInv, TypeOK
<1>7. CASE c = "broken"
  <2>1. BrokenSessions' = BrokenSessions \cup {s} /\ s \notin BrokenSessions
    BY <1>2, <1>6, <1>7 DEF BrokenSessions
  <2>2. B!Break(s)
    BY <1>3, <1>5, <2>1 DEF B!Break
  <2> QED
    BY <2>2 DEF B!Next
<1>8. CASE c # "broken"
  <2>1. BrokenSessions' = BrokenSessions
    BY <1>2, <1>6, <1>8 DEF BrokenSessions
  <2> QED
    BY <1>3, <1>5, <2>1 DEF B!vars
<1> QED
  BY <1>7, <1>8

\* What only a thread and its session see.
LEMMA PrivateStep ==
    ASSUME IInv,
           \/ StartReadThread \/ StartPrintThread \/ HandlerReturn
           \/ \E s \in Sessions : \/ ReadLoop(s) \/ ReadExit(s) \/ ReadFails(s)
                                  \/ ReadCommand(s) \/ CommandDone(s) \/ PrintExit(s)
           \/ \E d \in DataThreads : EndSend(d)
    PROVE  UNCHANGED B!vars
<1> USE DEF sessionVars, ioVars, readVars, sendVars, writeVars, setVars
<1>1. CASE StartReadThread \/ StartPrintThread
  BY <1>1, BroadcastStutters DEF StartReadThread, StartPrintThread
<1>2. CASE \E d \in DataThreads : EndSend(d)
  BY <1>2, BroadcastStutters DEF EndSend
<1>3. CASE \E s \in Sessions : ReadLoop(s) \/ ReadFails(s) \/ ReadCommand(s) \/ CommandDone(s)
  BY <1>3, BroadcastStutters DEF ReadLoop, ReadFails, ReadCommand, CommandDone
<1>4. ASSUME NEW s \in Sessions, NEW h, DropRef(s, h),
             UNCHANGED <<broadcasts, SessionSet, conn, todo, call, wire>>
      PROVE  UNCHANGED B!vars
  BY <1>4, GoneFrame DEF B!vars, BrokenSessions, Unserved, Received, Whole, Complete
<1>5. CASE HandlerReturn
  <2>1. newSession \in Sessions
    BY <1>5 DEF HandlerReturn, IInv, TypeOK, AcceptOK
  <2> QED
    BY <1>4, <1>5, <2>1 DEF HandlerReturn
<1>6. CASE \E s \in Sessions : ReadExit(s) \/ PrintExit(s)
  BY <1>4, <1>6 DEF ReadExit, PrintExit
<1> QED
  BY <1>1, <1>2, <1>3, <1>5, <1>6

\* A thread comes to the WriteLock, or gets it.
LEMMA LockStep ==
    ASSUME IInv, \/ \E s \in Sessions : Reply(s)
                 \/ \E t \in Writers : LockWrite(t)
    PROVE  UNCHANGED B!vars
<1>1. UNCHANGED <<broadcasts, SessionSet, life, conn, todo, wire>>
  BY DEF Reply, LockWrite, sessionVars, sendVars, setVars
<1>2. /\ call \in [Writers -> Calls]
      /\ \A d \in DataThreads : <<"data", d>> \in Writers
      /\ \A d \in DataThreads, s \in Sessions : <<"data", d>> # <<"read", s>>
  BY DEF IInv, TypeOK, Writers, Senders
<1>3. \A d \in DataThreads :
        /\ call'[<<"data", d>>].at = "out" <=> call[<<"data", d>>].at = "out"
        /\ call'[<<"data", d>>].target = call[<<"data", d>>].target
  <2>1. CASE \E s \in Sessions : Reply(s)
    BY <1>2, <2>1 DEF Reply
  <2>2. ASSUME NEW t \in Writers, LockWrite(t),
               NEW u \in Writers
        PROVE  /\ call'[u].at = "out" <=> call[u].at = "out"
               /\ call'[u].target = call[u].target
    BY <1>2, <2>2 DEF LockWrite, Calls
  <2> QED
    BY <1>2, <2>1, <2>2
<1>4. Unserved' = Unserved
  BY <1>1, <1>3, UnservedFrame
<1> QED
  BY <1>1, <1>4 DEF B!vars, GoneSessions, BrokenSessions, Received, Whole, Complete

LEMMA BroadcastStep ==
    ASSUME IInv, ListedOK, StreamInv, OrderInv, FreshConn, [Next]_vars
    PROVE  [B!Next]_(B!vars)
<1>1. ASSUME NEW s \in Sessions, Destroy(s) PROVE [B!Next]_(B!vars)
  BY <1>1, LeaveStep DEF B!Next
<1>2. ASSUME NEW d \in DataThreads, SendMsg(d) PROVE [B!Next]_(B!vars)
  BY <1>2, CastStep, VisitStep, PrivateStep DEF SendMsg, B!Next
<1>3. ASSUME NEW t \in Writers, Write(t) PROVE [B!Next]_(B!vars)
  BY <1>3, LockStep, DeliverStep, LoseStep DEF Write
<1>4. CASE UNCHANGED vars
  BY <1>4, BroadcastStutters
     DEF vars, sessionVars, ioVars, readVars, sendVars, writeVars, setVars
<1> QED
  BY <1>1, <1>2, <1>3, <1>4, JoinStep, BreakStep, PrivateStep, LockStep
     DEF Next, IoThread, ReadThread

\* The server is an atomic broadcast, for any number of clients and of data
\* threads: what its threads, locks and partial writes do to the streams could
\* have been done packet by packet and client by client.
THEOREM AtomicBroadcast == Spec => ImplementsBroadcast
<1>1. Init => B!Init
  <2> SUFFICES ASSUME Init PROVE B!Init
    OBVIOUS
  <2>1. GoneSessions = {} /\ BrokenSessions = {}
    BY DEF Init, GoneSessions, BrokenSessions
  <2>2. Unserved = {}
    BY DEF Init, Unserved, Idle, Writers, Senders
  <2>3. \A s \in Sessions : Whole(s) = {}
    BY DEF Init, Whole
  <2> QED
    BY <2>1, <2>2, <2>3 DEF Init, B!Init, Received
<1>2. IInv /\ ListedOK /\ StreamInv /\ OrderInv /\ FreshConn /\ [Next]_vars
        => [B!Next]_(B!vars)
  BY BroadcastStep
<1> QED
  BY Invariance, ListedInvariance, StreamInvariance, OrderInvariance, FreshConnInvariance,
     <1>1, <1>2, PTL DEF Spec, ImplementsBroadcast, B!Spec

(***************************************************************************)
(* What follows from Broadcast alone.  Consecutive is not inductive: a     *)
(* client on the list has everything since its first packet (NoneMissing), *)
(* and one that was never on it has nothing, so joining opens no gap.      *)
(***************************************************************************)
NoneMissing(c) ==
    \A m \in Received[c], n \in Nat :
        m <= n /\ n <= broadcasts => n \in Received[c] \/ (n = broadcasts /\ c \in Unserved)

RunOfNumbers(c) ==
    \A m, k \in Received[c], n \in Nat : m <= n /\ n <= k => n \in Received[c]

RunInv ==
    /\ broadcasts \in Nat
    /\ Received \in [Sessions -> SUBSET Nat]
    /\ Unserved \subseteq SessionSet
    /\ \A c \in Sessions :
        /\ \A n \in Received[c] : n <= broadcasts
        /\ c \notin SessionSet \cup GoneSessions => Received[c] = {}
        /\ c \in SessionSet \ BrokenSessions => NoneMissing(c)
        /\ RunOfNumbers(c)

LEMMA RunStep ==
    ASSUME RunInv, [B!Next]_(B!vars)
    PROVE  RunInv'
<1> USE DEF RunInv, NoneMissing, RunOfNumbers
<1>1. ASSUME NEW c \in Sessions, B!Join(c) PROVE RunInv'
  BY <1>1 DEF B!Join
<1>2. ASSUME NEW c \in Sessions, B!Leave(c) PROVE RunInv'
  BY <1>2 DEF B!Leave
<1>3. ASSUME B!Cast PROVE RunInv'
  <2>1. /\ broadcasts' = broadcasts + 1 /\ broadcasts \in Nat
        /\ Unserved' = SessionSet /\ Unserved = {}
        /\ UNCHANGED <<SessionSet, GoneSessions, BrokenSessions, Received>>
    BY <1>3 DEF B!Cast
  <2> QED
    BY <2>1
<1>4. ASSUME NEW c \in Sessions, B!Deliver(c) PROVE RunInv'
  <2>1. /\ c \in Unserved /\ c \notin BrokenSessions /\ c \in SessionSet
        /\ Unserved' = Unserved \ {c}
        /\ UNCHANGED <<broadcasts, SessionSet, GoneSessions, BrokenSessions>>
    BY <1>4 DEF B!Deliver
  <2>2. \A o \in Sessions :
            Received'[o] = IF o = c THEN Received[o] \cup {broadcasts} ELSE Received[o]
    BY <1>4 DEF B!Deliver
  <2>3. Received' \in [Sessions -> SUBSET Nat]
    BY <1>4 DEF B!Deliver
  <2>4. ASSUME NEW o \in Sessions
        PROVE  /\ \A n \in Received'[o] : n <= broadcasts'
               /\ o \notin SessionSet' \cup GoneSessions' => Received'[o] = {}
               /\ o \in SessionSet' \ BrokenSessions' => NoneMissing(o)'
               /\ RunOfNumbers(o)'
    <3>1. CASE o = c
      <4>1. /\ Received'[o] = Received[o] \cup {broadcasts} /\ broadcasts \in Nat
            /\ Received[o] \subseteq Nat /\ \A n \in Received[o] : n <= broadcasts
        BY <2>2, <3>1
      <4>2. NoneMissing(o) /\ o \in SessionSet
        BY <2>1, <3>1
      <4>3. \A m \in Received'[o], n \in Nat :
                m <= n /\ n <= broadcasts => n \in Received'[o]
        BY <4>1, <4>2
      <4>4. \A n \in Received'[o] : n <= broadcasts
        BY <4>1
      <4>5. RunOfNumbers(o)'
        BY <2>3, <4>1, <4>3, <4>4
      <4> QED
        BY <2>1, <4>2, <4>3, <4>4, <4>5
    <3>2. CASE o # c
      BY <2>1, <2>2, <3>2
    <3> QED
      BY <3>1, <3>2
  <2> QED
    BY <2>1, <2>3, <2>4
<1>5. ASSUME NEW c \in Sessions, B!Lose(c) PROVE RunInv'
  BY <1>5 DEF B!Lose
<1>6. ASSUME NEW c \in Sessions, B!Break(c) PROVE RunInv'
  BY <1>6 DEF B!Break
<1>7. CASE UNCHANGED B!vars
  BY <1>7 DEF B!vars
<1> QED
  BY <1>1, <1>2, <1>3, <1>4, <1>5, <1>6, <1>7 DEF B!Next

\* An atomic broadcast leaves no gaps: nothing but Broadcast is used.
LEMMA BroadcastHasNoGaps == B!Spec => []NoGaps
<1>1. B!Init => RunInv
  BY DEF B!Init, RunInv, NoneMissing, RunOfNumbers
<1>2. RunInv => NoGaps
  BY DEF RunInv, RunOfNumbers, NoGaps, B!Consecutive
<1> QED
  BY RunStep, <1>1, <1>2, PTL DEF B!Spec

\* So the broadcasts a client of the server has got are consecutive, whoever
\* joined, was destroyed or broke off while they were sent.
THEOREM ClientsMissNothing == Spec => []NoGaps
  BY AtomicBroadcast, BroadcastHasNoGaps, PTL DEF ImplementsBroadcast
=============================================================================
