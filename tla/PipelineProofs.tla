--------------------------- MODULE PipelineProofs ---------------------------
(***************************************************************************)
(* Proofs about Pipeline, for any channels, clients, depths and frames:    *)
(* how the locks are held and how far the queues fill (TypeOK), that the   *)
(* whole way from the board to a client is a LossyChannel, and that only   *)
(* a full queue and the filter of the narrow band lose messages on it.     *)
(***************************************************************************)
EXTENDS Pipeline, TLAPS

-----------------------------------------------------------------------------
(***************************************************************************)
(* The messages of block b are numbered from Base(b) + 1.                  *)
(***************************************************************************)
Base(b) == FRAMES * (b - 1)

LEMMA BaseNat ==
    ASSUME NEW b \in Nat \ {0}
    PROVE  Base(b) \in Nat /\ Base(b) + FRAMES = FRAMES * b
  BY PipelineAssumption DEF Base

LEMMA BaseGrows ==
    ASSUME NEW a \in Nat \ {0}, NEW b \in Nat \ {0}, a < b
    PROVE  Base(a) + FRAMES <= Base(b)
<1>1. PICK d \in Nat : b - 1 = a + d
  <2>1. b - 1 - a \in Nat /\ b - 1 = a + (b - 1 - a)
    OBVIOUS
  <2> QED
    BY <2>1
<1>2. FRAMES \in Nat
  BY PipelineAssumption
<1>3. FRAMES * (a + d) = FRAMES * a + FRAMES * d /\ FRAMES * d \in Nat /\ FRAMES * a \in Nat
  BY <1>2
<1>4. Base(b) = FRAMES * a + FRAMES * d
  BY <1>1, <1>3 DEF Base
<1>5. Base(a) + FRAMES = FRAMES * a /\ Base(a) \in Nat
  BY BaseNat
<1> QED
  BY <1>2, <1>3, <1>4, <1>5

-----------------------------------------------------------------------------
(***************************************************************************)
(* Types and locks.                                                        *)
(***************************************************************************)
States == {"away", "on", "stalled", "broken", "gone"}

TypeInv ==
    /\ read \in [Channels -> Nat]
    /\ queue \in [Channels -> Seq(Nat)]
    /\ block \in [Channels -> Nat]
    /\ part \in [Channels -> 0 .. FRAMES]
    /\ todo \in [Channels -> SUBSET Clients]
    /\ SessionSet \in SUBSET Clients
    /\ ParamPowerWBMutex \in {Free, WB}
    /\ SessionSetMutex \in Channels \cup {Free}
    /\ WriteLock \in [Clients -> Channels \cup Clients \cup {Free}]
    /\ conn \in [Clients -> States]
    /\ command \in [Clients -> {"none", "parse", "answer"}]
    /\ received \in [Ends -> Seq(Nat)]

\* A message is written to the sessions of the list by the data thread that holds
\* the list, and that thread is in the middle of a block.
SendInv ==
    \A ch \in Channels :
        /\ todo[ch] # {} => SessionSetMutex = ch
        /\ todo[ch] \subseteq SessionSet
        /\ SessionSetMutex = ch => block[ch] # 0 /\ Ready(ch) /\ part[ch] # 0

ClientInv ==
    \A c \in Clients :
        /\ WriteLock[c] \in Channels => c \in todo[WriteLock[c]]
        /\ WriteLock[c] = c => command[c] = "answer"
        /\ c \in SessionSet <=> conn[c] \in {"on", "stalled", "broken"}

LockInv == SendInv /\ ClientInv

LEMMA LockInit == Init => TypeInv /\ LockInv
<1> SUFFICES ASSUME Init PROVE TypeInv /\ LockInv
  OBVIOUS
<1> USE PipelineAssumption DEF Init
<1>1. TypeInv
  BY DEF TypeInv, States
<1>2. SendInv
  BY DEF SendInv
<1>3. ClientInv
  BY DEF ClientInv
<1> QED
  BY <1>1, <1>2, <1>3 DEF LockInv

LEMMA TypeStep ==
    ASSUME TypeInv, LockInv, [Next]_vars
    PROVE  TypeInv'
<1>a. /\ read \in [Channels -> Nat]
      /\ queue \in [Channels -> Seq(Nat)]
      /\ block \in [Channels -> Nat]
      /\ part \in [Channels -> 0 .. FRAMES]
      /\ FRAMES \in Nat
  BY PipelineAssumption DEF TypeInv
<1>b. /\ todo \in [Channels -> SUBSET Clients]
      /\ SessionSet \in SUBSET Clients
      /\ WriteLock \in [Clients -> Channels \cup Clients \cup {Free}]
      /\ conn \in [Clients -> States]
      /\ command \in [Clients -> {"none", "parse", "answer"}]
      /\ received \in [Ends -> Seq(Nat)]
  BY DEF TypeInv
<1>c. ParamPowerWBMutex \in {Free, WB} /\ SessionSetMutex \in Channels \cup {Free}
  BY DEF TypeInv
<1>1. ASSUME NEW ch \in Channels, ReadBlock(ch) PROVE TypeInv'
  <2>1. read' = [read EXCEPT ![ch] = @ + 1]
        /\ (queue' = queue \/ queue' = [queue EXCEPT ![ch] = Append(@, read'[ch])])
    BY <1>1 DEF ReadBlock
  <2>2. UNCHANGED <<block, part, todo, SessionSet, ParamPowerWBMutex, SessionSetMutex,
                    WriteLock, conn, command, received>>
    BY <1>1 DEF ReadBlock, workVars, sendVars, clientVars, commandVars
  <2>3. read' \in [Channels -> Nat] /\ read'[ch] \in Nat
    BY <1>a, <2>1
  <2>4. Append(queue[ch], read'[ch]) \in Seq(Nat)
    BY <1>a, <2>3
  <2>5. queue' \in [Channels -> Seq(Nat)]
    <3>1. CASE queue' = queue
      BY <1>a, <3>1
    <3>2. CASE queue' = [queue EXCEPT ![ch] = Append(@, read'[ch])]
      <4> DEFINE q == Append(queue[ch], read'[ch])
      <4>1. queue' = [queue EXCEPT ![ch] = q]
        BY <3>2
      <4> HIDE DEF q
      <4> QED
        BY <1>a, <2>4, <4>1 DEF q
    <3> QED
      BY <2>1, <3>1, <3>2
  <2> QED
    BY <2>2, <2>3, <2>5 DEF TypeInv
<1>2. ASSUME NEW ch \in Channels, WaitAndPop(ch) PROVE TypeInv'
  <2>1. /\ queue[ch] # <<>>
        /\ block' = [block EXCEPT ![ch] = Head(queue[ch])]
        /\ part' = [part EXCEPT ![ch] = 0]
        /\ queue' = [queue EXCEPT ![ch] = Tail(@)]
    BY <1>2 DEF WaitAndPop, PopFront
  <2>2. UNCHANGED <<read, todo, SessionSet, ParamPowerWBMutex, SessionSetMutex,
                    WriteLock, conn, command, received>>
    BY <1>2 DEF WaitAndPop, sendVars, clientVars, commandVars
  <2>3. queue[ch] \in Seq(Nat)
    BY <1>a
  <2>4. Head(queue[ch]) \in Nat /\ Tail(queue[ch]) \in Seq(Nat)
    BY <2>1, <2>3
  <2>5. block' \in [Channels -> Nat]
    BY <1>a, <2>1, <2>4
  <2>6. part' \in [Channels -> 0 .. FRAMES]
    BY <1>a, <2>1
  <2>7. queue' \in [Channels -> Seq(Nat)]
    BY <1>a, <2>1, <2>4
  <2> QED
    BY <2>2, <2>5, <2>6, <2>7 DEF TypeInv
<1>3. CASE LockParams
  <2>1. /\ ParamPowerWBMutex' = WB
        /\ UNCHANGED <<read, queue, block, part, todo, SessionSet, SessionSetMutex,
                       WriteLock, conn, command, received>>
    BY <1>3 DEF LockParams, boardVars, sendVars, clientVars, commandVars
  <2> QED
    BY <2>1 DEF TypeInv
<1>4. ASSUME NEW ch \in Channels, EndBlock(ch) PROVE TypeInv'
  <2>1. /\ block' = [block EXCEPT ![ch] = 0]
        /\ ParamPowerWBMutex' \in {Free, ParamPowerWBMutex}
        /\ UNCHANGED <<read, queue, part, todo, SessionSet, SessionSetMutex,
                       WriteLock, conn, command, received>>
    BY <1>4 DEF EndBlock, sendVars, clientVars, commandVars
  <2>2. block' \in [Channels -> Nat]
    BY <1>a, <2>1
  <2>3. ParamPowerWBMutex' \in {Free, WB}
    BY <1>c, <2>1
  <2> QED
    BY <2>1, <2>2, <2>3 DEF TypeInv
<1>5. ASSUME NEW ch \in Channels, BeginSendMsg(ch) PROVE TypeInv'
  <2>1. /\ part[ch] < FRAMES /\ part' = [part EXCEPT ![ch] = @ + 1]
        /\ SessionSetMutex' = ch
        /\ todo' = [todo EXCEPT ![ch] = SessionSet]
        /\ UNCHANGED <<read, queue, block, SessionSet, ParamPowerWBMutex, WriteLock,
                       conn, command, received>>
    BY <1>5 DEF BeginSendMsg, boardVars, clientVars, commandVars
  <2>2. part' \in [Channels -> 0 .. FRAMES]
    <3>1. part[ch] + 1 \in 0 .. FRAMES
      BY <1>a, <2>1
    <3> QED
      BY <1>a, <2>1, <3>1
  <2>3. todo' \in [Channels -> SUBSET Clients]
    BY <1>b, <2>1
  <2> QED
    BY <2>1, <2>2, <2>3 DEF TypeInv
<1>6. ASSUME NEW ch \in Channels, EndSendMsg(ch) PROVE TypeInv'
  <2>1. /\ SessionSetMutex' = Free
        /\ UNCHANGED <<read, queue, block, part, todo, SessionSet, ParamPowerWBMutex,
                       WriteLock, conn, command, received>>
    BY <1>6 DEF EndSendMsg, boardVars, workVars, clientVars, commandVars
  <2> QED
    BY <2>1 DEF TypeInv
<1>7. ASSUME NEW x \in Channels \cup Clients, NEW c \in Clients, LockWrite(x, c)
      PROVE  TypeInv'
  <2>1. /\ WriteLock' = [WriteLock EXCEPT ![c] = x]
        /\ UNCHANGED <<read, queue, block, part, todo, SessionSet, ParamPowerWBMutex,
                       SessionSetMutex, conn, command, received>>
    BY <1>7 DEF LockWrite, boardVars, workVars, sendVars, clientVars, commandVars
  <2>2. WriteLock' \in [Clients -> Channels \cup Clients \cup {Free}]
    BY <1>b, <2>1
  <2> QED
    BY <2>1, <2>2 DEF TypeInv
<1>8. ASSUME NEW ch \in Channels, NEW c \in Clients, WriteSession(ch, c) PROVE TypeInv'
  <2>1. c \in todo[ch] /\ SessionSetMutex = ch /\ block[ch] # 0
    BY <1>8 DEF WriteSession, LockInv, ClientInv, SendInv
  <2> DEFINE n == Base(block[ch]) + part[ch]
  <2>2. n \in Nat
    <3>1. block[ch] \in Nat \ {0} /\ part[ch] \in Nat
      BY <1>a, <2>1
    <3>2. Base(block[ch]) \in Nat
      BY <3>1, BaseNat
    <3> QED
      BY <3>1, <3>2
  <2>3. <<c, ch>> \in Ends
    BY DEF Ends
  <2>4. received' = received \/ received' = [received EXCEPT ![<<c, ch>>] = Append(@, n)]
    BY <1>8 DEF WriteSession, Base
  <2>5. /\ todo' = [todo EXCEPT ![ch] = @ \ {c}]
        /\ WriteLock' = [WriteLock EXCEPT ![c] = Free]
        /\ UNCHANGED <<read, queue, block, part, SessionSet, ParamPowerWBMutex,
                       SessionSetMutex, conn, command>>
    BY <1>8 DEF WriteSession, boardVars, workVars, clientVars, commandVars
  <2> HIDE DEF n
  <2>6. received' \in [Ends -> Seq(Nat)]
    <3>1. received[<<c, ch>>] \in Seq(Nat)
      BY <1>b, <2>3
    <3>2. Append(received[<<c, ch>>], n) \in Seq(Nat)
      BY <2>2, <3>1
    <3> QED
      BY <1>b, <2>4, <3>2
  <2>7. todo' \in [Channels -> SUBSET Clients]
    BY <1>b, <2>5
  <2>8. WriteLock' \in [Clients -> Channels \cup Clients \cup {Free}]
    BY <1>b, <2>5
  <2> QED
    BY <2>5, <2>6, <2>7, <2>8 DEF TypeInv
<1>9. ASSUME NEW c \in Clients, AddToSet(c) \/ RemoveFromSet(c) PROVE TypeInv'
  <2>1. /\ SessionSet' \in {SessionSet \cup {c}, SessionSet \ {c}}
        /\ \/ conn' = [conn EXCEPT ![c] = "on"]
           \/ conn' = [conn EXCEPT ![c] = "gone"]
        /\ UNCHANGED <<read, queue, block, part, todo, ParamPowerWBMutex, SessionSetMutex,
                       WriteLock, command, received>>
    BY <1>9 DEF AddToSet, RemoveFromSet, boardVars, workVars, sendVars, commandVars
  <2>2. conn' \in [Clients -> States]
    BY <1>b, <2>1 DEF States
  <2>3. SessionSet' \in SUBSET Clients
    BY <1>b, <2>1
  <2> QED
    BY <2>1, <2>2, <2>3 DEF TypeInv
<1>10. ASSUME NEW c \in Clients, ReadCommand(c) \/ SetParam(c) \/ ControlReplay(c)
       PROVE  TypeInv'
  <2>1. /\ \E s \in {"none", "parse", "answer"} : command' = [command EXCEPT ![c] = s]
        /\ WriteLock' = WriteLock \/ WriteLock' = [WriteLock EXCEPT ![c] = Free]
        /\ UNCHANGED <<read, queue, block, part, todo, SessionSet, ParamPowerWBMutex,
                       SessionSetMutex, conn, received>>
    BY <1>10 DEF ReadCommand, SetParam, ControlReplay, boardVars, workVars, sendVars,
                 clientVars
  <2>2. command' \in [Clients -> {"none", "parse", "answer"}]
    BY <1>b, <2>1
  <2>3. WriteLock' \in [Clients -> Channels \cup Clients \cup {Free}]
    BY <1>b, <2>1
  <2> QED
    BY <2>1, <2>2, <2>3 DEF TypeInv
<1>11. ASSUME NEW c \in Clients, Peer(c) PROVE TypeInv'
  <2>1. PICK to \in States : /\ conn' = [conn EXCEPT ![c] = to]
                             /\ UNCHANGED <<read, queue, block, part, todo, SessionSet,
                                    ParamPowerWBMutex, SessionSetMutex, WriteLock,
                                    command, received>>
    BY <1>11 DEF Peer, ConnChanges, boardVars, workVars, sendVars, commandVars, States
  <2>2. conn' \in [Clients -> States]
    BY <1>b, <2>1
  <2> QED
    BY <2>1, <2>2 DEF TypeInv
<1>12. CASE UNCHANGED vars
  <2>1. UNCHANGED <<read, queue, block, part, todo, SessionSet, ParamPowerWBMutex,
                    SessionSetMutex, WriteLock, conn, command, received>>
    BY <1>12 DEF vars, boardVars, workVars, sendVars, clientVars, commandVars
  <2> QED
    BY <2>1 DEF TypeInv
<1> QED
  BY <1>1, <1>2, <1>3, <1>4, <1>5, <1>6, <1>7, <1>8, <1>9, <1>10, <1>11, <1>12
     DEF Next, DataThread, ReadThread, LockSession, LockAnswer

LEMMA LockStep ==
    ASSUME TypeInv, LockInv, [Next]_vars
    PROVE  LockInv'
<1>a. /\ block \in [Channels -> Nat]
      /\ part \in [Channels -> 0 .. FRAMES]
      /\ todo \in [Channels -> SUBSET Clients]
      /\ WriteLock \in [Clients -> Channels \cup Clients \cup {Free}]
      /\ conn \in [Clients -> States]
      /\ command \in [Clients -> {"none", "parse", "answer"}]
      /\ SessionSet \subseteq Clients
      /\ SessionSetMutex \in Channels \cup {Free}
      /\ Free \notin Channels \cup Clients
      /\ Channels \cap Clients = {}
      /\ FRAMES \in Nat
  BY PipelineAssumption DEF TypeInv
<1>b. SendInv /\ ClientInv
  BY DEF LockInv
\* ClientInv looks at these variables only, SendInv at those.
<1>c. UNCHANGED <<WriteLock, todo, command, SessionSet, conn>> => ClientInv'
  BY <1>b DEF ClientInv
<1>d. UNCHANGED <<todo, SessionSetMutex, SessionSet, block, part, ParamPowerWBMutex>> => SendInv'
  BY <1>b DEF SendInv, Ready
<1>1. ASSUME NEW ch \in Channels, ReadBlock(ch) PROVE LockInv'
  <2>1. UNCHANGED <<block, part, ParamPowerWBMutex, todo, SessionSetMutex, SessionSet, conn,
                    command, WriteLock>>
    BY <1>1 DEF ReadBlock, workVars, sendVars, clientVars, commandVars
  <2> QED
    BY <1>c, <1>d, <2>1 DEF LockInv
<1>2. ASSUME NEW ch \in Channels, WaitAndPop(ch) PROVE LockInv'
  <2>1. /\ block[ch] = 0
        /\ \E b : block' = [block EXCEPT ![ch] = b]
        /\ part' = [part EXCEPT ![ch] = 0]
        /\ UNCHANGED <<ParamPowerWBMutex, todo, SessionSetMutex, SessionSet, conn, command,
                       WriteLock>>
    BY <1>2 DEF WaitAndPop, sendVars, clientVars, commandVars
  <2>2. SessionSetMutex # ch
    BY <1>b, <2>1 DEF SendInv
  <2>3. \A d \in Channels : d # ch => block'[d] = block[d] /\ part'[d] = part[d]
    BY <1>a, <2>1
  <2>4. SendInv'
    BY <1>b, <2>1, <2>2, <2>3 DEF SendInv, Ready
  <2> QED
    BY <1>c, <2>1, <2>4 DEF LockInv
<1>3. CASE LockParams
  <2>1. /\ ParamPowerWBMutex' = WB
        /\ UNCHANGED <<block, part, todo, SessionSetMutex, SessionSet, conn, command, WriteLock>>
    BY <1>3 DEF LockParams, boardVars, sendVars, clientVars, commandVars
  <2>2. SendInv'
    BY <1>b, <2>1 DEF SendInv, Ready
  <2> QED
    BY <1>c, <2>1, <2>2 DEF LockInv
<1>4. ASSUME NEW ch \in Channels, EndBlock(ch) PROVE LockInv'
  <2>1. /\ SessionSetMutex # ch
        /\ block' = [block EXCEPT ![ch] = 0]
        /\ ch # WB => ParamPowerWBMutex' = ParamPowerWBMutex
        /\ UNCHANGED <<part, todo, SessionSetMutex, SessionSet, conn, command, WriteLock>>
    BY <1>4 DEF EndBlock, sendVars, clientVars, commandVars
  <2>2. \A d \in Channels : d # ch => block'[d] = block[d]
    BY <1>a, <2>1
  <2>3. SendInv'
    BY <1>b, <2>1, <2>2 DEF SendInv, Ready
  <2> QED
    BY <1>c, <2>1, <2>3 DEF LockInv
<1>5. ASSUME NEW ch \in Channels, BeginSendMsg(ch) PROVE LockInv'
  <2>1. /\ block[ch] # 0 /\ Ready(ch) /\ SessionSetMutex = Free /\ SessionSetMutex' = ch
        /\ todo' = [todo EXCEPT ![ch] = SessionSet]
        /\ part' = [part EXCEPT ![ch] = @ + 1]
        /\ UNCHANGED <<block, ParamPowerWBMutex, SessionSet, conn, command, WriteLock>>
    BY <1>5 DEF BeginSendMsg, boardVars, clientVars, commandVars
  <2>2. \A d \in Channels : todo[d] = {}
    BY <1>a, <1>b, <2>1 DEF SendInv
  <2>3. /\ todo'[ch] = SessionSet /\ part'[ch] = part[ch] + 1 /\ part[ch] \in Nat
        /\ \A d \in Channels : d # ch => todo'[d] = {}
    BY <1>a, <2>1, <2>2
  <2>4. SendInv'
    BY <2>1, <2>3 DEF SendInv, Ready
  <2>5. \A c \in Clients : WriteLock[c] \notin Channels
    BY <1>b, <2>2 DEF ClientInv
  <2>6. ClientInv'
    BY <1>b, <2>1, <2>5 DEF ClientInv
  <2> QED
    BY <2>4, <2>6 DEF LockInv
<1>6. ASSUME NEW ch \in Channels, EndSendMsg(ch) PROVE LockInv'
  <2>1. /\ SessionSetMutex = ch /\ todo[ch] = {} /\ SessionSetMutex' = Free
        /\ UNCHANGED <<block, part, todo, ParamPowerWBMutex, SessionSet, conn, command, WriteLock>>
    BY <1>6 DEF EndSendMsg, boardVars, workVars, clientVars, commandVars
  <2>2. SendInv'
    BY <1>a, <1>b, <2>1 DEF SendInv
  <2> QED
    BY <1>c, <2>1, <2>2 DEF LockInv
<1>7. ASSUME NEW x \in Channels \cup Clients, NEW c \in Clients, LockWrite(x, c),
             x \in Channels => c \in todo[x],
             x = c => command[c] = "answer"
      PROVE  LockInv'
  <2>1. /\ WriteLock' = [WriteLock EXCEPT ![c] = x]
        /\ UNCHANGED <<block, part, todo, ParamPowerWBMutex, SessionSetMutex, SessionSet, conn,
                       command>>
    BY <1>7 DEF LockWrite, boardVars, workVars, sendVars, clientVars, commandVars
  <2>2. WriteLock'[c] = x /\ \A d \in Clients : d # c => WriteLock'[d] = WriteLock[d]
    BY <1>a, <2>1
  <2>3. ClientInv'
    BY <1>7, <1>b, <2>1, <2>2 DEF ClientInv
  <2> QED
    BY <1>d, <2>1, <2>3 DEF LockInv
<1>8. ASSUME NEW ch \in Channels, NEW c \in Clients, WriteSession(ch, c) PROVE LockInv'
  <2>1. /\ WriteLock[c] = ch
        /\ todo' = [todo EXCEPT ![ch] = @ \ {c}]
        /\ WriteLock' = [WriteLock EXCEPT ![c] = Free]
        /\ UNCHANGED <<block, part, ParamPowerWBMutex, SessionSetMutex, SessionSet, conn>>
        /\ UNCHANGED command
    BY <1>8 DEF WriteSession, workVars, clientVars, commandVars
  <2>2. /\ todo'[ch] = todo[ch] \ {c}
        /\ \A d \in Channels : d # ch => todo'[d] = todo[d]
        /\ WriteLock'[c] = Free
        /\ \A d \in Clients : d # c => WriteLock'[d] = WriteLock[d]
    BY <1>a, <2>1
  <2>3. SendInv'
    <3>1. \A d \in Channels : todo'[d] \subseteq todo[d]
      BY <2>2
    <3> QED
      BY <1>b, <2>1, <3>1 DEF SendInv, Ready
  <2>4. ClientInv'
    <3> SUFFICES ASSUME NEW d \in Clients
                 PROVE  /\ WriteLock'[d] \in Channels => d \in todo'[WriteLock'[d]]
                        /\ WriteLock'[d] = d => command'[d] = "answer"
                        /\ d \in SessionSet' <=> conn'[d] \in {"on", "stalled", "broken"}
      BY DEF ClientInv
    <3>1. CASE d = c
      BY <1>a, <1>b, <2>1, <2>2, <3>1 DEF ClientInv
    <3>2. CASE d # c
      <4>1. WriteLock'[d] = WriteLock[d] /\ WriteLock[d] \in Channels => d \in todo[WriteLock[d]]
        BY <1>b, <2>2, <3>2 DEF ClientInv
      <4>2. WriteLock[d] \in Channels => d \in todo'[WriteLock[d]]
        BY <2>2, <3>2, <4>1
      <4> QED
        BY <1>b, <2>1, <2>2, <3>2, <4>2 DEF ClientInv
    <3> QED
      BY <3>1, <3>2
  <2> QED
    BY <2>3, <2>4 DEF LockInv
<1>9. ASSUME NEW c \in Clients, AddToSet(c) \/ RemoveFromSet(c) PROVE LockInv'
  <2>1. /\ SessionSetMutex = Free
        /\ \/ conn' = [conn EXCEPT ![c] = "on"] /\ SessionSet' = SessionSet \cup {c}
           \/ conn' = [conn EXCEPT ![c] = "gone"] /\ SessionSet' = SessionSet \ {c}
        /\ UNCHANGED <<block, part, todo, ParamPowerWBMutex, SessionSetMutex, WriteLock, command>>
    BY <1>9 DEF AddToSet, RemoveFromSet, boardVars, workVars, sendVars, commandVars
  <2>2. \A d \in Channels : todo[d] = {} /\ SessionSetMutex # d
    BY <1>a, <1>b, <2>1 DEF SendInv
  <2>3. SendInv'
    BY <2>1, <2>2 DEF SendInv
  <2>4. ClientInv'
    BY <1>a, <1>b, <2>1 DEF ClientInv
  <2> QED
    BY <2>3, <2>4 DEF LockInv
<1>10. ASSUME NEW c \in Clients, ReadCommand(c) \/ SetParam(c) \/ ControlReplay(c)
       PROVE  LockInv'
  <2>1. UNCHANGED <<block, part, todo, ParamPowerWBMutex, SessionSetMutex, SessionSet, conn>>
    BY <1>10 DEF ReadCommand, SetParam, ControlReplay, boardVars, workVars, sendVars, clientVars
  <2>2. \/ /\ command[c] # "answer" /\ UNCHANGED WriteLock
           /\ \E s : command' = [command EXCEPT ![c] = s]
        \/ /\ WriteLock' = [WriteLock EXCEPT ![c] = Free]
           /\ command' = [command EXCEPT ![c] = "none"]
    BY <1>10 DEF ReadCommand, SetParam, ControlReplay
  <2>3. ClientInv'
    BY <1>a, <1>b, <2>1, <2>2 DEF ClientInv
  <2> QED
    BY <1>d, <2>1, <2>3 DEF LockInv
<1>11. ASSUME NEW c \in Clients, Peer(c) PROVE LockInv'
  <2>1. PICK from \in {"on", "stalled"}, to \in {"on", "stalled", "broken"} :
                 ConnChanges(c, from, to)
    BY <1>11 DEF Peer
  <2>2. /\ conn[c] = from /\ conn' = [conn EXCEPT ![c] = to]
        /\ UNCHANGED <<block, part, todo, ParamPowerWBMutex, SessionSetMutex, SessionSet>>
        /\ UNCHANGED <<WriteLock, command>>
    BY <2>1 DEF ConnChanges, workVars, sendVars, commandVars
  <2>3. ClientInv'
    BY <1>a, <1>b, <2>2 DEF ClientInv
  <2> QED
    BY <1>d, <2>2, <2>3 DEF LockInv
<1>12. CASE UNCHANGED vars
  <2>1. UNCHANGED <<block, part, ParamPowerWBMutex, todo, SessionSetMutex, SessionSet, conn,
                    command, WriteLock>>
    BY <1>12 DEF vars, workVars, sendVars, clientVars, commandVars
  <2> QED
    BY <1>c, <1>d, <2>1 DEF LockInv
<1>13. ASSUME NEW ch \in Channels, NEW c \in Clients, LockSession(ch, c) PROVE LockInv'
  BY <1>7, <1>13, <1>a DEF LockSession
<1>14. ASSUME NEW c \in Clients, LockAnswer(c) PROVE LockInv'
  BY <1>7, <1>14, <1>a DEF LockAnswer
<1> QED
  BY <1>1, <1>2, <1>3, <1>4, <1>5, <1>6, <1>8, <1>9, <1>10, <1>11, <1>12, <1>13, <1>14
     DEF Next, DataThread, ReadThread

-----------------------------------------------------------------------------
(***************************************************************************)
(* The order of blocks and messages.                                       *)
(***************************************************************************)

\* The blocks of queue q are in order, later than block b, which is being sent, and
\* among the r that were read from the board.
Lined(q, b, r) ==
    /\ b <= r
    /\ \A i \in 1 .. Len(q) : q[i] \in 1 .. r /\ b < q[i]
    /\ \A i, j \in 1 .. Len(q) : i < j => q[i] < q[j]

QueueInv ==
    \A ch \in Channels :
        /\ Len(queue[ch]) <= MAX_BUFFER_DEPTH + 1
        /\ Lined(queue[ch], block[ch], read[ch])

\* Message m that client c got of channel ch is of a block that was read, before
\* all blocks in the queue, and not later than the message being sent; before it
\* if the client has still to get that one.
Past(c, ch, m) ==
    /\ m <= Base(read[ch] + 1)
    /\ \A i \in 1 .. Len(queue[ch]) : m <= Base(queue[ch][i])
    /\ block[ch] # 0 =>
        /\ m <= Base(block[ch]) + part[ch]
        /\ c \in todo[ch] => m < Base(block[ch]) + part[ch]

ReceivedInv ==
    \A c \in Clients, ch \in Channels :
        \A i \in 1 .. Len(received[<<c, ch>>]) : Past(c, ch, received[<<c, ch>>][i])

LEMMA OrderInit == Init => QueueInv /\ ReceivedInv
<1> SUFFICES ASSUME Init PROVE QueueInv /\ ReceivedInv
  OBVIOUS
<1>1. /\ \A ch \in Channels : queue[ch] = <<>> /\ block[ch] = 0 /\ read[ch] = 0
      /\ \A e \in Ends : received[e] = <<>>
  BY DEF Init
<1>2. QueueInv
  BY <1>1, PipelineAssumption DEF QueueInv, Lined
<1>3. ReceivedInv
  BY <1>1 DEF ReceivedInv, Ends
<1> QED
  BY <1>2, <1>3

\* The first of the queue is taken.
LEMMA TailFacts ==
    ASSUME NEW q \in Seq(Nat), q # <<>>
    PROVE  /\ Len(q) \in Nat /\ Len(q) >= 1
           /\ Head(q) = q[1]
           /\ Len(Tail(q)) = Len(q) - 1
           /\ \A i \in 1 .. Len(q) - 1 : Tail(q)[i] = q[i + 1]
  OBVIOUS

LEMMA AppendFacts ==
    ASSUME NEW q \in Seq(Nat), NEW n \in Nat
    PROVE  /\ Len(q) \in Nat
           /\ Len(Append(q, n)) = Len(q) + 1
           /\ \A i \in 1 .. Len(q) : Append(q, n)[i] = q[i]
           /\ Append(q, n)[Len(q) + 1] = n
  OBVIOUS

LEMMA PushKeepsOrder ==
    ASSUME NEW q \in Seq(Nat), NEW b \in Nat, NEW r \in Nat, Lined(q, b, r)
    PROVE  Lined(Append(q, r + 1), b, r + 1)
<1> DEFINE p == Append(q, r + 1)
           n == Len(q)
<1>1. /\ n \in Nat /\ Len(p) = n + 1
      /\ \A i \in 1 .. n : p[i] = q[i]
      /\ p[n + 1] = r + 1
  BY AppendFacts
<1>2. /\ b <= r
      /\ \A i \in 1 .. n : q[i] \in 1 .. r /\ b < q[i]
      /\ \A i, j \in 1 .. n : i < j => q[i] < q[j]
  BY DEF Lined
<1> HIDE DEF p, n
<1>3. \A i \in 1 .. n + 1 : i = n + 1 \/ i \in 1 .. n
  BY <1>1
<1>4. \A i \in 1 .. n + 1 : p[i] \in 1 .. r + 1 /\ b < p[i]
  <2> TAKE i \in 1 .. n + 1
  <2>1. CASE i = n + 1
    BY <1>1, <1>2, <2>1
  <2>2. CASE i \in 1 .. n
    <3>1. p[i] = q[i] /\ q[i] \in 1 .. r /\ b < q[i]
      BY <1>1, <1>2, <2>2
    <3> QED
      BY <3>1
  <2> QED
    BY <1>3, <2>1, <2>2
<1>5. \A i, j \in 1 .. n + 1 : i < j => p[i] < p[j]
  <2> SUFFICES ASSUME NEW i \in 1 .. n + 1, NEW j \in 1 .. n + 1, i < j
               PROVE  p[i] < p[j]
    OBVIOUS
  <2>1. i \in 1 .. n
    BY <1>1
  <2>2. p[i] = q[i] /\ q[i] \in 1 .. r
    BY <1>1, <1>2, <2>1
  <2>3. CASE j = n + 1
    BY <1>1, <2>2, <2>3
  <2>4. CASE j \in 1 .. n
    BY <1>1, <1>2, <2>1, <2>2, <2>4
  <2> QED
    BY <1>3, <2>3, <2>4
<1>6. b <= r + 1
  BY <1>2
<1> QED
  BY <1>1, <1>4, <1>5, <1>6 DEF Lined, p

LEMMA PopKeepsOrder ==
    ASSUME NEW q \in Seq(Nat), NEW b \in Nat, NEW r \in Nat, Lined(q, b, r), q # <<>>
    PROVE  Lined(Tail(q), Head(q), r)
<1> DEFINE p == Tail(q)
           h == Head(q)
           n == Len(q)
<1>1. /\ n \in Nat /\ n >= 1 /\ h = q[1] /\ Len(p) = n - 1
      /\ \A i \in 1 .. n - 1 : p[i] = q[i + 1]
  BY TailFacts
<1>2. /\ \A i \in 1 .. n : q[i] \in 1 .. r
      /\ \A i, j \in 1 .. n : i < j => q[i] < q[j]
  BY DEF Lined
<1> HIDE DEF p, h, n
<1>3. \A i \in 1 .. n - 1 : i + 1 \in 1 .. n /\ 1 < i + 1
  BY <1>1
<1>4. 1 \in 1 .. n
  BY <1>1
<1>5. h <= r
  BY <1>1, <1>2, <1>4
<1>6. \A i \in 1 .. n - 1 : p[i] \in 1 .. r /\ h < p[i]
  BY <1>1, <1>2, <1>3, <1>4
<1>7. \A i, j \in 1 .. n - 1 : i < j => p[i] < p[j]
  <2> SUFFICES ASSUME NEW i \in 1 .. n - 1, NEW j \in 1 .. n - 1, i < j
               PROVE  p[i] < p[j]
    OBVIOUS
  <2>1. i + 1 < j + 1
    BY <1>1
  <2> QED
    BY <1>1, <1>2, <1>3, <2>1
<1> QED
  BY <1>1, <1>5, <1>6, <1>7 DEF Lined, p, h

LEMMA QueueStep ==
    ASSUME TypeInv, LockInv, QueueInv, [Next]_vars
    PROVE  QueueInv'
<1>a. /\ read \in [Channels -> Nat] /\ queue \in [Channels -> Seq(Nat)]
      /\ block \in [Channels -> Nat] /\ MAX_BUFFER_DEPTH \in Nat
  BY PipelineAssumption DEF TypeInv
<1>b. \A d \in Channels :
        Len(queue[d]) <= MAX_BUFFER_DEPTH + 1 /\ Lined(queue[d], block[d], read[d])
  BY DEF QueueInv
<1>1. ASSUME NEW ch \in Channels, ReadBlock(ch) PROVE QueueInv'
  <2> DEFINE q == queue[ch]
             p == Append(q, read[ch] + 1)
  <2>1. /\ read' = [read EXCEPT ![ch] = @ + 1]
        /\ block' = block
        /\ \/ queue' = queue
           \/ queue' = [queue EXCEPT ![ch] = Append(@, read'[ch])] /\ ~Full(ch)
    BY <1>1 DEF ReadBlock, workVars
  <2>2. read'[ch] = read[ch] + 1 /\ \A d \in Channels : d # ch => read'[d] = read[d]
    BY <1>a, <2>1
  <2>3. q \in Seq(Nat) /\ read[ch] \in Nat /\ block[ch] \in Nat /\ Lined(q, block[ch], read[ch])
    BY <1>a, <1>b
  <2>4. CASE queue' = queue
    <3> HIDE DEF q
    <3>1. Lined(q, block[ch], read[ch] + 1)
      <4> DEFINE r == read[ch]
                 b == block[ch]
      <4>1. q \in Seq(Nat) /\ r \in Nat /\ b \in Nat /\ Lined(q, b, r)
        BY <2>3
      <4> HIDE DEF r, b
      <4>2. b <= r + 1 /\ \A i \in 1 .. r : i \in 1 .. r + 1
        BY <4>1, SMT DEF Lined
      <4>3. Lined(q, b, r + 1)
        BY <4>1, <4>2, Zenon DEF Lined
      <4> QED
        BY <4>3 DEF r, b
    <3>2. Lined(queue'[ch], block'[ch], read'[ch])
      BY <2>1, <2>2, <2>4, <3>1 DEF q
    <3> QED
      BY <1>b, <2>1, <2>2, <2>4, <3>2 DEF QueueInv
  <2>5. CASE queue' = [queue EXCEPT ![ch] = Append(@, read'[ch])] /\ ~Full(ch)
    <3>1. Lined(p, block[ch], read[ch] + 1)
      BY <2>3, PushKeepsOrder
    <3>2. Len(p) = Len(q) + 1 /\ Len(q) \in Nat
      BY <2>3, AppendFacts
    <3>3. Len(q) <= MAX_BUFFER_DEPTH
      BY <1>a, <2>5, <3>2 DEF Full
    <3>4. Len(p) <= MAX_BUFFER_DEPTH + 1
      BY <1>a, <3>2, <3>3
    <3>5. queue' = [queue EXCEPT ![ch] = p]
      BY <2>2, <2>5
    <3> HIDE DEF p
    <3>6. queue'[ch] = p /\ \A d \in Channels : d # ch => queue'[d] = queue[d]
      BY <1>a, <3>5
    <3> QED
      BY <1>b, <2>1, <2>2, <3>1, <3>4, <3>6 DEF QueueInv
  <2> QED
    BY <2>1, <2>4, <2>5
<1>2. ASSUME NEW ch \in Channels, WaitAndPop(ch) PROVE QueueInv'
  <2> DEFINE q == queue[ch]
             p == Tail(q)
             h == Head(q)
  <2>1. /\ q # <<>> /\ block' = [block EXCEPT ![ch] = h]
        /\ queue' = [queue EXCEPT ![ch] = p] /\ read' = read
    BY <1>2 DEF WaitAndPop, PopFront
  <2>2. /\ q \in Seq(Nat) /\ read[ch] \in Nat /\ block[ch] \in Nat
        /\ Lined(q, block[ch], read[ch]) /\ Len(q) <= MAX_BUFFER_DEPTH + 1
    BY <1>a, <1>b
  <2>3. Lined(p, h, read[ch])
    BY <2>1, <2>2, PopKeepsOrder
  <2>4. Len(p) = Len(q) - 1 /\ Len(q) \in Nat
    BY <2>1, <2>2, TailFacts
  <2>5. Len(p) <= MAX_BUFFER_DEPTH + 1
    BY <1>a, <2>2, <2>4
  <2> HIDE DEF p, h
  <2>6. /\ queue'[ch] = p /\ block'[ch] = h
        /\ \A d \in Channels : d # ch => queue'[d] = queue[d] /\ block'[d] = block[d]
    BY <1>a, <2>1
  <2> QED
    BY <1>b, <2>1, <2>3, <2>5, <2>6 DEF QueueInv
<1>3. ASSUME NEW ch \in Channels, EndBlock(ch) PROVE QueueInv'
  <2>1. queue' = queue /\ read' = read /\ block' = [block EXCEPT ![ch] = 0]
    BY <1>3 DEF EndBlock
  <2>2. block'[ch] = 0 /\ \A d \in Channels : d # ch => block'[d] = block[d]
    BY <1>a, <2>1
  <2>3. Lined(queue[ch], 0, read[ch])
    <3>1. read[ch] \in Nat /\ block[ch] \in Nat /\ Lined(queue[ch], block[ch], read[ch])
      BY <1>a, <1>b
    <3> QED
      BY <3>1 DEF Lined
  <2> QED
    BY <1>b, <2>1, <2>2, <2>3 DEF QueueInv
<1>4. CASE UNCHANGED <<queue, read, block>>
  BY <1>4 DEF QueueInv
<1>5. ASSUME NEW ch \in Channels, DataThread(ch), ~WaitAndPop(ch), ~EndBlock(ch)
      PROVE  UNCHANGED <<queue, read, block>>
  BY <1>5 DEF DataThread, LockParams, BeginSendMsg, EndSendMsg, LockSession, LockWrite,
     WriteSession, boardVars, workVars
<1>6. ASSUME NEW c \in Clients, AddToSet(c) \/ ReadCommand(c) \/ ReadThread(c) \/ Peer(c)
      PROVE  UNCHANGED <<queue, read, block>>
  BY <1>6 DEF AddToSet, ReadCommand, ReadThread, SetParam, LockAnswer, LockWrite,
     ControlReplay, RemoveFromSet, Peer, ConnChanges, boardVars, workVars
<1>7. CASE UNCHANGED vars
  BY <1>4, <1>7 DEF vars, boardVars, workVars
<1> QED
  BY <1>1, <1>2, <1>3, <1>4, <1>5, <1>6, <1>7 DEF Next

\* What a channel's messages lie behind, as long as none of these variables moves.
LEMMA PastStays ==
    ASSUME NEW c \in Clients, NEW ch \in Channels, NEW m \in Nat, Past(c, ch, m),
           read'[ch] = read[ch], queue'[ch] = queue[ch], block'[ch] = block[ch],
           part'[ch] = part[ch], todo'[ch] \subseteq todo[ch]
    PROVE  Past(c, ch, m)'
  BY DEF Past, Base

LEMMA PastStep ==
    ASSUME TypeInv, LockInv, QueueInv, [Next]_vars,
           NEW c \in Clients, NEW ch \in Channels, NEW m \in Nat, Past(c, ch, m)
    PROVE  Past(c, ch, m)'
<1>1. ASSUME NEW d \in Channels, ReadBlock(d) PROVE Past(c, ch, m)'
  <2>1. /\ read' = [read EXCEPT ![d] = @ + 1]
        /\ UNCHANGED <<block, part, todo>>
        /\ \/ queue' = queue
           \/ queue' = [queue EXCEPT ![d] = Append(@, read'[d])]
    BY <1>1 DEF ReadBlock, workVars, sendVars
  <2>2. read \in [Channels -> Nat] /\ queue \in [Channels -> Seq(Nat)]
    BY DEF TypeInv
  <2>3. CASE d # ch
    <3>1. read'[ch] = read[ch] /\ queue'[ch] = queue[ch]
      BY <2>1, <2>2, <2>3
    <3> QED
      BY <2>1, <3>1, PastStays
  <2>4. CASE d = ch
    <3> DEFINE n == read[ch] + 1
    <3>1. n \in Nat \ {0} /\ n + 1 \in Nat \ {0} /\ n < n + 1 /\ FRAMES \in Nat
      <4>1. read[ch] \in Nat
        BY <2>2
      <4>2. FRAMES \in Nat
        BY PipelineAssumption
      <4> QED
        BY <4>1, <4>2
    <3>2. m <= Base(n) /\ Base(n) \in Nat /\ Base(n + 1) \in Nat
          /\ Base(n) + FRAMES <= Base(n + 1)
      BY <3>1, BaseNat, BaseGrows DEF Past
    <3>3. read'[ch] = n
      BY <2>1, <2>2, <2>4
    <3> HIDE DEF n
    <3>4. m <= Base(n + 1)
      BY <3>1, <3>2
    <3>5. \A i \in 1 .. Len(queue'[ch]) : m <= Base(queue'[ch][i])
      <4>1. CASE queue'[ch] = queue[ch]
        BY <4>1 DEF Past
      <4>2. CASE queue'[ch] = Append(queue[ch], n)
        <5>1. /\ Len(queue[ch]) \in Nat
              /\ Len(queue'[ch]) = Len(queue[ch]) + 1
              /\ \A i \in 1 .. Len(queue[ch]) : queue'[ch][i] = queue[ch][i]
              /\ queue'[ch][Len(queue[ch]) + 1] = n
          BY <2>2, <3>1, <4>2, AppendFacts
        <5>2. ASSUME NEW i \in 1 .. Len(queue'[ch]) PROVE m <= Base(queue'[ch][i])
          <6>1. CASE i = Len(queue[ch]) + 1
            BY <3>2, <5>1, <6>1
          <6>2. CASE i \in 1 .. Len(queue[ch])
            BY <5>1, <6>2 DEF Past
          <6> QED
            BY <5>1, <6>1, <6>2
        <5> QED
          BY <5>2
      <4> QED
        BY <2>1, <2>2, <2>4, <3>3, <4>1, <4>2
    <3>6. block'[ch] = block[ch] /\ part'[ch] = part[ch] /\ todo'[ch] = todo[ch]
      BY <2>1
    <3>7. m <= Base(read'[ch] + 1)
      BY <3>3, <3>4
    <3> QED
      BY <3>5, <3>6, <3>7 DEF Past, Base
  <2> QED
    BY <2>3, <2>4
<1>2. ASSUME NEW d \in Channels, WaitAndPop(d) PROVE Past(c, ch, m)'
  <2>1. /\ block[d] = 0 /\ queue[d] # <<>>
        /\ block' = [block EXCEPT ![d] = Head(queue[d])]
        /\ part' = [part EXCEPT ![d] = 0]
        /\ queue' = [queue EXCEPT ![d] = Tail(queue[d])]
        /\ UNCHANGED <<read, todo>>
    BY <1>2 DEF WaitAndPop, PopFront, sendVars
  <2>2. /\ queue \in [Channels -> Seq(Nat)] /\ block \in [Channels -> Nat]
        /\ part \in [Channels -> 0 .. FRAMES]
    BY DEF TypeInv
  <2>3. CASE d # ch
    <3>1. queue'[ch] = queue[ch] /\ block'[ch] = block[ch] /\ part'[ch] = part[ch]
      BY <2>1, <2>2, <2>3
    <3> QED
      BY <2>1, <3>1, PastStays
  <2>4. CASE d = ch
    <3>1. todo'[ch] = {}
      BY <2>1, <2>4 DEF LockInv, SendInv
    <3>2. /\ Len(queue[ch]) \in Nat /\ Len(queue[ch]) >= 1
          /\ Head(queue[ch]) = queue[ch][1]
          /\ Len(Tail(queue[ch])) = Len(queue[ch]) - 1
          /\ \A i \in 1 .. Len(queue[ch]) - 1 : Tail(queue[ch])[i] = queue[ch][i + 1]
      BY <2>1, <2>2, <2>4, TailFacts
    <3>3. queue'[ch] = Tail(queue[ch]) /\ block'[ch] = queue[ch][1] /\ part'[ch] = 0
      BY <2>1, <2>2, <2>4, <3>2
    <3>4. \A i \in 1 .. Len(queue'[ch]) : m <= Base(queue'[ch][i])
      <4> SUFFICES ASSUME NEW i \in 1 .. Len(queue[ch]) - 1
                   PROVE  m <= Base(queue[ch][i + 1])
        BY <3>2, <3>3
      <4>1. i + 1 \in 1 .. Len(queue[ch])
        BY <3>2
      <4> QED
        BY <4>1 DEF Past
    <3>5. m <= Base(block'[ch]) + part'[ch]
      <4>1. queue[ch][1] \in Nat \ {0} /\ m <= Base(queue[ch][1])
        <5>1. 1 \in 1 .. Len(queue[ch])
          BY <3>2
        <5>2. queue[ch][1] \in 1 .. read[ch] /\ read[ch] \in Nat
          BY <5>1 DEF QueueInv, Lined, TypeInv
        <5> QED
          BY <5>1, <5>2 DEF Past
      <4>2. Base(queue[ch][1]) \in Nat
        BY <4>1, BaseNat
      <4>3. Base(queue[ch][1]) + 0 = Base(queue[ch][1])
        BY <4>2
      <4> QED
        BY <3>3, <4>1, <4>3
    <3>6. m <= Base(read'[ch] + 1)
      BY <2>1 DEF Past
    <3> QED
      BY <3>1, <3>4, <3>5, <3>6 DEF Past, Base
  <2> QED
    BY <2>3, <2>4
<1>3. ASSUME NEW d \in Channels, EndBlock(d) PROVE Past(c, ch, m)'
  <2>1. block' = [block EXCEPT ![d] = 0] /\ UNCHANGED <<read, queue, part, todo>>
    BY <1>3 DEF EndBlock, sendVars
  <2>2. block \in [Channels -> Nat]
    BY DEF TypeInv
  <2>3. CASE d # ch
    BY <2>1, <2>2, <2>3, PastStays
  <2>4. CASE d = ch
    <3>1. block'[ch] = 0
      BY <2>1, <2>2, <2>4
    <3> QED
      BY <2>1, <3>1 DEF Past, Base
  <2> QED
    BY <2>3, <2>4
<1>4. ASSUME NEW d \in Channels, BeginSendMsg(d) PROVE Past(c, ch, m)'
  <2>1. /\ block[d] # 0
        /\ part' = [part EXCEPT ![d] = @ + 1]
        /\ todo' = [todo EXCEPT ![d] = SessionSet]
        /\ UNCHANGED <<read, queue, block>>
    BY <1>4 DEF BeginSendMsg, boardVars
  <2>2. /\ part \in [Channels -> 0 .. FRAMES] /\ block \in [Channels -> Nat]
        /\ todo \in [Channels -> SUBSET Clients]
    BY DEF TypeInv
  <2>3. CASE d # ch
    <3>1. part'[ch] = part[ch] /\ todo'[ch] = todo[ch]
      BY <2>1, <2>2, <2>3
    <3> QED
      BY <2>1, <3>1, PastStays
  <2>4. CASE d = ch
    <3>1. part'[ch] = part[ch] + 1 /\ part[ch] \in Nat /\ block[ch] \in Nat \ {0}
      BY <2>1, <2>2, <2>4
    <3>2. m <= Base(block[ch]) + part[ch]
      BY <3>1 DEF Past
    <3>3. Base(block[ch]) \in Nat
      BY <3>1, BaseNat
    <3>4. m < Base(block[ch]) + part'[ch]
      BY <3>1, <3>2, <3>3
    <3>5. block'[ch] = block[ch]
      BY <2>1
    <3>6. m < Base(block'[ch]) + part'[ch] /\ m <= Base(block'[ch]) + part'[ch]
      BY <3>1, <3>3, <3>4, <3>5
    <3> QED
      BY <2>1, <3>6 DEF Past, Base
  <2> QED
    BY <2>3, <2>4
<1>5. ASSUME NEW d \in Channels, NEW e \in Clients, WriteSession(d, e)
      PROVE  Past(c, ch, m)'
  <2>1. todo' = [todo EXCEPT ![d] = @ \ {e}] /\ UNCHANGED <<read, queue, block, part>>
    BY <1>5 DEF WriteSession, boardVars, workVars
  <2>2. todo'[ch] \subseteq todo[ch]
    BY <2>1 DEF TypeInv
  <2> QED
    BY <2>1, <2>2, PastStays
<1>6. CASE UNCHANGED <<read, queue, block, part, todo>>
  BY <1>6, PastStays
<1>7. ASSUME NEW d \in Channels, DataThread(d), ~WaitAndPop(d), ~EndBlock(d),
             ~BeginSendMsg(d), \A e \in Clients : ~WriteSession(d, e)
      PROVE  UNCHANGED <<read, queue, block, part, todo>>
  BY <1>7 DEF DataThread, LockParams, EndSendMsg, LockSession, LockWrite, boardVars,
     workVars, sendVars
<1>8. ASSUME NEW d \in Clients, AddToSet(d) \/ ReadCommand(d) \/ ReadThread(d) \/ Peer(d)
      PROVE  UNCHANGED <<read, queue, block, part, todo>>
  BY <1>8 DEF AddToSet, ReadCommand, ReadThread, SetParam, LockAnswer, LockWrite,
     ControlReplay, RemoveFromSet, Peer, ConnChanges, boardVars, workVars, sendVars
<1>9. CASE UNCHANGED vars
  BY <1>6, <1>9 DEF vars, boardVars, workVars, sendVars
<1> QED
  BY <1>1, <1>2, <1>3, <1>4, <1>5, <1>6, <1>7, <1>8, <1>9 DEF Next

Message(ch) == Base(block[ch]) + part[ch]

\* Only a data thread that writes to a session adds a message, the current one.
LEMMA ReceivedNext ==
    ASSUME TypeInv, [Next]_vars
    PROVE  \/ received' = received
           \/ \E ch \in Channels, c \in Clients :
                /\ WriteSession(ch, c)
                /\ received' = [received EXCEPT ![<<c, ch>>] = Append(@, Message(ch))]
<1>1. ASSUME NEW ch \in Channels, NEW c \in Clients, WriteSession(ch, c)
      PROVE  \/ received' = received
             \/ received' = [received EXCEPT ![<<c, ch>>] = Append(@, Message(ch))]
  BY <1>1 DEF WriteSession, Message, Base
<1>2. ASSUME NEW ch \in Channels, ReadBlock(ch) PROVE received' = received
  BY <1>2 DEF ReadBlock
<1>3. ASSUME NEW ch \in Channels, DataThread(ch), \A c \in Clients : ~WriteSession(ch, c)
      PROVE  received' = received
  BY <1>3 DEF DataThread, WaitAndPop, LockParams, EndBlock, BeginSendMsg, EndSendMsg,
     LockSession, LockWrite
<1>4. ASSUME NEW c \in Clients, AddToSet(c) \/ ReadCommand(c) \/ ReadThread(c) \/ Peer(c)
      PROVE  received' = received
  BY <1>4 DEF AddToSet, ReadCommand, ReadThread, SetParam, LockAnswer, LockWrite,
     ControlReplay, RemoveFromSet, Peer, ConnChanges
<1>5. CASE UNCHANGED vars
  BY <1>5 DEF vars
<1> QED
  BY <1>1, <1>2, <1>3, <1>4, <1>5 DEF Next

\* The message written next is new to the client, and its block was read.
LEMMA MessageIsNew ==
    ASSUME TypeInv, LockInv, QueueInv, ReceivedInv,
           NEW ch \in Channels, NEW c \in Clients, WriteSession(ch, c)
    PROVE  /\ Message(ch) \in 1 .. FRAMES * read[ch]
           /\ \A i \in 1 .. Len(received[<<c, ch>>]) : received[<<c, ch>>][i] < Message(ch)
           /\ Past(c, ch, Message(ch))'
<1> USE PipelineAssumption
<1>1. /\ c \in todo[ch] /\ SessionSetMutex = ch /\ block[ch] # 0 /\ part[ch] # 0
  BY DEF WriteSession, LockInv, SendInv, ClientInv
<1>2. /\ block[ch] \in Nat \ {0} /\ read[ch] \in Nat \ {0} /\ block[ch] <= read[ch]
      /\ part[ch] \in 1 .. FRAMES /\ FRAMES \in Nat
  BY <1>1 DEF TypeInv, QueueInv, Lined
<1>3. Base(block[ch]) \in Nat /\ Base(read[ch]) \in Nat
      /\ Base(read[ch]) + FRAMES = FRAMES * read[ch]
  BY <1>2, BaseNat
<1>4. Base(block[ch]) <= Base(read[ch])
  <2>1. CASE block[ch] = read[ch]
    BY <1>3, <2>1
  <2>2. CASE block[ch] < read[ch]
    BY <1>2, <1>3, <2>2, BaseGrows
  <2> QED
    BY <1>2, <2>1, <2>2
<1>5. Message(ch) \in 1 .. FRAMES * read[ch]
  BY <1>2, <1>3, <1>4 DEF Message
<1>6. \A i \in 1 .. Len(received[<<c, ch>>]) : received[<<c, ch>>][i] < Message(ch)
  BY <1>1 DEF ReceivedInv, Past, Message
<1>7. /\ UNCHANGED <<read, queue, block, part>> /\ todo'[ch] = todo[ch] \ {c}
  BY DEF WriteSession, boardVars, workVars, TypeInv
<1>8. Message(ch) <= Base(read[ch] + 1)
  <2>1. read[ch] + 1 \in Nat \ {0} /\ read[ch] < read[ch] + 1
    BY <1>2
  <2>2. Base(read[ch]) + FRAMES <= Base(read[ch] + 1) /\ Base(read[ch] + 1) \in Nat
    BY <1>2, <2>1, BaseGrows, BaseNat
  <2> QED
    BY <1>2, <1>3, <1>4, <2>2 DEF Message
<1>9. \A i \in 1 .. Len(queue[ch]) : Message(ch) <= Base(queue[ch][i])
  <2> SUFFICES ASSUME NEW i \in 1 .. Len(queue[ch])
               PROVE  Message(ch) <= Base(queue[ch][i])
    OBVIOUS
  <2>1. queue[ch][i] \in Nat \ {0} /\ block[ch] < queue[ch][i]
    BY <1>2 DEF QueueInv, Lined
  <2>2. Base(block[ch]) + FRAMES <= Base(queue[ch][i]) /\ Base(queue[ch][i]) \in Nat
    BY <1>2, <2>1, BaseGrows, BaseNat
  <2> QED
    BY <1>2, <1>3, <2>2 DEF Message
<1>10. Message(ch)' = Message(ch) /\ Message(ch) \in Nat
  BY <1>2, <1>3, <1>7 DEF Message, Base
<1>11. Past(c, ch, Message(ch))'
  <2>1. c \notin todo'[ch] /\ Message(ch) <= Base(block[ch]) + part[ch]
    BY <1>7, <1>10 DEF Message
  <2> QED
    BY <1>7, <1>8, <1>9, <1>10, <2>1 DEF Past, Base
<1> QED
  BY <1>5, <1>6, <1>11

LEMMA ReceivedStep ==
    ASSUME TypeInv, LockInv, QueueInv, ReceivedInv, [Next]_vars
    PROVE  ReceivedInv'
<1> SUFFICES ASSUME NEW c \in Clients, NEW ch \in Channels,
                    NEW i \in 1 .. Len(received'[<<c, ch>>])
             PROVE  Past(c, ch, received[<<c, ch>>][i])'
  BY DEF ReceivedInv
<1>1. <<c, ch>> \in Ends /\ received \in [Ends -> Seq(Nat)]
  BY DEF TypeInv, Ends
<1> DEFINE old == received[<<c, ch>>]
<1>2. old \in Seq(Nat) /\ Len(old) \in Nat
  BY <1>1
<1>3. ASSUME i \in 1 .. Len(old), received'[<<c, ch>>][i] = old[i]
      PROVE  Past(c, ch, received[<<c, ch>>][i])'
  <2>1. PICK m \in Nat : m = old[i]
    BY <1>2, <1>3
  <2>2. Past(c, ch, m)
    BY <1>3, <2>1 DEF ReceivedInv
  <2>3. Past(c, ch, m)'
    BY <2>2, PastStep
  <2> QED
    BY <1>3, <2>1, <2>3 DEF Past, Base
<1>4. CASE received'[<<c, ch>>] = old
  BY <1>3, <1>4
<1>5. ASSUME WriteSession(ch, c), received'[<<c, ch>>] = Append(old, Message(ch))
      PROVE  Past(c, ch, received[<<c, ch>>][i])'
  <2>1. PICK n \in Nat : n = Message(ch)
    <3>1. read[ch] \in Nat /\ FRAMES \in Nat
      BY PipelineAssumption DEF TypeInv
    <3>2. FRAMES * read[ch] \in Nat
      BY <3>1
    <3> QED
      BY <1>5, <3>2, MessageIsNew
  <2> HIDE DEF old
  <2>2. /\ Len(received'[<<c, ch>>]) = Len(old) + 1
        /\ \A k \in 1 .. Len(old) : received'[<<c, ch>>][k] = old[k]
        /\ received'[<<c, ch>>][Len(old) + 1] = n
    BY <1>2, <1>5, <2>1, AppendFacts
  <2>3. CASE i \in 1 .. Len(old)
    BY <1>3, <2>2, <2>3
  <2>4. CASE i = Len(old) + 1
    <3>1. received'[<<c, ch>>][i] = n
      BY <2>2, <2>4
    <3>2. Message(ch)' = Message(ch)
      BY <1>5 DEF WriteSession, workVars, Message, Base
    <3>3. Past(c, ch, Message(ch))'
      BY <1>5, MessageIsNew
    <3> QED
      BY <2>1, <3>1, <3>2, <3>3 DEF Past, Base
  <2> QED
    BY <1>2, <2>2, <2>3, <2>4
<1>6. CASE received' = received
  BY <1>4, <1>6
<1>7. ASSUME NEW d \in Channels, NEW e \in Clients, WriteSession(d, e),
             received' = [received EXCEPT ![<<e, d>>] = Append(@, Message(d))]
      PROVE  Past(c, ch, received[<<c, ch>>][i])'
  <2>1. CASE d = ch /\ e = c
    BY <1>1, <1>5, <1>7, <2>1
  <2>2. CASE ~(d = ch /\ e = c)
    <3>1. <<e, d>> # <<c, ch>>
      BY <2>2
    <3>2. received'[<<c, ch>>] = old
      BY <1>1, <1>7, <3>1
    <3> QED
      BY <1>4, <3>2
  <2> QED
    BY <2>1, <2>2
<1> QED
  BY <1>6, <1>7, ReceivedNext

-----------------------------------------------------------------------------
(***************************************************************************)
(* What is lost.  A block that was read and is neither finished nor at     *)
(* work nor in the queue met a full queue (GapOK); of the others, a        *)
(* client on the line has every message since its first one, up to the     *)
(* one that is being sent (ServedOK).                                      *)
(***************************************************************************)
Waits(ch, b) == \E i \in 1 .. Len(queue[ch]) : queue[ch][i] = b

GapOK(ch) ==
    \A b \in 1 .. read[ch] : b <= Finished(ch) \/ b = block[ch] \/ Waits(ch, b) \/ b \in lost[ch]

\* Message k of block b is out, as far as client c is concerned.
Out(c, ch, b, k) ==
    \/ b <= Finished(ch)
    \/ /\ b = block[ch]
       /\ k <= part[ch]
       /\ k = part[ch] => c \notin todo[ch]

Served(c, ch, b, k) ==
    LET got == received[<<c, ch>>] IN
    \/ Base(b) + k < got[1]
    \/ \E i \in 1 .. Len(got) : got[i] = Base(b) + k
    \/ b \in lost[ch]

Listens(c, ch) == conn[c] \in {"on", "stalled"} /\ received[<<c, ch>>] # <<>>

ServedOK(c, ch) ==
    Listens(c, ch) =>
        \A b \in 1 .. read[ch], k \in 1 .. FRAMES : Out(c, ch, b, k) => Served(c, ch, b, k)

AwayOK(c, ch) == conn[c] = "away" => received[<<c, ch>>] = <<>>

LossInv ==
    /\ lost \in [Channels -> SUBSET Nat]
    /\ \A ch \in Channels : GapOK(ch)
    /\ \A c \in Clients, ch \in Channels : ServedOK(c, ch) /\ AwayOK(c, ch)

LEMMA LossInit == Init => LossInv
<1> SUFFICES ASSUME Init PROVE LossInv
  OBVIOUS
<1>1. /\ \A ch \in Channels : read[ch] = 0
      /\ lost \in [Channels -> SUBSET Nat]
      /\ \A c \in Clients, ch \in Channels : received[<<c, ch>>] = <<>>
  BY DEF Init, Ends
<1>2. ASSUME NEW ch \in Channels PROVE GapOK(ch)
  BY <1>1 DEF GapOK
<1>3. ASSUME NEW c \in Clients, NEW ch \in Channels PROVE ServedOK(c, ch) /\ AwayOK(c, ch)
  BY <1>1 DEF ServedOK, Listens, AwayOK
<1> QED
  BY <1>1, <1>2, <1>3 DEF LossInv

\* How far the finished blocks reach.
LEMMA FinishedFacts ==
    ASSUME TypeInv, QueueInv, NEW ch \in Channels
    PROVE  /\ Finished(ch) \in 0 .. read[ch]
           /\ block[ch] # 0 => Finished(ch) = block[ch] - 1
           /\ block[ch] = 0 /\ queue[ch] # <<>> => Finished(ch) = queue[ch][1] - 1
           /\ block[ch] = 0 /\ queue[ch] = <<>> => Finished(ch) = read[ch]
<1>1. /\ read[ch] \in Nat /\ block[ch] \in Nat /\ queue[ch] \in Seq(Nat)
      /\ Lined(queue[ch], block[ch], read[ch])
  BY DEF TypeInv, QueueInv
<1>2. CASE block[ch] # 0
  <2>1. Finished(ch) = block[ch] - 1
    BY <1>2 DEF Finished
  <2> QED
    BY <1>1, <1>2, <2>1 DEF Lined
<1>3. CASE block[ch] = 0 /\ queue[ch] # <<>>
  <2>1. Len(queue[ch]) >= 1 /\ Len(queue[ch]) \in Nat /\ Head(queue[ch]) = queue[ch][1]
    BY <1>1, <1>3, TailFacts
  <2>2. queue[ch][1] \in 1 .. read[ch]
    BY <1>1, <2>1 DEF Lined
  <2>3. Finished(ch) = queue[ch][1] - 1
    BY <1>3, <2>1 DEF Finished
  <2> QED
    BY <1>1, <1>3, <2>2, <2>3
<1>4. CASE block[ch] = 0 /\ queue[ch] = <<>>
  <2>1. Finished(ch) = read[ch]
    BY <1>4 DEF Finished
  <2> QED
    BY <1>1, <1>4, <2>1
<1> QED
  BY <1>2, <1>3, <1>4

\* A channel whose variables do not move.
LEMMA GapStays ==
    ASSUME NEW ch \in Channels, GapOK(ch), read'[ch] = read[ch], queue'[ch] = queue[ch],
           block'[ch] = block[ch], lost'[ch] = lost[ch]
    PROVE  GapOK(ch)'
<1>1. Finished(ch)' = Finished(ch)
  BY DEF Finished
<1> QED
  BY <1>1 DEF GapOK, Waits

LEMMA ServedStays ==
    ASSUME NEW c \in Clients, NEW ch \in Channels, ServedOK(c, ch),
           Listens(c, ch)' => Listens(c, ch),
           read'[ch] = read[ch], lost'[ch] = lost[ch],
           received'[<<c, ch>>] = received[<<c, ch>>],
           \A b \in 1 .. read[ch], k \in 1 .. FRAMES : Out(c, ch, b, k)' => Out(c, ch, b, k)
    PROVE  ServedOK(c, ch)'
<1>1. \A b, k : Served(c, ch, b, k)' <=> Served(c, ch, b, k)
  BY DEF Served, Base
<1> QED
  BY <1>1 DEF ServedOK

LEMMA OutStays ==
    ASSUME NEW c \in Clients, NEW ch \in Channels, read'[ch] = read[ch],
           queue'[ch] = queue[ch], block'[ch] = block[ch], part'[ch] = part[ch],
           c \in todo'[ch] <=> c \in todo[ch], NEW b, NEW k
    PROVE  Out(c, ch, b, k)' <=> Out(c, ch, b, k)
<1>1. Finished(ch)' = Finished(ch)
  BY DEF Finished
<1> QED
  BY <1>1 DEF Out

\* A block more was read, and is in the queue or lost.
LEMMA LossReadBlock ==
    ASSUME TypeInv, QueueInv, LossInv, NEW ch \in Channels, ReadBlock(ch)
    PROVE  /\ lost' \in [Channels -> SUBSET Nat] /\ GapOK(ch)'
           /\ Finished(ch)' = Finished(ch)
           /\ lost[ch] \subseteq lost'[ch]
           /\ read'[ch] = read[ch] + 1
           /\ \A d \in Channels : d # ch => /\ read'[d] = read[d] /\ queue'[d] = queue[d]
                                            /\ lost'[d] = lost[d]
           /\ UNCHANGED <<block, part, todo, received, conn>>
<1> DEFINE q == queue[ch]
<1>1. /\ read' = [read EXCEPT ![ch] = @ + 1]
      /\ UNCHANGED <<block, part, todo, received, conn>>
      /\ \/ Full(ch) /\ queue' = queue /\ lost' = [lost EXCEPT ![ch] = @ \cup {read'[ch]}]
         \/ ~Full(ch) /\ queue' = [queue EXCEPT ![ch] = Append(@, read'[ch])] /\ lost' = lost
  BY DEF ReadBlock, workVars, sendVars, clientVars
<1>2. /\ read \in [Channels -> Nat] /\ queue \in [Channels -> Seq(Nat)] /\ read[ch] \in Nat
      /\ lost \in [Channels -> SUBSET Nat] /\ q \in Seq(Nat)
  BY DEF TypeInv, LossInv
<1>0. PICK n \in Nat : n = read[ch] + 1
  BY <1>2
<1>3. read'[ch] = n /\ n \in 1 .. n
  BY <1>0, <1>1, <1>2
<1>4. \A b \in 1 .. n : b = n \/ b \in 1 .. read[ch]
  BY <1>0, <1>2
<1>5. \A d \in Channels : d # ch => /\ read'[d] = read[d] /\ queue'[d] = queue[d]
                                    /\ lost'[d] = lost[d]
  BY <1>1, <1>2
<1>6. GapOK(ch)
  BY DEF LossInv
<1>7. CASE Full(ch) /\ queue' = queue /\ lost' = [lost EXCEPT ![ch] = @ \cup {n}]
  <2>1. lost'[ch] = lost[ch] \cup {n} /\ lost' \in [Channels -> SUBSET Nat]
    BY <1>2, <1>3, <1>7
  <2>2. queue'[ch] # <<>> /\ queue'[ch] = q
    <3>1. Len(q) > MAX_BUFFER_DEPTH /\ MAX_BUFFER_DEPTH \in Nat /\ Len(q) \in Nat
      BY <1>2, <1>7, PipelineAssumption DEF Full
    <3>2. Len(q) > 0
      BY <3>1
    <3> QED
      BY <1>7, <3>2
  <2>3. Finished(ch)' = Finished(ch)
    BY <1>1, <2>2 DEF Finished
  <2>4. GapOK(ch)'
    BY <1>1, <1>3, <1>4, <1>6, <2>1, <2>2, <2>3 DEF GapOK, Waits
  <2> QED
    BY <1>0, <1>1, <1>3, <1>5, <2>1, <2>3, <2>4
<1>8. CASE queue' = [queue EXCEPT ![ch] = Append(@, n)] /\ lost' = lost
  <2>1. queue'[ch] = Append(q, n)
    BY <1>2, <1>8
  <2>2. /\ Len(q) \in Nat /\ Len(queue'[ch]) = Len(q) + 1
        /\ \A i \in 1 .. Len(q) : queue'[ch][i] = q[i]
        /\ queue'[ch][Len(q) + 1] = n
    BY <1>2, <1>3, <2>1, AppendFacts
  <2>3. /\ \A i \in 1 .. Len(q) : i \in 1 .. Len(queue'[ch])
        /\ Len(q) + 1 \in 1 .. Len(queue'[ch])
    BY <2>2
  <2>4. Waits(ch, n)' /\ \A b \in 1 .. read[ch] : Waits(ch, b) => Waits(ch, b)'
    <3>1. Waits(ch, n)'
      BY <2>2, <2>3 DEF Waits
    <3>2. ASSUME NEW b \in 1 .. read[ch], Waits(ch, b) PROVE Waits(ch, b)'
      BY <2>2, <2>3, <3>2 DEF Waits
    <3> QED
      BY <3>1, <3>2
  <2>5. queue'[ch] # <<>> /\ Head(queue'[ch]) = (IF q = <<>> THEN n ELSE Head(q))
    <3>1. CASE q = <<>>
      BY <1>2, <1>3, <2>1, <3>1
    <3>2. CASE q # <<>>
      BY <1>2, <1>3, <2>1, <3>2
    <3> QED
      BY <3>1, <3>2
  <2>6. n - 1 = read[ch]
    BY <1>0, <1>2
  <2>7. Finished(ch)' = Finished(ch)
    <3>1. CASE q = <<>>
      BY <1>1, <2>5, <2>6, <3>1 DEF Finished
    <3>2. CASE q # <<>>
      BY <1>1, <2>5, <3>2 DEF Finished
    <3> QED
      BY <3>1, <3>2
  <2>8. GapOK(ch)'
    BY <1>1, <1>3, <1>4, <1>6, <1>8, <2>4, <2>7 DEF GapOK
  <2> QED
    BY <1>0, <1>1, <1>2, <1>3, <1>5, <1>8, <2>7, <2>8
<1> QED
  BY <1>1, <1>3, <1>7, <1>8

\* The first of the queue is taken to work: what is finished does not change.
LEMMA LossPop ==
    ASSUME TypeInv, QueueInv, LossInv, NEW ch \in Channels, WaitAndPop(ch)
    PROVE  /\ GapOK(ch)'
           /\ Finished(ch)' = Finished(ch)
           /\ block'[ch] \in Nat \ {0} /\ part'[ch] = 0
           /\ \A d \in Channels : d # ch => /\ block'[d] = block[d] /\ queue'[d] = queue[d]
                                            /\ part'[d] = part[d]
           /\ UNCHANGED <<read, todo, received, conn, lost>>
<1> DEFINE q == queue[ch]
<1>1. /\ block[ch] = 0 /\ q # <<>>
      /\ block' = [block EXCEPT ![ch] = Head(q)]
      /\ part' = [part EXCEPT ![ch] = 0]
      /\ queue' = [queue EXCEPT ![ch] = Tail(q)]
      /\ UNCHANGED <<read, todo, received, conn, lost>>
  BY DEF WaitAndPop, PopFront, sendVars, clientVars
<1>2. /\ queue \in [Channels -> Seq(Nat)] /\ block \in [Channels -> Nat]
      /\ part \in [Channels -> 0 .. FRAMES] /\ q \in Seq(Nat) /\ read[ch] \in Nat
      /\ Lined(q, block[ch], read[ch])
  BY DEF TypeInv, QueueInv
<1>3. /\ Len(q) \in Nat /\ Len(q) >= 1
      /\ Head(q) = q[1]
      /\ Len(Tail(q)) = Len(q) - 1
      /\ \A i \in 1 .. Len(q) - 1 : Tail(q)[i] = q[i + 1]
  BY <1>1, <1>2, TailFacts
<1>4. q[1] \in 1 .. read[ch]
  BY <1>2, <1>3 DEF Lined
<1>5. block'[ch] = q[1] /\ part'[ch] = 0 /\ queue'[ch] = Tail(q) /\ block'[ch] \in Nat \ {0}
  BY <1>1, <1>2, <1>3, <1>4
<1>6. \A d \in Channels : d # ch => /\ block'[d] = block[d] /\ queue'[d] = queue[d]
                                    /\ part'[d] = part[d]
  BY <1>1, <1>2
<1>7. Finished(ch)' = Finished(ch)
  <2>1. Finished(ch)' = q[1] - 1
    BY <1>5 DEF Finished
  <2>2. Finished(ch) = q[1] - 1
    BY <1>1, <1>3 DEF Finished
  <2> QED
    BY <2>1, <2>2
<1>8. ASSUME NEW b, Waits(ch, b) PROVE b = block'[ch] \/ Waits(ch, b)'
  <2>1. PICK i \in 1 .. Len(q) : q[i] = b
    BY <1>8 DEF Waits
  <2>2. CASE i = 1
    BY <1>5, <2>1, <2>2
  <2>3. CASE i # 1
    <3>1. i - 1 \in 1 .. Len(q) - 1 /\ (i - 1) + 1 = i
      BY <1>3, <2>3
    <3>2. queue'[ch][i - 1] = b /\ i - 1 \in 1 .. Len(queue'[ch])
      BY <1>3, <1>5, <2>1, <3>1
    <3> QED
      BY <3>2 DEF Waits
  <2> QED
    BY <2>2, <2>3
<1>9. GapOK(ch)'
  <2>1. GapOK(ch) /\ \A b \in 1 .. read[ch] : b # block[ch]
    BY <1>1 DEF LossInv
  <2> QED
    BY <1>1, <1>7, <1>8, <2>1 DEF GapOK
<1> QED
  BY <1>1, <1>5, <1>6, <1>7, <1>9

\* The block at work is finished, and with it those behind it that met a full queue.
LEMMA LossEndBlock ==
    ASSUME TypeInv, LockInv, QueueInv, LossInv, NEW ch \in Channels, EndBlock(ch)
    PROVE  /\ lost' \in [Channels -> SUBSET Nat] /\ GapOK(ch)'
           /\ \A c \in Clients : \A b \in 1 .. read[ch], k \in 1 .. FRAMES :
                Out(c, ch, b, k)' => Out(c, ch, b, k) \/ b \in lost'[ch]
           /\ lost[ch] \subseteq lost'[ch]
           /\ \A d \in Channels : d # ch => block'[d] = block[d] /\ lost'[d] = lost[d]
           /\ UNCHANGED <<read, queue, part, todo, received, conn>>
<1> DEFINE q == queue[ch]
<1>1. /\ block[ch] # 0 /\ SessionSetMutex # ch /\ part[ch] \in {0, FRAMES}
      /\ lost' = IF part[ch] = 0 THEN [lost EXCEPT ![ch] = @ \cup {block[ch]}] ELSE lost
      /\ block' = [block EXCEPT ![ch] = 0]
      /\ UNCHANGED <<read, queue, part, todo, received, conn>>
  BY DEF EndBlock, sendVars, clientVars
<1>2. /\ block \in [Channels -> Nat] /\ lost \in [Channels -> SUBSET Nat] /\ q \in Seq(Nat)
      /\ read[ch] \in Nat /\ block[ch] \in Nat \ {0} /\ Lined(q, block[ch], read[ch])
      /\ FRAMES \in Nat \ {0}
  BY <1>1, PipelineAssumption DEF TypeInv, QueueInv, LossInv
<1>3. todo[ch] = {}
  BY <1>1 DEF LockInv, SendInv
<1>4. block'[ch] = 0 /\ \A d \in Channels : d # ch => block'[d] = block[d]
  BY <1>1, <1>2
<1>5. /\ lost' \in [Channels -> SUBSET Nat] /\ lost[ch] \subseteq lost'[ch]
      /\ \A d \in Channels : d # ch => lost'[d] = lost[d]
      /\ part[ch] = 0 => block[ch] \in lost'[ch]
  BY <1>1, <1>2
<1>6. Finished(ch) = block[ch] - 1
  BY <1>1 DEF Finished
\* A block beyond the one that ended, and not beyond the next in the queue, is lost.
<1>7. ASSUME NEW b \in 1 .. read[ch], b <= Finished(ch)' PROVE ~Waits(ch, b)
  <2>1. CASE q = <<>>
    BY <1>2, <2>1 DEF Waits
  <2>2. CASE q # <<>>
    <3>1. Finished(ch)' = q[1] - 1 /\ Len(q) >= 1 /\ Len(q) \in Nat
      <4>1. Finished(ch)' = Head(q) - 1
        BY <1>1, <1>4, <2>2 DEF Finished
      <4> QED
        BY <1>2, <2>2, <4>1, TailFacts
    <3>2. \A i \in 1 .. Len(q) : q[i] \in 1 .. read[ch] /\ q[1] <= q[i] /\ q[1] \in 1 .. read[ch]
      <4>1. 1 \in 1 .. Len(q) /\ \A i \in 1 .. Len(q) : i = 1 \/ 1 < i
        BY <3>1
      <4>2. /\ \A i \in 1 .. Len(q) : q[i] \in 1 .. read[ch]
            /\ \A i, j \in 1 .. Len(q) : i < j => q[i] < q[j]
        BY <1>2 DEF Lined
      <4>3. ASSUME NEW i \in 1 .. Len(q) PROVE q[1] <= q[i]
        <5>1. CASE i = 1
          BY <1>2, <4>1, <4>2, <5>1
        <5>2. CASE 1 < i
          BY <1>2, <4>1, <4>2, <5>2
        <5> QED
          BY <4>1, <5>1, <5>2
      <4> QED
        BY <4>1, <4>2, <4>3
    <3>3. ASSUME NEW i \in 1 .. Len(q), q[i] = b PROVE FALSE
      <4>1. q[i] \in Nat /\ q[1] \in Nat /\ q[1] <= q[i] /\ b <= q[1] - 1
        BY <1>7, <3>1, <3>2
      <4> QED
        BY <3>3, <4>1
    <3> QED
      BY <3>3 DEF Waits
  <2> QED
    BY <2>1, <2>2
<1>8. ASSUME NEW c \in Clients, NEW b \in 1 .. read[ch], NEW k \in 1 .. FRAMES, Out(c, ch, b, k)'
      PROVE  Out(c, ch, b, k) \/ b \in lost'[ch]
  <2>1. b <= Finished(ch)'
    BY <1>4, <1>8 DEF Out
  <2>2. CASE b <= Finished(ch)
    BY <2>2 DEF Out
  <2>3. CASE b = block[ch]
    <3>1. CASE part[ch] = 0
      BY <1>5, <2>3, <3>1
    <3>2. CASE part[ch] = FRAMES
      BY <1>2, <1>3, <2>3, <3>2 DEF Out
    <3> QED
      BY <1>1, <3>1, <3>2
  <2>4. CASE ~(b <= Finished(ch)) /\ b # block[ch]
    <3>1. b \in lost[ch]
      BY <1>7, <2>1, <2>4 DEF LossInv, GapOK
    <3> QED
      BY <1>5, <3>1
  <2> QED
    BY <2>2, <2>3, <2>4
<1>9. GapOK(ch)'
  <2> SUFFICES ASSUME NEW b \in 1 .. read[ch]
               PROVE  b <= Finished(ch)' \/ Waits(ch, b)' \/ b \in lost'[ch]
    BY <1>1 DEF GapOK
  <2>1. Waits(ch, b)' <=> Waits(ch, b)
    BY <1>1 DEF Waits
  <2>2. CASE b <= block[ch]
    <3>1. block[ch] <= Finished(ch)'
      <4>1. CASE q = <<>>
        <5>1. Finished(ch)' = read[ch]
          BY <1>1, <1>4, <4>1 DEF Finished
        <5> QED
          BY <1>2, <5>1 DEF Lined
      <4>2. CASE q # <<>>
        <5>1. Finished(ch)' = Head(q) - 1
          BY <1>1, <1>4, <4>2 DEF Finished
        <5>2. Head(q) = q[1] /\ 1 \in 1 .. Len(q)
          BY <1>2, <4>2, TailFacts
        <5>3. q[1] \in 1 .. read[ch] /\ block[ch] < q[1]
          BY <1>2, <5>2 DEF Lined
        <5> QED
          BY <1>2, <5>1, <5>2, <5>3
      <4> QED
        BY <4>1, <4>2
    <3>2. Finished(ch)' \in Nat
      <4>1. CASE q = <<>>
        BY <1>1, <1>2, <1>4, <4>1 DEF Finished
      <4>2. CASE q # <<>>
        <5>1. Finished(ch)' = Head(q) - 1
          BY <1>1, <1>4, <4>2 DEF Finished
        <5>2. Head(q) = q[1] /\ 1 \in 1 .. Len(q)
          BY <1>2, <4>2, TailFacts
        <5>3. q[1] \in 1 .. read[ch]
          BY <1>2, <5>2 DEF Lined
        <5> QED
          BY <1>2, <5>1, <5>2, <5>3
      <4> QED
        BY <4>1, <4>2
    <3> QED
      BY <1>2, <2>2, <3>1, <3>2
  <2>3. CASE ~(b <= block[ch])
    <3>1. Waits(ch, b) \/ b \in lost[ch]
      BY <1>2, <1>6, <2>3 DEF LossInv, GapOK
    <3> QED
      BY <1>5, <2>1, <3>1
  <2> QED
    BY <2>2, <2>3
<1> QED
  BY <1>1, <1>4, <1>5, <1>8, <1>9

\* A message reaches a client: it has what is out, and that message.
LEMMA LossWrite ==
    ASSUME TypeInv, LockInv, QueueInv, LossInv, NEW ch \in Channels, NEW e \in Clients,
           WriteSession(ch, e), NEW c \in Clients, NEW d \in Channels
    PROVE  ServedOK(c, d)' /\ AwayOK(c, d)'
<1> USE PipelineAssumption
<1>1. /\ UNCHANGED <<read, queue, block, part, lost, conn>>
      /\ todo' = [todo EXCEPT ![ch] = @ \ {e}]
      /\ received' = IF conn[e] = "on"
                     THEN [received EXCEPT ![<<e, ch>>] = Append(@, Message(ch))]
                     ELSE received
      /\ conn[e] # "stalled" /\ WriteLock[e] = ch
  BY DEF WriteSession, boardVars, workVars, clientVars, Message, Base
<1>2. /\ todo \in [Channels -> SUBSET Clients] /\ received \in [Ends -> Seq(Nat)]
      /\ <<c, d>> \in Ends /\ <<e, ch>> \in Ends
  BY DEF TypeInv, Ends
<1>3. /\ e \in todo[ch] /\ conn[e] # "away" /\ block[ch] # 0 /\ part[ch] # 0
  <2>1. e \in todo[ch] /\ SessionSetMutex = ch /\ e \in SessionSet
    BY <1>1 DEF LockInv, SendInv, ClientInv
  <2> QED
    BY <2>1 DEF LockInv, SendInv, ClientInv
<1>4. ServedOK(c, d) /\ AwayOK(c, d)
  BY DEF LossInv
<1>5. CASE ~(c = e /\ d = ch)
  <2>1. received'[<<c, d>>] = received[<<c, d>>]
    BY <1>1, <1>2, <1>5
  <2>2. c \in todo'[d] <=> c \in todo[d]
    BY <1>1, <1>2, <1>5
  <2>3. Listens(c, d)' <=> Listens(c, d)
    BY <1>1, <2>1 DEF Listens
  <2>4. \A b, k : Out(c, d, b, k)' <=> Out(c, d, b, k)
    BY <1>1, <2>2, OutStays
  <2>5. ServedOK(c, d)'
    BY <1>1, <1>4, <2>1, <2>3, <2>4, ServedStays
  <2> QED
    BY <1>1, <1>4, <2>1, <2>5 DEF AwayOK
<1>6. CASE c = e /\ d = ch /\ conn[e] # "on"
  <2>1. ~Listens(c, d)'
    BY <1>1, <1>6 DEF Listens
  <2> QED
    BY <1>1, <1>3, <1>6, <2>1 DEF ServedOK, AwayOK
<1>7. CASE c = e /\ d = ch /\ conn[e] = "on"
  <2> DEFINE got == received[<<c, d>>]
  <2>0. PICK n \in Nat : n = Message(d)
    <3>1. block[d] \in Nat \ {0} /\ part[d] \in Nat
      BY <1>3, <1>7 DEF TypeInv
    <3>2. Base(block[d]) \in Nat
      BY <3>1, BaseNat
    <3> QED
      BY <3>1, <3>2 DEF Message
  <2>1. received'[<<c, d>>] = Append(got, n)
    BY <1>1, <1>2, <1>7, <2>0
  <2>2. /\ Len(got) \in Nat /\ Len(Append(got, n)) = Len(got) + 1
        /\ \A i \in 1 .. Len(got) : Append(got, n)[i] = got[i]
        /\ Append(got, n)[Len(got) + 1] = n
    <3>1. got \in Seq(Nat)
      BY <1>2
    <3> QED
      BY <2>0, <3>1, AppendFacts
  <2>3. ASSUME NEW b \in 1 .. read[d], NEW k \in 1 .. FRAMES, Out(c, d, b, k)'
        PROVE  Served(c, d, b, k)'
    <3>1. CASE b = block[d] /\ k = part[d]
      <4>1. Base(b) + k = n
        BY <2>0, <3>1 DEF Message
      <4>2. received'[<<c, d>>][Len(got) + 1] = Base(b) + k
            /\ Len(got) + 1 \in 1 .. Len(received'[<<c, d>>])
        BY <2>1, <2>2, <4>1
      <4> QED
        BY <4>2 DEF Served, Base
    <3>2. CASE ~(b = block[d] /\ k = part[d])
      <4>1. Finished(d)' = Finished(d)
        BY <1>1 DEF Finished
      <4>2. Out(c, d, b, k)
        BY <1>1, <2>3, <3>2, <4>1 DEF Out
      <4>3. CASE got # <<>>
        <5>1. Served(c, d, b, k)
          BY <1>4, <1>7, <2>3, <4>2, <4>3 DEF ServedOK, Listens
        <5>2. /\ Len(got) >= 1 /\ 1 \in 1 .. Len(got)
              /\ \A i \in 1 .. Len(got) : i \in 1 .. Len(received'[<<c, d>>])
              /\ \A i \in 1 .. Len(got) : received'[<<c, d>>][i] = got[i]
          BY <1>2, <2>1, <2>2, <4>3
        <5>3. lost'[d] = lost[d] /\ received'[<<c, d>>][1] = got[1]
          BY <1>1, <5>2
        <5> QED
          BY <5>1, <5>2, <5>3 DEF Served, Base
      <4>4. CASE got = <<>>
        <5>1. received'[<<c, d>>][1] = n
          BY <2>1, <2>2, <4>4
        <5>2. /\ block[d] \in Nat \ {0} /\ part[d] \in Nat \ {0} /\ b \in Nat \ {0}
              /\ k \in Nat /\ k <= FRAMES /\ FRAMES \in Nat /\ read[d] \in Nat
          BY <1>3, <1>7 DEF TypeInv
        <5>3. n = Base(block[d]) + part[d] /\ Base(block[d]) \in Nat /\ Base(b) \in Nat
          BY <2>0, <5>2, BaseNat DEF Message
        <5>4. CASE b = block[d]
          <6>1. k < part[d]
            <7>1. Finished(d) = block[d] - 1
              BY <1>3, <1>7 DEF Finished
            <7>2. ~(b <= Finished(d))
              BY <5>2, <5>4, <7>1
            <7> QED
              BY <3>2, <4>2, <5>2, <5>4, <7>2 DEF Out
          <6>2. Base(b) + k < n
            BY <5>2, <5>3, <5>4, <6>1
          <6> QED
            BY <5>1, <6>2 DEF Served, Base
        <5>5. CASE b # block[d]
          <6>1. b <= block[d] - 1
            BY <1>3, <1>7, <4>2, <5>5 DEF Out, Finished
          <6>2. Base(b) + FRAMES <= Base(block[d])
            BY <5>2, <6>1, BaseGrows
          <6>3. Base(b) + k < n
            BY <5>2, <5>3, <6>2
          <6> QED
            BY <5>1, <6>3 DEF Served, Base
        <5> QED
          BY <5>4, <5>5
      <4> QED
        BY <4>3, <4>4
    <3> QED
      BY <3>1, <3>2
  <2>4. ServedOK(c, d)'
    BY <1>1, <2>3 DEF ServedOK
  <2> QED
    BY <1>1, <1>3, <1>7, <2>4 DEF AwayOK
<1> QED
  BY <1>5, <1>6, <1>7

\* The other steps move neither blocks nor messages; who listens did so before.
Elsewhere ==
    /\ UNCHANGED <<read, queue, block, part, todo, lost, received>>
    /\ \A c \in Clients : \/ conn'[c] = conn[c]
                          \/ conn[c] = "away" /\ conn'[c] = "on"
                          \/ conn[c] \in {"on", "stalled"} /\ conn'[c] # "away"
                          \/ conn'[c] = "gone"

LEMMA LossStep ==
    ASSUME TypeInv, LockInv, QueueInv, LossInv, [Next]_vars
    PROVE  LossInv'
<1> USE PipelineAssumption
<1>a. /\ read \in [Channels -> Nat] /\ part \in [Channels -> 0 .. FRAMES]
      /\ todo \in [Channels -> SUBSET Clients] /\ conn \in [Clients -> States]
      /\ lost \in [Channels -> SUBSET Nat]
  BY DEF TypeInv, LossInv
<1>b. /\ \A ch \in Channels : GapOK(ch)
      /\ \A c \in Clients, ch \in Channels : ServedOK(c, ch) /\ AwayOK(c, ch)
  BY DEF LossInv
<1>1. ASSUME NEW ch \in Channels, ReadBlock(ch) PROVE LossInv'
  <2>1. /\ lost' \in [Channels -> SUBSET Nat] /\ GapOK(ch)'
        /\ Finished(ch)' = Finished(ch)
        /\ lost[ch] \subseteq lost'[ch]
        /\ read'[ch] = read[ch] + 1
        /\ \A d \in Channels : d # ch => /\ read'[d] = read[d] /\ queue'[d] = queue[d]
                                         /\ lost'[d] = lost[d]
        /\ UNCHANGED <<block, part, todo, received, conn>>
    BY <1>1, LossReadBlock
  <2>2. ASSUME NEW d \in Channels PROVE GapOK(d)'
    <3>1. d # ch => GapOK(d)'
      BY <1>b, <2>1, GapStays
    <3> QED
      BY <2>1, <3>1
  <2>3. ASSUME NEW c \in Clients, NEW d \in Channels PROVE ServedOK(c, d)' /\ AwayOK(c, d)'
    <3>1. AwayOK(c, d)' /\ (Listens(c, d)' <=> Listens(c, d))
      BY <1>b, <2>1 DEF AwayOK, Listens
    <3>2. CASE d # ch
      <4>1. \A b, k : Out(c, d, b, k)' <=> Out(c, d, b, k)
        BY <2>1, <3>2, OutStays
      <4> QED
        BY <1>b, <2>1, <3>1, <3>2, <4>1, ServedStays
    <3>3. CASE d = ch
      <4>1. ASSUME NEW b \in 1 .. read'[d], NEW k \in 1 .. FRAMES, Out(c, d, b, k)', Listens(c, d)
            PROVE  Served(c, d, b, k)'
        <5>1. Out(c, d, b, k)
          BY <2>1, <3>3, <4>1 DEF Out
        <5>2. b <= read[d]
          <6>1. Finished(d) \in 0 .. read[d] /\ block[d] <= read[d] /\ read[d] \in Nat
            BY <1>a, FinishedFacts DEF QueueInv, Lined
          <6>2. b <= Finished(d) \/ b = block[d]
            BY <5>1 DEF Out
          <6>3. b \in Nat
            OBVIOUS
          <6> QED
            BY <6>1, <6>2, <6>3
        <5>3. b \in 1 .. read[d]
          BY <1>a, <5>2
        <5>4. Served(c, d, b, k)
          BY <1>b, <4>1, <5>1, <5>3 DEF ServedOK
        <5> QED
          BY <2>1, <3>3, <5>4 DEF Served, Base
      <4> QED
        BY <3>1, <4>1 DEF ServedOK
    <3> QED
      BY <3>1, <3>2, <3>3
  <2> QED
    BY <2>1, <2>2, <2>3 DEF LossInv
<1>2. ASSUME NEW ch \in Channels, WaitAndPop(ch) PROVE LossInv'
  <2>1. /\ GapOK(ch)'
        /\ Finished(ch)' = Finished(ch)
        /\ block'[ch] \in Nat \ {0} /\ part'[ch] = 0
        /\ \A d \in Channels : d # ch => /\ block'[d] = block[d] /\ queue'[d] = queue[d]
                                         /\ part'[d] = part[d]
        /\ UNCHANGED <<read, todo, received, conn, lost>>
    BY <1>2, LossPop
  <2>2. ASSUME NEW d \in Channels PROVE GapOK(d)'
    <3>1. d # ch => GapOK(d)'
      BY <1>b, <2>1, GapStays
    <3> QED
      BY <2>1, <3>1
  <2>3. ASSUME NEW c \in Clients, NEW d \in Channels PROVE ServedOK(c, d)' /\ AwayOK(c, d)'
    <3>1. AwayOK(c, d)' /\ (Listens(c, d)' <=> Listens(c, d))
      BY <1>b, <2>1 DEF AwayOK, Listens
    <3>2. \A b \in 1 .. read[d], k \in 1 .. FRAMES : Out(c, d, b, k)' => Out(c, d, b, k)
      <4>1. CASE d # ch
        BY <2>1, <4>1, OutStays
      <4>2. CASE d = ch
        <5>1. \A k \in 1 .. FRAMES : ~(k <= part'[d])
          BY <2>1, <4>2
        <5> QED
          BY <2>1, <4>2, <5>1 DEF Out
      <4> QED
        BY <4>1, <4>2
    <3> QED
      BY <1>b, <2>1, <3>1, <3>2, ServedStays
  <2> QED
    BY <1>a, <2>1, <2>2, <2>3 DEF LossInv
<1>3. ASSUME NEW ch \in Channels, EndBlock(ch) PROVE LossInv'
  <2>1. /\ lost' \in [Channels -> SUBSET Nat] /\ GapOK(ch)'
        /\ \A c \in Clients : \A b \in 1 .. read[ch], k \in 1 .. FRAMES :
             Out(c, ch, b, k)' => Out(c, ch, b, k) \/ b \in lost'[ch]
        /\ lost[ch] \subseteq lost'[ch]
        /\ \A d \in Channels : d # ch => block'[d] = block[d] /\ lost'[d] = lost[d]
        /\ UNCHANGED <<read, queue, part, todo, received, conn>>
    BY <1>3, LossEndBlock
  <2>2. ASSUME NEW d \in Channels PROVE GapOK(d)'
    <3>1. d # ch => GapOK(d)'
      BY <1>b, <2>1, GapStays
    <3> QED
      BY <2>1, <3>1
  <2>3. ASSUME NEW c \in Clients, NEW d \in Channels PROVE ServedOK(c, d)' /\ AwayOK(c, d)'
    <3>1. AwayOK(c, d)' /\ (Listens(c, d)' <=> Listens(c, d))
      BY <1>b, <2>1 DEF AwayOK, Listens
    <3>2. CASE d # ch
      <4>1. \A b, k : Out(c, d, b, k)' <=> Out(c, d, b, k)
        BY <2>1, <3>2, OutStays
      <4> QED
        BY <1>b, <2>1, <3>1, <3>2, <4>1, ServedStays
    <3>3. CASE d = ch
      <4>1. ASSUME NEW b \in 1 .. read[d], NEW k \in 1 .. FRAMES, Out(c, d, b, k)', Listens(c, d)
            PROVE  Served(c, d, b, k)'
        <5>1. Out(c, d, b, k) \/ b \in lost'[d]
          BY <2>1, <3>3, <4>1
        <5>2. Out(c, d, b, k) => Served(c, d, b, k)
          BY <1>b, <4>1 DEF ServedOK
        <5> QED
          BY <2>1, <3>3, <5>1, <5>2 DEF Served, Base
      <4> QED
        BY <2>1, <3>1, <4>1 DEF ServedOK
    <3> QED
      BY <3>1, <3>2, <3>3
  <2> QED
    BY <2>1, <2>2, <2>3 DEF LossInv
<1>4. ASSUME NEW ch \in Channels, BeginSendMsg(ch) PROVE LossInv'
  <2>1. /\ SessionSetMutex = Free
        /\ part' = [part EXCEPT ![ch] = @ + 1]
        /\ todo' = [todo EXCEPT ![ch] = SessionSet]
        /\ UNCHANGED <<read, queue, block, lost, received, conn>>
    BY <1>4 DEF BeginSendMsg, boardVars, clientVars
  <2>2. ASSUME NEW d \in Channels PROVE GapOK(d)'
    BY <1>b, <2>1, GapStays
  <2>3. ASSUME NEW c \in Clients, NEW d \in Channels PROVE ServedOK(c, d)' /\ AwayOK(c, d)'
    <3>1. AwayOK(c, d)' /\ (Listens(c, d)' <=> Listens(c, d))
      BY <1>b, <2>1 DEF AwayOK, Listens
    <3>2. CASE d # ch
      <4>1. part'[d] = part[d] /\ todo'[d] = todo[d]
        BY <1>a, <2>1, <3>2
      <4>2. \A b, k : Out(c, d, b, k)' <=> Out(c, d, b, k)
        BY <2>1, <4>1, OutStays
      <4> QED
        BY <1>b, <2>1, <3>1, <4>2, ServedStays
    <3>3. CASE d = ch /\ Listens(c, d)
      <4>1. todo[d] = {} /\ c \in SessionSet
        BY <2>1, <3>3 DEF LockInv, SendInv, ClientInv, Listens
      <4>2. part'[d] = part[d] + 1 /\ c \in todo'[d] /\ part[d] \in Nat
        BY <1>a, <2>1, <3>3, <4>1
      <4>3. Finished(d)' = Finished(d)
        BY <2>1 DEF Finished
      <4>4. \A b \in 1 .. read[d], k \in 1 .. FRAMES : Out(c, d, b, k)' => Out(c, d, b, k)
        BY <2>1, <4>1, <4>2, <4>3 DEF Out
      <4> QED
        BY <1>b, <2>1, <3>1, <4>4, ServedStays
    <3>4. CASE ~Listens(c, d)
      BY <3>1, <3>4 DEF ServedOK
    <3> QED
      BY <3>1, <3>2, <3>3, <3>4
  <2> QED
    BY <1>a, <2>1, <2>2, <2>3 DEF LossInv
<1>5. ASSUME NEW ch \in Channels, NEW e \in Clients, WriteSession(ch, e) PROVE LossInv'
  <2>1. UNCHANGED <<read, queue, block, lost>>
    BY <1>5 DEF WriteSession, boardVars, workVars
  <2>2. ASSUME NEW d \in Channels PROVE GapOK(d)'
    BY <1>b, <2>1, GapStays
  <2>3. ASSUME NEW c \in Clients, NEW d \in Channels PROVE ServedOK(c, d)' /\ AwayOK(c, d)'
    BY <1>5, LossWrite
  <2> QED
    BY <1>a, <2>1, <2>2, <2>3 DEF LossInv
<1>6. CASE Elsewhere
  <2>1. ASSUME NEW d \in Channels PROVE GapOK(d)'
    BY <1>b, <1>6, GapStays DEF Elsewhere
  <2>2. ASSUME NEW c \in Clients, NEW d \in Channels PROVE ServedOK(c, d)' /\ AwayOK(c, d)'
    <3>1. AwayOK(c, d)
      BY <1>b
    <3>2. Listens(c, d)' => Listens(c, d)
      BY <1>6, <3>1 DEF Listens, AwayOK, Elsewhere
    <3>3. AwayOK(c, d)'
      BY <1>6, <3>1 DEF AwayOK, Elsewhere
    <3>4. \A b, k : Out(c, d, b, k)' <=> Out(c, d, b, k)
      BY <1>6, OutStays DEF Elsewhere
    <3> QED
      BY <1>b, <1>6, <3>2, <3>3, <3>4, ServedStays DEF Elsewhere
  <2> QED
    BY <1>a, <1>6, <2>1, <2>2 DEF LossInv, Elsewhere
<1>7. ASSUME NEW ch \in Channels, DataThread(ch), ~WaitAndPop(ch), ~EndBlock(ch),
             ~BeginSendMsg(ch), \A e \in Clients : ~WriteSession(ch, e)
      PROVE  LossInv'
  <2>1. UNCHANGED <<read, queue, block, part, todo, lost, received, conn>>
    BY <1>7 DEF DataThread, LockParams, EndSendMsg, LockSession, LockWrite, boardVars,
       workVars, sendVars, clientVars
  <2> QED
    BY <1>6, <2>1 DEF Elsewhere
<1>8. ASSUME NEW e \in Clients, AddToSet(e) \/ ReadCommand(e) \/ ReadThread(e) \/ Peer(e)
      PROVE  LossInv'
  <2>1. UNCHANGED <<read, queue, block, part, todo, lost, received>>
    BY <1>8 DEF AddToSet, ReadCommand, ReadThread, SetParam, LockAnswer, LockWrite,
       ControlReplay, RemoveFromSet, Peer, ConnChanges, boardVars, workVars, sendVars
  <2>2. CASE ReadCommand(e) \/ SetParam(e) \/ LockAnswer(e) \/ ControlReplay(e)
    <3>1. conn' = conn
      BY <2>2 DEF ReadCommand, SetParam, LockAnswer, LockWrite, ControlReplay, clientVars
    <3> QED
      BY <1>6, <2>1, <3>1 DEF Elsewhere
  <2>3. CASE AddToSet(e) \/ RemoveFromSet(e) \/ Peer(e)
    <3>1. \/ conn[e] = "away" /\ conn' = [conn EXCEPT ![e] = "on"]
          \/ conn' = [conn EXCEPT ![e] = "gone"]
          \/ conn[e] \in {"on", "stalled"} /\ conn' = [conn EXCEPT ![e] = "stalled"]
          \/ conn[e] \in {"on", "stalled"} /\ conn' = [conn EXCEPT ![e] = "on"]
          \/ conn[e] \in {"on", "stalled"} /\ conn' = [conn EXCEPT ![e] = "broken"]
      BY <2>3 DEF AddToSet, RemoveFromSet, Peer, ConnChanges
    <3> QED
      <4>1. \A c \in Clients \ {e} : conn'[c] = conn[c]
        BY <1>a, <3>1
      <4>2. \/ conn[e] = "away" /\ conn'[e] = "on"
            \/ conn'[e] = "gone"
            \/ conn[e] \in {"on", "stalled"} /\ conn'[e] # "away"
        BY <1>a, <3>1
      <4> QED
        BY <1>6, <2>1, <4>1, <4>2 DEF Elsewhere
  <2> QED
    BY <1>8, <2>2, <2>3 DEF ReadThread
<1>9. CASE UNCHANGED vars
  <2>1. UNCHANGED <<read, queue, block, part, todo, lost, received, conn>>
    BY <1>9 DEF vars, boardVars, workVars, sendVars, clientVars
  <2> QED
    BY <1>6, <2>1 DEF Elsewhere
<1> QED
  BY <1>1, <1>2, <1>3, <1>4, <1>5, <1>7, <1>8, <1>9 DEF Next

IInv == TypeInv /\ LockInv /\ QueueInv /\ ReceivedInv /\ LossInv

LEMMA Invariant == Spec => []IInv
<1>1. Init => IInv
  BY LockInit, OrderInit, LossInit DEF IInv
<1>2. IInv /\ [Next]_vars => IInv'
  BY TypeStep, LockStep, QueueStep, ReceivedStep, LossStep DEF IInv
<1> QED
  BY <1>1, <1>2, PTL DEF Spec

-----------------------------------------------------------------------------
(***************************************************************************)
(* The theorems.                                                           *)
(***************************************************************************)

\* However long clients stall, a queue holds at most MAX_BUFFER_DEPTH + 1 blocks,
\* every lock is held by a thread that is at work, and a message is written only
\* to sessions of the list.
THEOREM TypeCorrect == Spec => []TypeOK
<1>1. IInv => TypeOK
  <2> SUFFICES ASSUME IInv PROVE TypeOK
    OBVIOUS
  <2>1. ASSUME NEW ch \in Channels
        PROVE  /\ Len(queue[ch]) <= MAX_BUFFER_DEPTH + 1
               /\ block[ch] \in 0 .. read[ch]
               /\ part[ch] \in 0 .. FRAMES
               /\ todo[ch] \subseteq SessionSet
               /\ SessionSetMutex = ch => block[ch] # 0 /\ Ready(ch)
               /\ todo[ch] # {} => SessionSetMutex = ch
    BY DEF IInv, TypeInv, LockInv, SendInv, QueueInv, Lined
  <2>2. ParamPowerWBMutex \in {Free, WB} /\ SessionSetMutex \in Channels \cup {Free}
    BY DEF IInv, TypeInv
  <2>3. ASSUME NEW c \in Clients
        PROVE  /\ WriteLock[c] \in Channels => c \in todo[WriteLock[c]]
               /\ WriteLock[c] = c => command[c] = "answer"
               /\ c \in SessionSet <=> conn[c] \in {"on", "stalled", "broken"}
    BY DEF IInv, LockInv, ClientInv
  <2> QED
    BY <2>1, <2>2, <2>3 DEF TypeOK
<1> QED
  BY Invariant, <1>1, PTL

\* From the board to every client the server is a lossy channel: what arrives of
\* a channel is in order and not twice, for any number of clients that come, stall,
\* break and send commands, any depth of the queues and any frames of a block.
THEOREM InOrder == Spec => InOrderOnce
<1> DEFINE sentBar == [e \in Ends |-> FRAMES * read[e[2]]]
<1>1. Init => Chain!Init
  <2> SUFFICES ASSUME Init PROVE Chain!Init
    OBVIOUS
  <2>1. received = [e \in Ends |-> <<>>] /\ \A e \in Ends : read[e[2]] = 0
    BY DEF Init, Ends
  <2>2. \A e \in Ends : FRAMES * read[e[2]] = 0
    BY <2>1, PipelineAssumption
  <2> QED
    BY <2>1, <2>2 DEF Chain!Init
<1>2. IInv /\ [Next]_vars => [Chain!Next]_(Chain!vars)
  <2> SUFFICES ASSUME IInv, [Next]_vars PROVE [Chain!Next]_(Chain!vars)
    OBVIOUS
  <2>1. ASSUME NEW ch \in Channels, ReadBlock(ch) PROVE Chain!Send
    <3> DEFINE S == {e \in Ends : e[2] = ch}
    <3>1. received' = received /\ read' = [read EXCEPT ![ch] = @ + 1]
      BY <2>1 DEF ReadBlock
    <3>2. ASSUME NEW e \in Ends
          PROVE  FRAMES * read'[e[2]] = FRAMES * read[e[2]] + (IF e \in S THEN FRAMES ELSE 0)
      <4>1. e[2] \in Channels /\ read[e[2]] \in Nat /\ FRAMES \in Nat
        BY PipelineAssumption DEF Ends, IInv, TypeInv
      <4>2. CASE e[2] = ch
        <5>1. read'[e[2]] = read[e[2]] + 1
          BY <3>1, <4>1, <4>2 DEF IInv, TypeInv
        <5>2. FRAMES * (read[e[2]] + 1) = FRAMES * read[e[2]] + FRAMES
          BY <4>1
        <5> QED
          BY <4>2, <5>1, <5>2
      <4>3. CASE e[2] # ch
        <5>1. read'[e[2]] = read[e[2]]
          BY <3>1, <4>1, <4>3 DEF IInv, TypeInv
        <5>2. FRAMES * read[e[2]] \in Nat
          BY <4>1
        <5> QED
          BY <4>3, <5>1, <5>2
      <4> QED
        BY <4>2, <4>3
    <3>3. S \in SUBSET Ends
      OBVIOUS
    <3> HIDE DEF S
    <3>4. sentBar' = [e \in Ends |-> sentBar[e] + (IF e \in S THEN FRAMES ELSE 0)]
      BY <3>2
    <3> QED
      BY <3>1, <3>3, <3>4 DEF Chain!Send
  <2>2. ASSUME NEW ch \in Channels, NEW c \in Clients, WriteSession(ch, c),
               received' = [received EXCEPT ![<<c, ch>>] = Append(@, Message(ch))]
        PROVE  Chain!Deliver(<<c, ch>>)
    <3>1. read' = read
      BY <2>2 DEF WriteSession, boardVars
    <3>2. /\ Message(ch) \in 1 .. FRAMES * read[ch]
          /\ \A i \in 1 .. Len(received[<<c, ch>>]) :
                received[<<c, ch>>][i] < Message(ch)
      BY <2>2, MessageIsNew DEF IInv
    <3>3. <<c, ch>> \in Ends /\ <<c, ch>>[2] = ch
      BY DEF Ends
    <3>4. sentBar[<<c, ch>>] = FRAMES * read[ch] /\ sentBar' = sentBar
      BY <3>1, <3>3
    <3> QED
      BY <2>2, <3>2, <3>3, <3>4 DEF Chain!Deliver
  <2>3. ASSUME UNCHANGED <<read, received>> PROVE UNCHANGED Chain!vars
    BY <2>3 DEF Chain!vars
  <2>4. ASSUME NEW ch \in Channels, DataThread(ch) PROVE read' = read
    BY <2>4 DEF DataThread, WaitAndPop, LockParams, EndBlock, BeginSendMsg, EndSendMsg,
       LockSession, WriteSession, LockWrite, boardVars
  <2>5. ASSUME NEW c \in Clients, AddToSet(c) \/ ReadCommand(c) \/ ReadThread(c) \/ Peer(c)
        PROVE  read' = read
    BY <2>5 DEF AddToSet, ReadCommand, ReadThread, SetParam, LockAnswer, LockWrite,
       ControlReplay, RemoveFromSet, Peer, ConnChanges, boardVars
  <2>6. CASE UNCHANGED vars
    BY <2>3, <2>6 DEF vars, boardVars
  <2>7. ASSUME read' = read, [Next]_vars PROVE [Chain!Next]_(Chain!vars)
    <3>1. CASE received' = received
      BY <2>3, <2>7, <3>1
    <3>2. ASSUME NEW ch \in Channels, NEW c \in Clients, WriteSession(ch, c),
                 received' = [received EXCEPT ![<<c, ch>>] = Append(@, Message(ch))]
          PROVE  Chain!Next
      <4>1. <<c, ch>> \in Ends
        BY DEF Ends
      <4> QED
        BY <2>2, <3>2, <4>1 DEF Chain!Next
    <3> QED
      BY <3>1, <3>2, ReceivedNext DEF IInv
  <2> QED
    BY <2>1, <2>4, <2>5, <2>6, <2>7 DEF Next, Chain!Next
<1> QED
  BY Invariant, <1>1, <1>2, PTL DEF Spec, InOrderOnce, Chain!Spec

(***************************************************************************)
(* What follows from LossyChannel alone.                                   *)
(***************************************************************************)
ChainInv ==
    /\ \A e \in Ends : FRAMES * read[e[2]] \in Nat
    /\ received \in [Ends -> Seq(Nat)]
    /\ Chain!Increasing

LEMMA ChainStep ==
    ASSUME ChainInv, [Chain!Next]_(Chain!vars)
    PROVE  ChainInv'
<1> DEFINE made == [e \in Ends |-> FRAMES * read[e[2]]]
<1>1. CASE Chain!Send
  <2>1. PICK S \in SUBSET Ends :
            made' = [e \in Ends |-> made[e] + (IF e \in S THEN FRAMES ELSE 0)]
    BY <1>1 DEF Chain!Send
  <2>2. \A e \in Ends : made[e] \in Nat /\ made'[e] = FRAMES * read'[e[2]]
    BY DEF ChainInv
  <2>3. \A e \in Ends : made'[e] = made[e] + (IF e \in S THEN FRAMES ELSE 0)
    BY <2>1
  <2>4. FRAMES \in Nat
    BY PipelineAssumption
  <2>5. \A e \in Ends : made'[e] \in Nat
    <3> HIDE DEF made
    <3> QED
      BY <2>2, <2>3, <2>4
  <2>6. \A e \in Ends : FRAMES * read'[e[2]] \in Nat
    <3> HIDE DEF made
    <3> QED
      BY <2>2, <2>5
  <2> QED
    BY <1>1, <2>6 DEF Chain!Send, ChainInv, Chain!Increasing
<1>2. ASSUME NEW e \in Ends, Chain!Deliver(e) PROVE ChainInv'
  <2>1. PICK n \in 1 .. made[e] :
            /\ \A i \in 1 .. Len(received[e]) : received[e][i] < n
            /\ received' = [received EXCEPT ![e] = Append(@, n)]
    BY <1>2 DEF Chain!Deliver
  <2>2. made' = made
    BY <1>2 DEF Chain!Deliver
  <2>3. \A d \in Ends : /\ made[d] = FRAMES * read[d[2]] /\ made[d] \in Nat
                        /\ made'[d] = FRAMES * read'[d[2]]
    BY DEF ChainInv
  <2> HIDE DEF made
  <2>4. n \in Nat /\ \A d \in Ends : FRAMES * read'[d[2]] \in Nat
    BY <2>1, <2>2, <2>3
  <2>5. received \in [Ends -> Seq(Nat)]
    BY DEF ChainInv
  <2>6. /\ received' \in [Ends -> Seq(Nat)]
        /\ received'[e] = Append(received[e], n)
        /\ \A d \in Ends \ {e} : received'[d] = received[d]
    BY <2>1, <2>4, <2>5
  <2>7. /\ Len(received'[e]) = Len(received[e]) + 1
        /\ received'[e][Len(received[e]) + 1] = n
        /\ \A i \in 1 .. Len(received[e]) : received'[e][i] = received[e][i]
        /\ \A i \in 1 .. Len(received'[e]) :
              i \in 1 .. Len(received[e]) \/ i = Len(received[e]) + 1
    BY <2>5, <2>6
  <2>8. ASSUME NEW i \in 1 .. Len(received'[e]), NEW j \in 1 .. Len(received'[e]), i < j
        PROVE  received'[e][i] < received'[e][j]
    <3>1. i \in 1 .. Len(received[e])
      BY <2>5, <2>7, <2>8
    <3>2. CASE j \in 1 .. Len(received[e])
      BY <2>7, <2>8, <3>1, <3>2 DEF ChainInv, Chain!Increasing
    <3>3. CASE j = Len(received[e]) + 1
      BY <2>1, <2>4, <2>7, <3>1, <3>3
    <3> QED
      BY <2>7, <3>2, <3>3
  <2> QED
    BY <2>4, <2>6, <2>8 DEF ChainInv, Chain!Increasing
<1>3. CASE UNCHANGED Chain!vars
  <2>1. made' = made /\ received' = received
    BY <1>3 DEF Chain!vars
  <2>2. \A e \in Ends : made[e] = FRAMES * read[e[2]] /\ made'[e] = FRAMES * read'[e[2]]
    OBVIOUS
  <2> HIDE DEF made
  <2>3. \A e \in Ends : FRAMES * read'[e[2]] \in Nat
    BY <2>1, <2>2 DEF ChainInv
  <2> QED
    BY <2>1, <2>3 DEF ChainInv, Chain!Increasing
<1> QED
  BY <1>1, <1>2, <1>3 DEF Chain!Next

LEMMA ChainKeepsOrder == Chain!Spec => []ChainInv
<1>1. ASSUME Chain!Init PROVE ChainInv
  <2>1. /\ [e \in Ends |-> FRAMES * read[e[2]]] = [e \in Ends |-> 0]
        /\ received = [e \in Ends |-> <<>>]
    BY <1>1 DEF Chain!Init
  <2>2. \A e \in Ends : [d \in Ends |-> FRAMES * read[d[2]]][e] = FRAMES * read[e[2]]
    OBVIOUS
  <2>3. \A e \in Ends : FRAMES * read[e[2]] \in Nat
    BY <2>1, <2>2
  <2> QED
    BY <2>1, <2>3 DEF ChainInv, Chain!Increasing
<1> QED
  BY ChainStep, <1>1, PTL DEF Chain!Spec

\* What a client gets of a channel is in the order the board made it and free of
\* repetitions: read off the channel that the whole way implements.
THEOREM ArrivesInOrder == Spec => []MessagesInOrder
<1>1. ChainInv => MessagesInOrder
  BY DEF ChainInv, MessagesInOrder
<1> QED
  BY InOrder, ChainKeepsOrder, <1>1, PTL DEF InOrderOnce

\* A client that is served misses no message of a block from its first one on, unless
\* the block met a full queue or the filter, for any clients that come, stall and
\* break, any depth of the queues and any frames of a block.
THEOREM NothingElseLoses == Spec => []OnlyTheQueueLoses
<1>1. IInv => OnlyTheQueueLoses
  <2> SUFFICES ASSUME IInv, NEW c \in Clients, NEW ch \in Channels,
                      conn[c] \in {"on", "stalled"}, received[<<c, ch>>] # <<>>,
                      NEW b \in 1 .. Finished(ch), NEW k \in 1 .. FRAMES
               PROVE  \/ FRAMES * (b - 1) + k < received[<<c, ch>>][1]
                      \/ \E i \in 1 .. Len(received[<<c, ch>>]) :
                            received[<<c, ch>>][i] = FRAMES * (b - 1) + k
                      \/ b \in lost[ch]
    BY Zenon DEF OnlyTheQueueLoses
  <2>1. Finished(ch) \in 0 .. read[ch] /\ read[ch] \in Nat
    BY FinishedFacts DEF IInv, TypeInv
  <2>2. b \in 1 .. read[ch] /\ b <= Finished(ch)
    BY <2>1
  <2>3. Served(c, ch, b, k)
    BY <2>2 DEF IInv, LossInv, ServedOK, Listens, Out
  <2> QED
    BY <2>3 DEF Served, Base
<1> QED
  BY Invariant, <1>1, PTL

-----------------------------------------------------------------------------
(***************************************************************************)
(* The locks.  Threads are ranked by the locks they hold: a thread waits   *)
(* only for one of a lower rank, and whoever holds a lock has work.        *)
(***************************************************************************)
\* A session locks its own stream only, and the parameters are locked for a block.
HolderInv ==
    /\ ParamPowerWBMutex = WB => block[WB] # 0
    /\ \A c \in Clients : WriteLock[c] \in Clients => WriteLock[c] = c

LEMMA HolderStep ==
    ASSUME TypeInv, HolderInv, [Next]_vars
    PROVE  HolderInv'
<1> USE PipelineAssumption
        DEF HolderInv, boardVars, workVars, sendVars, clientVars, commandVars
<1>a. /\ block \in [Channels -> Nat] /\ WB \in Channels /\ Free \notin Channels \cup Clients
      /\ Channels \cap Clients = {}
      /\ WriteLock \in [Clients -> Channels \cup Clients \cup {Free}]
  BY DEF TypeInv
<1>1. ASSUME NEW ch \in Channels, ReadBlock(ch) \/ BeginSendMsg(ch) \/ EndSendMsg(ch)
      PROVE  HolderInv'
  BY <1>1 DEF ReadBlock, BeginSendMsg, EndSendMsg
<1>2. ASSUME NEW ch \in Channels, WaitAndPop(ch) PROVE HolderInv'
  BY <1>2, <1>a DEF WaitAndPop
<1>3. ASSUME LockParams PROVE HolderInv'
  BY <1>3 DEF LockParams
<1>4. ASSUME NEW ch \in Channels, EndBlock(ch) PROVE HolderInv'
  BY <1>4, <1>a DEF EndBlock
<1>5. ASSUME NEW ch \in Channels, NEW c \in Clients, LockSession(ch, c) \/ WriteSession(ch, c)
      PROVE  HolderInv'
  BY <1>5, <1>a DEF LockSession, LockWrite, WriteSession
<1>6. ASSUME NEW c \in Clients, ReadThread(c) PROVE HolderInv'
  BY <1>6, <1>a DEF ReadThread, SetParam, LockAnswer, LockWrite, ControlReplay, RemoveFromSet
<1>7. ASSUME NEW c \in Clients, AddToSet(c) \/ ReadCommand(c) \/ Peer(c) PROVE HolderInv'
  BY <1>7 DEF AddToSet, ReadCommand, Peer, ConnChanges
<1>8. CASE UNCHANGED vars
  BY <1>8 DEF vars
<1> QED
  BY <1>1, <1>2, <1>3, <1>4, <1>5, <1>6, <1>7, <1>8 DEF Next, DataThread

LEMMA Holders == Spec => []HolderInv
<1>1. Init => HolderInv
  BY PipelineAssumption DEF Init, HolderInv
<1>2. IInv /\ HolderInv /\ [Next]_vars => HolderInv'
  BY HolderStep DEF IInv
<1> QED
  BY Invariant, <1>1, <1>2, PTL DEF Spec

\* Who holds a WriteLock, SessionSetMutex but none, ParamPowerWBMutex alone.
Writes(x) == \E c \in Clients : WriteLock[c] = x

Sends(x) == SessionSetMutex = x /\ ~Writes(x)

Computes(x) == ParamPowerWBMutex = x /\ SessionSetMutex # x /\ ~Writes(x)

\* A thread that writes holds all it needs; one that sends waits for a WriteLock;
\* one that computes for SessionSetMutex.  So waiting leads down the ranks.
LEMMA WaitingDescends ==
    ASSUME IInv, HolderInv, NEW x \in Threads, NEW y \in Threads, WaitsFor(x, y)
    PROVE  /\ ~Writes(x)
           /\ Writes(y) \/ Sends(y) \/ Computes(y)
           /\ Sends(x) => Writes(y)
           /\ Computes(x) => Writes(y) \/ Sends(y)
<1>a. /\ WB \in Channels /\ Free \notin Channels \cup Clients /\ Channels \cap Clients = {}
      /\ x \in Channels \/ x \in Clients
      /\ y # Free
  BY PipelineAssumption DEF Threads
<1>b. /\ ParamPowerWBMutex \in {Free, WB} /\ SessionSetMutex \in Channels \cup {Free}
      /\ todo \in [Channels -> SUBSET Clients]
      /\ \A c \in Clients :
            /\ WriteLock[c] \in Channels => c \in todo[WriteLock[c]]
            /\ WriteLock[c] = c => command[c] = "answer"
            /\ WriteLock[c] \in Clients => WriteLock[c] = c
      /\ \A ch \in Channels : todo[ch] # {} => SessionSetMutex = ch
  BY DEF IInv, TypeInv, LockInv, SendInv, ClientInv, HolderInv
<1>1. CASE x = WB /\ block[x] # 0 /\ ParamPowerWBMutex = y /\ y # x
  BY <1>1, <1>a, <1>b
<1>2. CASE /\ x \in Channels /\ block[x] # 0 /\ Ready(x) /\ part[x] < FRAMES
           /\ SessionSetMutex = y /\ y # x
  <2>1. ~Writes(x)
    BY <1>2, <1>a, <1>b DEF Writes
  <2> QED
    BY <1>2, <2>1 DEF Sends
<1>3. CASE /\ x \in Channels /\ SessionSetMutex = x /\ \A c \in Clients : WriteLock[c] # x
           /\ \E c \in todo[x] : WriteLock[c] = y
  BY <1>3, <1>b DEF Writes, Sends
<1>4. CASE x \in Clients
  <2>1. SessionSetMutex # x /\ ParamPowerWBMutex # x
    BY <1>4, <1>a, <1>b
  <2>2. Writes(x) => WriteLock[x] = x /\ command[x] = "answer"
    BY <1>4, <1>b DEF Writes
  <2>3. ~Sends(x) /\ ~Computes(x)
    BY <2>1 DEF Sends, Computes
  <2>4. CASE command[x] = "parse" /\ ParamPowerWBMutex = y
    BY <2>2, <2>3, <2>4 DEF Sends, Computes
  <2>5. CASE command[x] = "answer" /\ WriteLock[x] = y /\ y # x
    BY <1>4, <2>2, <2>3, <2>5 DEF Writes
  <2>6. CASE command[x] = "none" /\ SessionSetMutex = y
    BY <2>2, <2>3, <2>6 DEF Sends
  <2> QED
    BY <1>4, <1>a, <2>4, <2>5, <2>6 DEF WaitsFor
<1> QED
  BY <1>1, <1>2, <1>3, <1>4, <1>a DEF WaitsFor

\* No deadlock over locks: the three locks of the server are always taken in the
\* same order, however many sessions and data threads there are.
THEOREM NoDeadlock == Spec => []NoCircle
<1>1. IInv /\ HolderInv => NoCircle
  <2> SUFFICES ASSUME IInv, HolderInv, NEW S \in SUBSET Threads, S # {}
               PROVE  \E x \in S : \A y \in S : ~WaitsFor(x, y)
    BY DEF NoCircle
  <2>1. CASE \E x \in S : Writes(x)
    BY <2>1, WaitingDescends
  <2>2. CASE (\A x \in S : ~Writes(x)) /\ \E x \in S : Sends(x)
    BY <2>2, WaitingDescends
  <2>3. CASE (\A x \in S : ~Writes(x) /\ ~Sends(x)) /\ \E x \in S : Computes(x)
    BY <2>3, WaitingDescends
  <2>4. CASE \A x \in S : ~Writes(x) /\ ~Sends(x) /\ ~Computes(x)
    BY <2>4, WaitingDescends
  <2> QED
    BY <2>1, <2>2, <2>3, <2>4
<1> QED
  BY Invariant, Holders, <1>1, PTL

\* Nothing but a lock or a client that does not read stops a thread with work.
LEMMA StoppedForAReason ==
    ASSUME IInv, NEW x \in Threads, HasWork(x)
    PROVE  CanGoOn(x) \/ AtStalled(x) \/ \E y \in Threads : WaitsFor(x, y)
<1>a. /\ WB \in Channels /\ Channels \cap Clients = {} /\ FRAMES \in Nat \ {0}
      /\ x \in Channels \/ x \in Clients
      /\ Channels \subseteq Threads
  BY PipelineAssumption DEF Threads
<1>b. /\ ParamPowerWBMutex \in {Free, WB} /\ SessionSetMutex \in Channels \cup {Free}
      /\ todo \in [Channels -> SUBSET Clients] /\ part \in [Channels -> 0 .. FRAMES]
      /\ WriteLock \in [Clients -> Channels \cup Clients \cup {Free}]
      /\ command \in [Clients -> {"none", "parse", "answer"}]
      /\ \A c \in Clients : WriteLock[c] # Free => WriteLock[c] \in Threads
  BY DEF IInv, TypeInv, Threads
<1>1. CASE x \in Channels /\ block[x] = 0
  BY <1>1, <1>a DEF HasWork, CanGoOn
<1>2. CASE x \in Channels /\ block[x] # 0 /\ ~Ready(x)
  BY <1>2, <1>b DEF Ready, CanGoOn
<1>3. CASE x \in Channels /\ block[x] # 0 /\ Ready(x) /\ SessionSetMutex = x
  <2>1. CASE todo[x] = {}
    BY <1>3, <2>1 DEF CanGoOn
  <2>2. CASE \E c \in Clients : WriteLock[c] = x
    BY <1>3, <2>2 DEF CanGoOn, AtStalled
  <2>3. CASE todo[x] # {} /\ \A c \in Clients : WriteLock[c] # x
    <3>1. PICK c \in todo[x] : c \in Clients
      BY <1>3, <1>b, <2>3
    <3>2. CASE WriteLock[c] = Free
      BY <1>3, <2>3, <3>2 DEF CanGoOn
    <3>3. CASE WriteLock[c] # Free
      BY <1>3, <1>b, <2>3, <3>1, <3>3 DEF WaitsFor
    <3> QED
      BY <3>2, <3>3
  <2> QED
    BY <2>1, <2>2, <2>3
<1>4. CASE x \in Channels /\ block[x] # 0 /\ Ready(x) /\ SessionSetMutex # x
  <2>1. CASE part[x] \in {0, FRAMES} \/ SessionSetMutex = Free
    BY <1>4, <2>1 DEF CanGoOn
  <2>2. CASE part[x] \notin {0, FRAMES} /\ SessionSetMutex # Free
    <3>1. part[x] < FRAMES
      BY <1>4, <1>a, <1>b, <2>2
    <3>2. SessionSetMutex \in Threads
      BY <1>a, <1>b, <2>2
    <3> QED
      BY <1>4, <3>1, <3>2 DEF WaitsFor
  <2> QED
    BY <2>1, <2>2
<1>5. CASE x \in Clients
  <2>1. CASE command[x] = "parse"
    BY <1>5, <1>a, <1>b, <2>1 DEF CanGoOn, WaitsFor
  <2>2. CASE command[x] = "answer"
    BY <1>5, <1>b, <2>2 DEF CanGoOn, AtStalled, WaitsFor
  <2>3. CASE command[x] = "none"
    <3>1. conn[x] = "broken"
      BY <1>5, <1>a, <2>3 DEF HasWork
    <3> QED
      BY <1>5, <1>a, <1>b, <2>3, <3>1 DEF CanGoOn, WaitsFor
  <2> QED
    BY <1>5, <1>b, <2>1, <2>2, <2>3
<1> QED
  BY <1>1, <1>2, <1>3, <1>4, <1>5, <1>a

LEMMA HoldersHaveWork ==
    ASSUME IInv, HolderInv, NEW x \in Threads, Writes(x) \/ Sends(x) \/ Computes(x)
    PROVE  HasWork(x)
<1>a. /\ Free \notin Channels \cup Clients /\ Channels \cap Clients = {} /\ WB \in Channels
      /\ x \in Channels \/ x \in Clients
  BY PipelineAssumption DEF Threads
<1>1. CASE x \in Channels /\ SessionSetMutex = x
  BY <1>1 DEF HasWork, IInv, LockInv, SendInv
<1>2. CASE Writes(x) /\ x \in Channels
  BY <1>1, <1>2 DEF Writes, IInv, LockInv, SendInv, ClientInv
<1>3. CASE Writes(x) /\ x \in Clients
  BY <1>3 DEF Writes, HasWork, HolderInv, IInv, LockInv, ClientInv
<1>4. CASE Sends(x)
  BY <1>1, <1>4, <1>a DEF Sends, IInv, TypeInv
<1>5. CASE Computes(x)
  BY <1>5, <1>a DEF Computes, HasWork, HolderInv, IInv, TypeInv
<1> QED
  BY <1>2, <1>3, <1>4, <1>5, <1>a

\* The server never stops with work left because of its own locks: if no thread
\* can go on, one is at a client that does not read.
THEOREM AlwaysGoesOn == Spec => []SomeoneGoesOn
<1>1. IInv /\ HolderInv => SomeoneGoesOn
  <2> SUFFICES ASSUME IInv, HolderInv, NEW x \in Threads, HasWork(x)
               PROVE  \E z \in Threads : CanGoOn(z) \/ AtStalled(z)
    BY DEF SomeoneGoesOn
  <2>1. ASSUME NEW y \in Threads, Writes(y)
        PROVE  CanGoOn(y) \/ AtStalled(y)
    BY <2>1, HoldersHaveWork, StoppedForAReason, WaitingDescends
  <2>2. ASSUME NEW y \in Threads, Sends(y)
        PROVE  \E z \in Threads : CanGoOn(z) \/ AtStalled(z)
    BY <2>1, <2>2, HoldersHaveWork, StoppedForAReason, WaitingDescends
  <2>3. ASSUME NEW y \in Threads, Computes(y)
        PROVE  \E z \in Threads : CanGoOn(z) \/ AtStalled(z)
    BY <2>1, <2>2, <2>3, HoldersHaveWork, StoppedForAReason, WaitingDescends
  <2> QED
    BY <2>1, <2>2, <2>3, StoppedForAReason, WaitingDescends
<1> QED
  BY Invariant, Holders, <1>1, PTL
=============================================================================
