-------------------------- MODULE AcquisitionProofs --------------------------
(***************************************************************************)
(* Proofs about Acquisition, for any channels, any length of a block, any  *)
(* capacity of the queues and any number of units and failed reads.        *)
(***************************************************************************)
EXTENDS Acquisition, SequenceTheorems, TLAPS

Whole(b) == b[1] \in Nat /\ b = Units(b[1], BLOCK)

\* What the read thread collects is the end of what the board delivered.
BufferOK(c) ==
    rpc[c] \in {"read", "test", "call"} =>
        /\ Len(buffer[c]) <= supply[c]
        /\ buffer[c] = Units(supply[c] - Len(buffer[c]), Len(buffer[c]))
        /\ IF rpc[c] = "read" THEN Len(buffer[c]) < BLOCK ELSE Len(buffer[c]) = BLOCK

\* The blocks on their way are whole, and those that passed have the head.
BlocksOK(c) ==
    /\ \A i \in 1 .. Len(queue[c]) : Whole(queue[c][i])
    /\ \A i \in 1 .. Len(passed[c]) : Whole(passed[c][i]) /\ HasHead(passed[c][i])

\* Passed, queue and the hands of the read thread: in the order of the stream.
OrderOK(c) ==
    /\ \A i \in 1 .. Len(passed[c]) :
        /\ passed[c][i][1] < supply[c] - InHand(c)
        /\ \A j \in 1 .. Len(queue[c]) : passed[c][i][1] < queue[c][j][1]
        /\ \A j \in 1 .. Len(passed[c]) : i < j => passed[c][i][1] < passed[c][j][1]
    /\ \A i \in 1 .. Len(queue[c]) :
        /\ queue[c][i][1] < supply[c] - InHand(c)
        /\ \A j \in 1 .. Len(queue[c]) : i < j => queue[c][i][1] < queue[c][j][1]

CountOK(c) ==
    ~lossy[c] => supply[c] = BLOCK * (Len(passed[c]) + Len(queue[c])) + InHand(c)

StartOK ==
    main = "start" => \A c \in Channels : rpc[c] = "none"

ChannelOK(c) == BufferOK(c) /\ BlocksOK(c) /\ OrderOK(c) /\ CountOK(c)

IInv ==
    /\ TypeOK
    /\ StartOK
    /\ \A c \in Channels : ChannelOK(c)

-----------------------------------------------------------------------------
LEMMA ProductIsNat ==
    ASSUME NEW m \in Nat, NEW n \in Nat
    PROVE  m * n \in Nat
OBVIOUS

LEMMA UnitsProperties ==
    ASSUME NEW k \in Nat, NEW n \in Nat
    PROVE  /\ Units(k, n) \in Seq(Nat)
           /\ Len(Units(k, n)) = n
           /\ n > 0 => Units(k, n)[1] = k
<1>1. \A i \in 1 .. n : k + i - 1 \in Nat
  OBVIOUS
<1>2. Units(k, n) \in [1 .. n -> Nat]
  BY <1>1 DEF Units
<1>3. Units(k, n) \in Seq(Nat) /\ DOMAIN Units(k, n) = 1 .. n
  BY <1>2
<1>4. Len(Units(k, n)) = n
  BY <1>3
<1>5. n > 0 => Units(k, n)[1] = k
  BY DEF Units
<1> QED
  BY <1>3, <1>4, <1>5

LEMMA CollectProperties ==
    ASSUME NEW b \in Seq(Nat), NEW k \in Nat, NEW n \in Nat
    PROVE  /\ b \o Units(k, n) \in Seq(Nat)
           /\ Len(b \o Units(k, n)) = Len(b) + n
<1>1. Units(k, n) \in Seq(Nat) /\ Len(Units(k, n)) = n
  BY UnitsProperties
<1>2. /\ b \o Units(k, n) \in Seq(Nat)
      /\ Len(b \o Units(k, n)) = Len(b) + Len(Units(k, n))
  BY <1>1, ConcatProperties
<1> QED
  BY <1>1, <1>2

\* Two runs of units that touch make one.
LEMMA UnitsConcat ==
    ASSUME NEW k \in Nat, NEW m \in Nat, NEW n \in Nat
    PROVE  Units(k, m) \o Units(k + m, n) = Units(k, m + n)
<1> DEFINE s == Units(k, m)
           t == Units(k + m, n)
           u == Units(k, m + n)
<1>1. s \in Seq(Nat) /\ Len(s) = m /\ t \in Seq(Nat) /\ Len(t) = n
  BY UnitsProperties
<1>2. u \in Seq(Nat) /\ Len(u) = m + n
  BY UnitsProperties
<1>3. s \o t \in Seq(Nat) /\ Len(s \o t) = m + n
  BY <1>1
<1>4. ASSUME NEW i \in 1 .. Len(u) PROVE (s \o t)[i] = u[i]
  <2> HIDE DEF s, t, u
  <2>1. i \in Nat /\ i >= 1 /\ i <= m + n
    BY <1>2
  <2>2. u[i] = k + i - 1
    BY <2>1 DEF u, Units
  <2>3. CASE i <= m
    <3>1. (s \o t)[i] = s[i]
      BY <1>1, <2>1, <2>3
    <3>2. s[i] = k + i - 1
      BY <2>1, <2>3 DEF s, Units
    <3> QED
      BY <2>2, <3>1, <3>2
  <2>4. CASE i > m
    <3>1. (s \o t)[i] = t[i - m]
      BY <1>1, <2>1, <2>4
    <3>2. t[i - m] = k + m + (i - m) - 1
      BY <2>1, <2>4 DEF t, Units
    <3>3. k + m + (i - m) - 1 = k + i - 1
      BY <2>1
    <3> QED
      BY <2>2, <3>1, <3>2, <3>3
  <2>5. i <= m \/ i > m
    BY <2>1
  <2> QED
    BY <2>3, <2>4, <2>5
<1>5. s \o t = u
  BY <1>2, <1>3, <1>4, SeqEqual
<1> QED
  BY <1>5

LEMMA InitOK == Init => IInv
<1> SUFFICES ASSUME Init PROVE IInv
  OBVIOUS
<1>1. TypeOK
  BY AcquisitionAssumption DEF Init, TypeOK
<1>2. StartOK
  BY DEF Init, StartOK
<1>3. ASSUME NEW c \in Channels PROVE ChannelOK(c)
  BY <1>3, AcquisitionAssumption
     DEF Init, ChannelOK, BufferOK, BlocksOK, OrderOK, CountOK, InHand
<1> QED
  BY <1>1, <1>2, <1>3 DEF IInv

LEMMA TypeStep ==
    ASSUME TypeOK, [Next]_vars
    PROVE  TypeOK'
<1> USE AcquisitionAssumption DEF TypeOK, mainVars, readVars, dataVars
<1>1. ASSUME NEW ch \in Channels, RegisterCallBack(ch) PROVE TypeOK'
  BY <1>1 DEF RegisterCallBack
<1>2. ASSUME OpenDevice PROVE TypeOK'
  BY <1>2 DEF OpenDevice
<1>3. ASSUME FirstCommand PROVE TypeOK'
  BY <1>3 DEF FirstCommand
<1>4. ASSUME StopCallbackFunc \/ CloseDevice PROVE TypeOK'
  BY <1>4 DEF StopCallbackFunc, CloseDevice
<1>5. ASSUME DeleteDevice PROVE TypeOK'
  BY <1>5 DEF DeleteDevice
<1>6. ASSUME NEW ch \in Channels, BeginBlock(ch) PROVE TypeOK'
  <2>1. CASE isRunning
    <3>1. buffer' = [buffer EXCEPT ![ch] = <<>>] /\ rpc' = [rpc EXCEPT ![ch] = "read"]
      BY <1>6, <2>1 DEF BeginBlock
    <3>2. buffer' \in [Channels -> Seq(Nat)]
      BY <3>1
    <3>3. \A c \in Channels : Len(buffer'[c]) <= BLOCK
      BY <3>1
    <3> QED
      BY <1>6, <3>1, <3>2, <3>3 DEF BeginBlock
  <2>2. CASE ~isRunning
    BY <1>6, <2>2 DEF BeginBlock
  <2> QED
    BY <2>1, <2>2
<1>7. ASSUME NEW ch \in Channels, ReadSome(ch) PROVE TypeOK'
  <2>1. PICK n \in 1 .. BLOCK - Len(buffer[ch]) :
            /\ supply' = [supply EXCEPT ![ch] = @ + n]
            /\ buffer' = [buffer EXCEPT ![ch] = @ \o Units(supply[ch], n)]
            /\ rpc' = [rpc EXCEPT ![ch] = IF Len(buffer'[ch]) = BLOCK
                                          THEN "test" ELSE "read"]
    BY <1>7 DEF ReadSome
  <2>a. n \in Nat /\ supply[ch] \in Nat /\ buffer[ch] \in Seq(Nat)
    OBVIOUS
  <2>3. /\ buffer[ch] \o Units(supply[ch], n) \in Seq(Nat)
        /\ Len(buffer[ch] \o Units(supply[ch], n)) = Len(buffer[ch]) + n
    BY <2>a, CollectProperties, Zenon
  <2>4. Len(buffer[ch]) + n <= BLOCK
    OBVIOUS
  <2>5. buffer' \in [Channels -> Seq(Nat)] /\ \A c \in Channels : Len(buffer'[c]) <= BLOCK
    BY <2>1, <2>3, <2>4
  <2>6. supply' \in [Channels -> Nat]
    BY <2>1, <2>a
  <2>7. rpc' \in [Channels -> {"none", "check", "read", "test", "call", "exited"}]
    BY <2>1
  <2> QED
    BY <1>7, <2>5, <2>6, <2>7 DEF ReadSome
<1>8. ASSUME NEW ch \in Channels, ReadFails(ch) PROVE TypeOK'
  <2>1. PICK n \in 0 .. BLOCK : supply' = [supply EXCEPT ![ch] = @ + n]
    BY <1>8 DEF ReadFails
  <2>2. supply' \in [Channels -> Nat]
    BY <2>1
  <2>3. /\ failures' \in [Channels -> Nat]
        /\ rpc' \in [Channels -> {"none", "check", "read", "test", "call", "exited"}]
        /\ lossy' \in [Channels -> BOOLEAN]
    BY <1>8 DEF ReadFails
  <2>4. UNCHANGED <<main, pdev, isRunning, Callback, buffer, queue, passed>>
    BY <1>8 DEF ReadFails
  <2> QED
    BY <2>2, <2>3, <2>4
<1>9. ASSUME NEW ch \in Channels, ReadCrashes(ch) \/ CallCrashes(ch) PROVE TypeOK'
  BY <1>9 DEF ReadCrashes, CallCrashes
<1>10. ASSUME NEW ch \in Channels, TestCallback(ch) PROVE TypeOK'
  BY <1>10 DEF TestCallback
<1>11. ASSUME NEW ch \in Channels, CallCallback(ch) PROVE TypeOK'
  <2>1. rpc' \in [Channels -> {"none", "check", "read", "test", "call", "exited"}]
    BY <1>11 DEF CallCallback
  <2>2. lossy' \in [Channels -> BOOLEAN]
    BY <1>11 DEF CallCallback, Full
  <2>3. queue' \in [Channels -> Seq(Seq(Nat))]
    BY <1>11 DEF CallCallback
  <2>4. \A c \in Channels : Len(queue'[c]) <= MAX_BUFFER_DEPTH + 1
    BY <1>11 DEF CallCallback, Full
  <2> QED
    BY <1>11, <2>1, <2>2, <2>3, <2>4 DEF CallCallback
<1>12. ASSUME NEW ch \in Channels, TakeBlock(ch) PROVE TypeOK'
  <2>1. Head(queue[ch]) \in Seq(Nat) /\ Tail(queue[ch]) \in Seq(Seq(Nat))
    BY <1>12 DEF TakeBlock
  <2>2. Len(Tail(queue[ch])) <= MAX_BUFFER_DEPTH + 1
    BY <1>12 DEF TakeBlock
  <2>3. queue' \in [Channels -> Seq(Seq(Nat))]
    BY <1>12, <2>1 DEF TakeBlock
  <2>4. \A c \in Channels : Len(queue'[c]) <= MAX_BUFFER_DEPTH + 1
    BY <1>12, <2>2 DEF TakeBlock
  <2>5. passed' \in [Channels -> Seq(Seq(Nat))]
    BY <1>12, <2>1 DEF TakeBlock
  <2>6. lossy' \in [Channels -> BOOLEAN]
    BY <1>12 DEF TakeBlock, HasHead
  <2> QED
    BY <1>12, <2>3, <2>4, <2>5, <2>6 DEF TakeBlock
<1>13. ASSUME UNCHANGED vars PROVE TypeOK'
  BY <1>13 DEF vars
<1> QED
  BY <1>1, <1>2, <1>3, <1>4, <1>5, <1>6, <1>7, <1>8, <1>9, <1>10, <1>11, <1>12, <1>13
     DEF Next, Control, ReadThread

\* There is no read thread before OpenDevice starts them, and it is not called again.
LEMMA StartStep ==
    ASSUME TypeOK, StartOK, [Next]_vars
    PROVE  StartOK'
<1> USE DEF TypeOK, StartOK, mainVars, readVars, dataVars
<1>1. ASSUME Control PROVE StartOK'
  BY <1>1 DEF Control, RegisterCallBack, OpenDevice, FirstCommand, StopCallbackFunc,
              CloseDevice, DeleteDevice
<1>2. ASSUME NEW ch \in Channels, ReadThread(ch) PROVE StartOK'
  <2>1. main # "start"
    BY <1>2 DEF ReadThread, BeginBlock, ReadSome, ReadFails, ReadCrashes, TestCallback,
                CallCallback, CallCrashes
  <2>2. main' # "start"
    BY <1>2, <2>1 DEF ReadThread, BeginBlock, ReadSome, ReadFails, ReadCrashes,
                      TestCallback, CallCallback, CallCrashes
  <2> QED
    BY <2>2
<1>3. ASSUME NEW ch \in Channels, TakeBlock(ch) PROVE StartOK'
  BY <1>3 DEF TakeBlock
<1>4. ASSUME UNCHANGED vars PROVE StartOK'
  BY <1>4 DEF vars
<1> QED
  BY <1>1, <1>2, <1>3, <1>4 DEF Next

-----------------------------------------------------------------------------
(***************************************************************************)
(* The stream of one channel, action by action.                            *)
(***************************************************************************)
ChannelVars(c) == <<rpc[c], buffer[c], supply[c], queue[c], passed[c], lossy[c]>>

LEMMA ChannelUnchanged ==
    ASSUME NEW c \in Channels, ChannelOK(c), UNCHANGED ChannelVars(c)
    PROVE  ChannelOK(c)'
<1> USE DEF ChannelVars
<1>1. BufferOK(c)'
  BY DEF ChannelOK, BufferOK
<1>2. BlocksOK(c)'
  BY DEF ChannelOK, BlocksOK
<1>3. InHand(c)' = InHand(c)
  BY DEF InHand
<1>4. OrderOK(c)'
  BY <1>3 DEF ChannelOK, OrderOK
<1>5. CountOK(c)'
  BY <1>3 DEF ChannelOK, CountOK
<1> QED
  BY <1>1, <1>2, <1>4, <1>5 DEF ChannelOK

\* The thread has nothing in its hands before and after: only the bound of the
\* stream moves, and the mark that something was lost may be set.
LEMMA BeginBlockChannel ==
    ASSUME NEW c \in Channels, TypeOK, ChannelOK(c), BeginBlock(c)
    PROVE  ChannelOK(c)'
<1>1. UNCHANGED <<supply, queue, passed, lossy>>
  BY DEF BeginBlock, dataVars
<1>2. InHand(c) = 0
  BY DEF BeginBlock, InHand
<1>3. CASE isRunning
  <2>1. rpc'[c] = "read" /\ buffer'[c] = <<>>
    BY <1>3 DEF BeginBlock, TypeOK
  <2>2. InHand(c)' = 0
    BY <2>1 DEF InHand
  <2>3. supply[c] \in Nat /\ Units(supply[c], 0) = <<>>
    BY DEF TypeOK, Units
  <2>4. BufferOK(c)'
    BY <1>1, <2>1, <2>3, AcquisitionAssumption DEF BufferOK
  <2> QED
    BY <1>1, <1>2, <2>2, <2>4 DEF ChannelOK, BlocksOK, OrderOK, CountOK
<1>4. CASE ~isRunning
  <2>1. rpc'[c] = "exited"
    BY <1>4 DEF BeginBlock, TypeOK
  <2>2. InHand(c)' = 0 /\ BufferOK(c)'
    BY <2>1 DEF InHand, BufferOK
  <2> QED
    BY <1>1, <1>2, <2>2 DEF ChannelOK, BlocksOK, OrderOK, CountOK
<1> QED
  BY <1>3, <1>4

LEMMA ReadSomeChannel ==
    ASSUME NEW c \in Channels, TypeOK, ChannelOK(c), ReadSome(c)
    PROVE  ChannelOK(c)'
<1>1. rpc[c] = "read" /\ UNCHANGED <<queue, passed, lossy>>
  BY DEF ReadSome, dataVars
<1>2. PICK n \in 1 .. BLOCK - Len(buffer[c]) :
          /\ supply' = [supply EXCEPT ![c] = @ + n]
          /\ buffer' = [buffer EXCEPT ![c] = @ \o Units(supply[c], n)]
          /\ rpc' = [rpc EXCEPT ![c] = IF Len(buffer'[c]) = BLOCK THEN "test" ELSE "read"]
  BY DEF ReadSome
<1> DEFINE m == Len(buffer[c])
           k == supply[c] - m
<1>3. /\ n \in Nat /\ m \in Nat /\ k \in Nat /\ supply[c] = k + m
      /\ buffer[c] = Units(k, m) /\ buffer[c] \in Seq(Nat) /\ m + n <= BLOCK
  BY <1>1, AcquisitionAssumption DEF ChannelOK, BufferOK, TypeOK
<1>4. supply'[c] = k + (m + n)
  BY <1>2, <1>3 DEF TypeOK
<1>a. buffer'[c] = buffer[c] \o Units(supply[c], n)
  BY <1>2 DEF TypeOK
<1>b. rpc'[c] = IF Len(buffer'[c]) = BLOCK THEN "test" ELSE "read"
  BY <1>2 DEF TypeOK
<1> HIDE DEF m, k
<1>5. Units(k, m) \o Units(k + m, n) = Units(k, m + n)
  BY <1>3, UnitsConcat, Zenon
<1>6. buffer'[c] = Units(k, m + n)
  BY <1>3, <1>a, <1>5, Zenon
<1>7. Len(buffer'[c]) = m + n
  <2>1. m + n \in Nat
    BY <1>3
  <2> QED
    BY <1>3, <1>6, <2>1, UnitsProperties, Zenon
<1>8. InHand(c) = m /\ InHand(c)' = m + n
  BY <1>1, <1>b, <1>7 DEF InHand, m
<1>9. BufferOK(c)'
  <2>1. m + n <= k + (m + n) /\ k + (m + n) - (m + n) = k
    BY <1>3
  <2>2. Len(buffer'[c]) <= supply'[c] /\ supply'[c] - Len(buffer'[c]) = k
    BY <1>3, <1>4, <1>7, <2>1
  <2>3. rpc'[c] = "read" => Len(buffer'[c]) < BLOCK
    <3>1. rpc'[c] = "read" => m + n # BLOCK
      BY <1>b, <1>7
    <3>2. m + n # BLOCK => m + n < BLOCK
      BY <1>3, AcquisitionAssumption
    <3> QED
      BY <3>1, <3>2, <1>7, Zenon
  <2>4. rpc'[c] # "read" => Len(buffer'[c]) = BLOCK
    BY <1>b
  <2> QED
    BY <1>6, <1>7, <2>2, <2>3, <2>4 DEF BufferOK
<1>10. supply'[c] - InHand(c)' = supply[c] - InHand(c)
  BY <1>3, <1>4, <1>8
<1>11. BlocksOK(c)' /\ OrderOK(c)'
  BY <1>1, <1>10 DEF ChannelOK, BlocksOK, OrderOK
<1>12. CountOK(c)'
  <2> DEFINE sum == BLOCK * (Len(passed[c]) + Len(queue[c]))
  <2>1. Len(passed[c]) \in Nat /\ Len(queue[c]) \in Nat
    BY DEF TypeOK
  <2>2. sum \in Nat
    <3>1. BLOCK \in Nat
      BY AcquisitionAssumption
    <3>2. Len(passed[c]) + Len(queue[c]) \in Nat
      BY DEF TypeOK
    <3> QED
      BY <3>1, <3>2, ProductIsNat, Zenon
  <2>3. ~lossy[c] => supply[c] = sum + InHand(c)
    BY DEF ChannelOK, CountOK
  <2> HIDE DEF sum
  <2>4. ~lossy[c] => supply'[c] = sum + InHand(c)'
    BY <1>3, <1>4, <1>8, <2>2, <2>3
  <2> QED
    BY <1>1, <2>4 DEF CountOK, sum
<1> QED
  BY <1>9, <1>11, <1>12 DEF ChannelOK

LEMMA ReadFailsChannel ==
    ASSUME NEW c \in Channels, TypeOK, ChannelOK(c), ReadFails(c)
    PROVE  ChannelOK(c)'
<1>1. UNCHANGED <<queue, passed>>
  BY DEF ReadFails, dataVars
<1>2. rpc'[c] = "check" /\ lossy'[c] = TRUE
  BY DEF ReadFails, TypeOK
<1>3. InHand(c)' = 0 /\ BufferOK(c)' /\ CountOK(c)'
  BY <1>2 DEF InHand, BufferOK, CountOK
<1>4. PICK n \in 0 .. BLOCK : supply' = [supply EXCEPT ![c] = @ + n]
  BY DEF ReadFails
<1>5. supply'[c] = supply[c] + n /\ n \in Nat /\ supply[c] \in Nat
  BY <1>4 DEF TypeOK
<1>6. InHand(c) \in Nat
  BY DEF InHand, TypeOK
<1>7. \A x \in Nat : x < supply[c] - InHand(c) => x < supply'[c] - InHand(c)'
  BY <1>3, <1>5, <1>6
<1>8. \A i \in 1 .. Len(passed[c]) : passed[c][i][1] \in Nat
  BY DEF ChannelOK, BlocksOK, Whole
<1>9. \A i \in 1 .. Len(queue[c]) : queue[c][i][1] \in Nat
  BY DEF ChannelOK, BlocksOK, Whole
<1>10. OrderOK(c)'
  BY <1>1, <1>7, <1>8, <1>9 DEF ChannelOK, OrderOK
<1> QED
  BY <1>1, <1>3, <1>10 DEF ChannelOK, BlocksOK

LEMMA TestCallbackChannel ==
    ASSUME NEW c \in Channels, TypeOK, ChannelOK(c), TestCallback(c)
    PROVE  ChannelOK(c)'
<1>1. rpc[c] = "test" /\ UNCHANGED <<buffer, supply, queue, passed>>
  BY DEF TestCallback, dataVars
<1>2. Len(buffer[c]) = BLOCK /\ InHand(c) = BLOCK
  BY <1>1 DEF ChannelOK, BufferOK, InHand
<1>3. CASE Callback[c]
  <2>1. rpc'[c] = "call" /\ lossy'[c] = lossy[c]
    BY <1>3 DEF TestCallback, TypeOK
  <2>2. InHand(c)' = InHand(c)
    BY <1>1, <2>1 DEF InHand
  <2>3. BufferOK(c)'
    BY <1>1, <2>1 DEF ChannelOK, BufferOK
  <2> QED
    BY <1>1, <2>1, <2>2, <2>3 DEF ChannelOK, BlocksOK, OrderOK, CountOK
<1>4. CASE ~Callback[c]
  <2>1. rpc'[c] = "check" /\ lossy'[c]
    BY <1>4 DEF TestCallback, TypeOK
  <2>2. InHand(c)' = 0 /\ BufferOK(c)' /\ CountOK(c)'
    BY <2>1 DEF InHand, BufferOK, CountOK
  <2>3. \A x \in Nat : x < supply[c] - InHand(c) => x < supply'[c] - InHand(c)'
    BY <1>1, <1>2, <2>2, AcquisitionAssumption DEF TypeOK
  <2>4. /\ \A i \in 1 .. Len(passed[c]) : passed[c][i][1] \in Nat
        /\ \A i \in 1 .. Len(queue[c]) : queue[c][i][1] \in Nat
    BY DEF ChannelOK, BlocksOK, Whole
  <2>5. OrderOK(c)'
    BY <1>1, <2>3, <2>4 DEF ChannelOK, OrderOK
  <2> QED
    BY <1>1, <2>2, <2>5 DEF ChannelOK, BlocksOK
<1> QED
  BY <1>3, <1>4

LEMMA CallCallbackChannel ==
    ASSUME NEW c \in Channels, TypeOK, ChannelOK(c), CallCallback(c)
    PROVE  ChannelOK(c)'
<1>1. rpc[c] = "call" /\ UNCHANGED <<buffer, supply, passed>>
  BY DEF CallCallback
<1>2. rpc'[c] = "check"
  BY DEF CallCallback, TypeOK
<1>3. InHand(c) = BLOCK /\ InHand(c)' = 0 /\ BufferOK(c)'
  BY <1>1, <1>2 DEF ChannelOK, BufferOK, InHand
<1> DEFINE b == buffer[c]
           k == supply[c] - BLOCK
<1>4. b = Units(k, BLOCK) /\ k \in Nat /\ b \in Seq(Nat) /\ supply[c] = k + BLOCK
  BY <1>1, AcquisitionAssumption DEF ChannelOK, BufferOK, TypeOK
<1>5. b[1] = k /\ Whole(b)
  <2>1. BLOCK \in Nat /\ BLOCK > 0
    BY AcquisitionAssumption
  <2>2. Units(k, BLOCK)[1] = k
    BY <1>4, <2>1, UnitsProperties, Zenon
  <2>3. b[1] = k
    BY <1>4, <2>2, Zenon
  <2> QED
    BY <1>4, <2>3, Zenon DEF Whole
<1>6. /\ \A i \in 1 .. Len(passed[c]) : passed[c][i][1] \in Nat /\ passed[c][i][1] < k
      /\ \A i \in 1 .. Len(queue[c]) : queue[c][i][1] \in Nat /\ queue[c][i][1] < k
  BY <1>3 DEF ChannelOK, BlocksOK, Whole, OrderOK
<1>7. /\ k < supply'[c] - InHand(c)'
      /\ \A x \in Nat : x < k => x < supply'[c] - InHand(c)'
  BY <1>1, <1>3, <1>4, AcquisitionAssumption
<1>8. CASE Full(c)
  <2>1. queue' = queue /\ lossy'[c]
    BY <1>8 DEF CallCallback, TypeOK
  <2>2. OrderOK(c)'
    BY <1>1, <1>6, <1>7, <2>1 DEF ChannelOK, OrderOK
  <2> QED
    BY <1>1, <1>3, <2>1, <2>2 DEF ChannelOK, BlocksOK, CountOK
<1>9. CASE ~Full(c)
  <2>1. queue'[c] = Append(queue[c], b) /\ lossy'[c] = lossy[c]
    BY <1>9 DEF CallCallback, TypeOK
  <2>2. queue[c] \in Seq(Seq(Nat))
    BY DEF TypeOK
  <2> HIDE DEF b, k
  <2> DEFINE q == queue[c]
  <2>3. /\ Len(queue'[c]) = Len(q) + 1
        /\ Len(q) \in Nat
        /\ \A i \in 1 .. Len(q) : queue'[c][i] = q[i]
        /\ queue'[c][Len(q) + 1] = b
    BY <1>4, <2>1, <2>2
  <2>4. BlocksOK(c)'
    BY <1>1, <1>5, <2>3 DEF ChannelOK, BlocksOK
  <2>5. OrderOK(c)'
    <3> DEFINE r == queue'[c]
               l == Len(q) + 1
    <3>1. /\ Len(r) = l /\ l \in Nat /\ r[l][1] = k
          /\ \A j \in 1 .. l : j # l => j \in 1 .. Len(q) /\ r[j] = q[j]
      BY <1>5, <2>3
    <3>2. \A j \in 1 .. Len(q) : q[j][1] \in Nat /\ q[j][1] < k
      BY <1>6
    <3> HIDE DEF r, l
    <3>3. ASSUME NEW j \in 1 .. Len(r) PROVE r[j][1] \in Nat /\ r[j][1] <= k
      <4>1. CASE j = l
        BY <1>4, <3>1, <4>1
      <4>2. CASE j # l
        BY <1>4, <3>1, <3>2, <4>2
      <4> QED
        BY <4>1, <4>2
    <3>4. ASSUME NEW i \in 1 .. Len(r), NEW j \in 1 .. Len(r), i < j
          PROVE  r[i][1] < r[j][1]
      <4>1. i \in 1 .. Len(q) /\ r[i] = q[i]
        BY <2>3, <3>1, <3>4 DEF l
      <4>2. CASE j = l
        BY <3>1, <3>2, <4>1, <4>2
      <4>3. CASE j # l
        <5>1. j \in 1 .. Len(q) /\ r[j] = q[j]
          BY <3>1, <4>3
        <5> QED
          BY <3>4, <4>1, <5>1 DEF ChannelOK, OrderOK
      <4> QED
        BY <4>2, <4>3
    <3>5. ASSUME NEW i \in 1 .. Len(passed[c]), NEW j \in 1 .. Len(r)
          PROVE  passed[c][i][1] < r[j][1]
      <4>1. CASE j = l
        BY <1>6, <3>1, <4>1
      <4>2. CASE j # l
        <5>1. j \in 1 .. Len(q) /\ r[j] = q[j]
          BY <3>1, <4>2
        <5> QED
          BY <5>1 DEF ChannelOK, OrderOK
      <4> QED
        BY <4>1, <4>2
    <3>6. \A i \in 1 .. Len(r) : r[i][1] < supply'[c] - InHand(c)'
      BY <1>1, <1>3, <1>4, <3>3, AcquisitionAssumption
    <3>7. \A i \in 1 .. Len(passed[c]) :
             /\ passed[c][i][1] < supply'[c] - InHand(c)'
             /\ \A j \in 1 .. Len(passed[c]) : i < j => passed[c][i][1] < passed[c][j][1]
      BY <1>6, <1>7 DEF ChannelOK, OrderOK
    <3> QED
      BY <1>1, <3>4, <3>5, <3>6, <3>7 DEF OrderOK, r
  <2>6. CountOK(c)'
    <3>1. BLOCK * (Len(passed[c]) + (Len(q) + 1)) = BLOCK * (Len(passed[c]) + Len(q)) + BLOCK
      BY <2>3, AcquisitionAssumption DEF TypeOK
    <3> QED
      BY <1>1, <1>3, <2>1, <2>3, <3>1, AcquisitionAssumption DEF ChannelOK, CountOK, TypeOK
  <2> QED
    BY <1>3, <2>4, <2>5, <2>6 DEF ChannelOK
<1> QED
  BY <1>8, <1>9

LEMMA TakeBlockChannel ==
    ASSUME NEW c \in Channels, TypeOK, ChannelOK(c), TakeBlock(c)
    PROVE  ChannelOK(c)'
<1> DEFINE q == queue[c]
           t == Tail(q)
           h == Head(q)
           p == passed[c]
<1>1. UNCHANGED <<rpc, buffer, supply>>
  BY DEF TakeBlock, readVars
<1>2. InHand(c)' = InHand(c) /\ BufferOK(c)'
  BY <1>1 DEF ChannelOK, BufferOK, InHand
<1>3. q \in Seq(Seq(Nat)) /\ q # <<>> /\ queue'[c] = t /\ p \in Seq(Seq(Nat))
  BY DEF TakeBlock, TypeOK
<1>4. /\ Len(t) \in Nat /\ Len(q) = Len(t) + 1 /\ h = q[1] /\ 1 \in 1 .. Len(q)
      /\ \A i \in 1 .. Len(t) : t[i] = q[i + 1]
  BY <1>3
<1>5. \A i \in 1 .. Len(t) : i + 1 \in 1 .. Len(q) /\ 1 < i + 1
  BY <1>4
<1>6. Whole(h) /\ \A i \in 1 .. Len(t) : Whole(t[i])
  BY <1>4, <1>5 DEF ChannelOK, BlocksOK
<1>7. /\ h[1] < supply[c] - InHand(c)
      /\ \A i \in 1 .. Len(p) : p[i][1] < h[1]
      /\ \A i \in 1 .. Len(t) : h[1] < t[i][1]
      /\ \A i \in 1 .. Len(t) : t[i][1] < supply[c] - InHand(c)
      /\ \A i, j \in 1 .. Len(t) : i < j => t[i][1] < t[j][1]
  <2>1. \A i \in 1 .. Len(q) :
           /\ q[i][1] < supply[c] - InHand(c)
           /\ \A j \in 1 .. Len(q) : i < j => q[i][1] < q[j][1]
    BY DEF ChannelOK, OrderOK
  <2>2. \A i \in 1 .. Len(p) : p[i][1] < q[1][1]
    BY <1>4 DEF ChannelOK, OrderOK
  <2>3. \A i, j \in 1 .. Len(t) : i < j => i + 1 < j + 1
    OBVIOUS
  <2> HIDE DEF q, t, h, p
  <2> QED
    BY <1>4, <1>5, <2>1, <2>2, <2>3
<1>8. CASE HasHead(h)
  <2> DEFINE r == passed'[c]
             l == Len(p) + 1
  <2>1. r = Append(p, h) /\ lossy'[c] = lossy[c]
    BY <1>8 DEF TakeBlock, TypeOK
  <2>2. h \in Seq(Nat)
    BY <1>3
  <2>3. /\ Len(p) \in Nat /\ Len(r) = l /\ l \in Nat /\ r[l] = h
        /\ \A i \in 1 .. l : i # l => i \in 1 .. Len(p) /\ r[i] = p[i]
    BY <1>3, <2>1, <2>2
  <2> HIDE DEF q, t, h, p, r, l
  <2>4. ASSUME NEW i \in 1 .. Len(r) PROVE Whole(r[i]) /\ HasHead(r[i]) /\ r[i][1] <= h[1]
    <3>1. CASE i = l
      BY <1>6, <1>8, <2>3, <3>1 DEF Whole
    <3>2. CASE i # l
      <4>1. i \in 1 .. Len(p) /\ r[i] = p[i]
        BY <2>3, <3>2
      <4>2. Whole(p[i]) /\ HasHead(p[i])
        BY <4>1 DEF ChannelOK, BlocksOK, p
      <4>3. p[i][1] < h[1] /\ p[i][1] \in Nat /\ h[1] \in Nat
        BY <1>6, <1>7, <4>1, <4>2 DEF Whole
      <4> QED
        BY <4>1, <4>2, <4>3
    <3> QED
      BY <3>1, <3>2
  <2>5. BlocksOK(c)'
    BY <1>3, <1>6, <2>4 DEF BlocksOK, r
  <2>6. ASSUME NEW i \in 1 .. Len(r), NEW j \in 1 .. Len(r), i < j
        PROVE  r[i][1] < r[j][1]
    <3>1. i \in 1 .. Len(p) /\ r[i] = p[i]
      BY <2>3, <2>6 DEF l
    <3>2. CASE j = l
      BY <1>7, <2>3, <3>1, <3>2
    <3>3. CASE j # l
      <4>1. j \in 1 .. Len(p) /\ r[j] = p[j]
        BY <2>3, <3>3
      <4> QED
        BY <2>6, <3>1, <4>1 DEF ChannelOK, OrderOK, p
    <3> QED
      BY <3>2, <3>3
  <2>7. InHand(c) \in Nat /\ supply[c] \in Nat
    BY DEF InHand, TypeOK
  <2>8. ASSUME NEW i \in 1 .. Len(r)
        PROVE  /\ r[i][1] < supply[c] - InHand(c)
               /\ \A j \in 1 .. Len(t) : r[i][1] < t[j][1]
    <3>1. r[i][1] \in Nat /\ h[1] \in Nat /\ \A j \in 1 .. Len(t) : t[j][1] \in Nat
      BY <1>6, <2>4 DEF Whole
    <3> QED
      BY <1>7, <2>4, <2>7, <3>1
  <2>9. OrderOK(c)'
    BY <1>1, <1>2, <1>3, <1>7, <2>6, <2>8 DEF OrderOK, r
  <2>10. CountOK(c)'
    <3>1. Len(r) + Len(t) = Len(p) + Len(q)
      BY <1>4, <2>3 DEF l
    <3> QED
      BY <1>1, <1>2, <1>3, <2>1, <3>1, Zenon DEF ChannelOK, CountOK, p, q, r
  <2> QED
    BY <1>2, <2>5, <2>9, <2>10 DEF ChannelOK
<1>9. CASE ~HasHead(h)
  <2>1. passed' = passed /\ lossy'[c]
    BY <1>9 DEF TakeBlock, TypeOK
  <2>2. BlocksOK(c)'
    BY <1>3, <1>6, <2>1 DEF ChannelOK, BlocksOK
  <2>3. \A i \in 1 .. Len(p) : \A j \in 1 .. Len(t) : p[i][1] < t[j][1]
    BY <1>4, <1>5 DEF ChannelOK, OrderOK
  <2>4. OrderOK(c)'
    BY <1>1, <1>2, <1>3, <1>7, <2>1, <2>3 DEF ChannelOK, OrderOK
  <2> QED
    BY <1>2, <2>1, <2>2, <2>4 DEF ChannelOK, CountOK
<1> QED
  BY <1>8, <1>9

LEMMA ChannelStep ==
    ASSUME IInv, [Next]_vars, NEW c \in Channels
    PROVE  ChannelOK(c)'
<1> USE DEF mainVars, readVars, dataVars
<1>a. TypeOK /\ StartOK /\ ChannelOK(c)
  BY DEF IInv
<1>1. CASE OpenDevice
  <2>1. rpc[c] = "none" /\ rpc'[c] \in {"none", "check"}
    BY <1>1, <1>a DEF OpenDevice, StartOK, TypeOK
  <2>2. UNCHANGED <<buffer, supply, queue, passed, lossy>>
    BY <1>1 DEF OpenDevice
  <2>3. InHand(c) = 0 /\ InHand(c)' = 0 /\ BufferOK(c)'
    BY <2>1 DEF InHand, BufferOK
  <2> QED
    BY <1>a, <2>2, <2>3 DEF ChannelOK, BlocksOK, OrderOK, CountOK
<1>2. CASE Control /\ ~OpenDevice
  <2>1. UNCHANGED ChannelVars(c)
    BY <1>2 DEF Control, RegisterCallBack, FirstCommand, StopCallbackFunc, CloseDevice,
                DeleteDevice, ChannelVars
  <2> QED
    BY <1>a, <2>1, ChannelUnchanged
<1>3. ASSUME NEW ch \in Channels, ReadThread(ch) \/ TakeBlock(ch), ch # c
      PROVE  ChannelOK(c)'
  <2>1. UNCHANGED <<rpc[c], buffer[c], supply[c]>>
    BY <1>a, <1>3 DEF ReadThread, BeginBlock, ReadSome, ReadFails, ReadCrashes,
                      TestCallback, CallCallback, CallCrashes, TakeBlock, TypeOK
  <2>2. UNCHANGED <<queue[c], passed[c]>>
    <3>1. CASE ReadThread(ch)
      BY <1>a, <1>3, <3>1 DEF ReadThread, BeginBlock, ReadSome, ReadFails, ReadCrashes,
                              TestCallback, CallCallback, CallCrashes, TypeOK
    <3>2. CASE TakeBlock(ch)
      BY <1>a, <1>3, <3>2 DEF TakeBlock, TypeOK
    <3> QED
      BY <1>3, <3>1, <3>2
  <2>3. UNCHANGED lossy[c]
    BY <1>a, <1>3 DEF ReadThread, BeginBlock, ReadSome, ReadFails, ReadCrashes,
                      TestCallback, CallCallback, CallCrashes, TakeBlock, TypeOK
  <2> QED
    BY <1>a, <2>1, <2>2, <2>3, ChannelUnchanged DEF ChannelVars
<1>4. CASE ReadThread(c)
  <2>1. CASE ReadCrashes(c) \/ CallCrashes(c)
    <3>1. UNCHANGED ChannelVars(c)
      BY <2>1 DEF ReadCrashes, CallCrashes, ChannelVars
    <3> QED
      BY <1>a, <3>1, ChannelUnchanged
  <2> QED
    BY <1>4, <1>a, <2>1, BeginBlockChannel, ReadSomeChannel, ReadFailsChannel,
       TestCallbackChannel, CallCallbackChannel DEF ReadThread
<1>5. CASE TakeBlock(c)
  BY <1>5, <1>a, TakeBlockChannel
<1>6. CASE UNCHANGED vars
  <2>1. UNCHANGED ChannelVars(c)
    BY <1>6 DEF vars, ChannelVars
  <2> QED
    BY <1>a, <2>1, ChannelUnchanged
<1> QED
  BY <1>1, <1>2, <1>3, <1>4, <1>5, <1>6 DEF Next

-----------------------------------------------------------------------------
\* The invariant that carries the rest: what each channel holds, from the board
\* to the data thread, is the stream of the board in its order (ReadThread,
\* DataCX and DataZC, DataDealWB and DataDealNB).
THEOREM Invariance == Spec => []IInv
<1>1. IInv /\ [Next]_vars => IInv'
  BY TypeStep, StartStep, ChannelStep DEF IInv
<1> QED
  BY InitOK, <1>1, PTL DEF Spec

\* Type correctness, and the bounds of the block and of the queue.
THEOREM TypeCorrect == Spec => []TypeOK
<1>1. IInv => TypeOK
  BY DEF IInv
<1> QED
  BY Invariance, <1>1, PTL

\* A block that passes the test of its first word is whole, whatever reads
\* fail, however short they are (ReadThread, DataDealWB, DataDealNB).
THEOREM WholeBlocks == Spec => []PassedIsWhole
<1>1. IInv => PassedIsWhole
  BY DEF IInv, ChannelOK, BlocksOK, Whole, PassedIsWhole
<1> QED
  BY Invariance, <1>1, PTL

\* The blocks pass in the order in which the board sent them (ReadThread, push,
\* wait_and_pop).
THEOREM InOrder == Spec => []PassedInOrder
<1>1. IInv => PassedInOrder
  BY DEF IInv, ChannelOK, OrderOK, PassedInOrder
<1> QED
  BY Invariance, <1>1, PTL

\* Without a failed read, a full queue or a missing callback every unit is
\* accounted for (ReadThread, DataCX, DataZC).
THEOREM AllAccounted == Spec => []NothingLost
<1>1. IInv => NothingLost
  BY DEF IInv, ChannelOK, CountOK, NothingLost
<1> QED
  BY Invariance, <1>1, PTL
=============================================================================
