----------------------- MODULE ThreadSafeQueueProofs -----------------------
(***************************************************************************)
(* Proofs about ThreadSafeQueue, for any number of consumers, any capacity *)
(* and any number of blocks.                                               *)
(***************************************************************************)
EXTENDS ThreadSafeQueue, FiniteSetTheorems, TLAPS

\* The blocks are accepted in the order of their numbers.
LogOK ==
    /\ pushed <= MaxPush
    /\ \A i \in 1 .. Len(log) : log[i] \in 1 .. pushed
    /\ \A i, j \in 1 .. Len(log) : i < j => log[i] < log[j]

IInv == TypeOK /\ NoLostWakeup /\ QueueIsSuffix /\ LogOK

LEMMA ReadyFinite ==
    /\ IsFiniteSet(Ready)
    /\ Cardinality(Ready) \in Nat
<1>1. Ready \subseteq Consumers
  BY DEF Ready
<1>2. IsFiniteSet(Ready)
  BY <1>1, QueueAssumption, FS_Subset
<1> QED
  BY <1>2, FS_CardinalityType

\* A consumer that becomes ready adds one, one that ceases to be takes one away.
LEMMA OneMoreReady ==
    ASSUME NEW c \in Consumers, cpc \in [Consumers -> {"out", "ready", "asleep"}],
           cpc[c] # "ready", cpc' = [cpc EXCEPT ![c] = "ready"]
    PROVE  Cardinality(Ready') = Cardinality(Ready) + 1
<1>1. Ready' = Ready \cup {c} /\ c \notin Ready
  BY DEF Ready
<1> QED
  BY <1>1, ReadyFinite, FS_AddElement

LEMMA OneLessReady ==
    ASSUME NEW c \in Consumers, cpc \in [Consumers -> {"out", "ready", "asleep"}],
           cpc[c] = "ready", NEW pc \in {"out", "asleep"}, cpc' = [cpc EXCEPT ![c] = pc]
    PROVE  Cardinality(Ready') = Cardinality(Ready) - 1
<1>1. Ready' = Ready \ {c} /\ c \in Ready
  BY DEF Ready
<1> QED
  BY <1>1, ReadyFinite, FS_RemoveElement

LEMMA InitOK == Init => IInv
  BY QueueAssumption, ReadyFinite
     DEF Init, IInv, TypeOK, NoLostWakeup, Asleep, QueueIsSuffix, LogOK

LEMMA TypeStep ==
    ASSUME TypeOK, [Next]_vars
    PROVE  TypeOK'
<1> USE QueueAssumption DEF TypeOK
<1>1. ASSUME Push PROVE TypeOK'
  <2>1. CASE Full
    BY <1>1, <2>1 DEF Push
  <2>2. CASE ~Full
    <3>1. cpc' \in [Consumers -> {"out", "ready", "asleep"}]
      BY <1>1, <2>2 DEF Push, NotifyOne
    <3>2. Len(data_queue) + 1 <= MAX_BUFFER_DEPTH + 1
      BY <2>2 DEF Full
    <3>3. /\ pushed' \in Nat /\ data_queue' = Append(data_queue, pushed')
          /\ log' = Append(log, pushed') /\ UNCHANGED <<got, left>>
      BY <1>1, <2>2 DEF Push
    <3>4. data_queue' \in Seq(Nat) /\ Len(data_queue') = Len(data_queue) + 1
      BY <3>3
    <3>5. log' \in Seq(Nat)
      BY <3>3
    <3> QED
      BY <3>1, <3>2, <3>3, <3>4, <3>5
  <2> QED
    BY <2>1, <2>2
<1>2. ASSUME Clear PROVE TypeOK'
  BY <1>2 DEF Clear
<1>3. ASSUME Notify PROVE TypeOK'
  BY <1>3 DEF Notify
<1>4. ASSUME NEW c \in Consumers, WaitAndPop(c) PROVE TypeOK'
  <2>1. CASE CallPop(c) \/ Sleep(c) \/ SpuriousWake(c)
    BY <2>1 DEF CallPop, Sleep, SpuriousWake
  <2>2. CASE Pop(c)
    BY <2>2 DEF Pop, TakeFront
  <2> QED
    BY <1>4, <2>1, <2>2 DEF WaitAndPop
<1>5. ASSUME NEW c \in Consumers, TryPop(c) PROVE TypeOK'
  BY <1>5 DEF TryPop, TakeFront
<1>6. ASSUME UNCHANGED vars PROVE TypeOK'
  BY <1>6 DEF vars
<1> QED
  BY <1>1, <1>2, <1>3, <1>4, <1>5, <1>6 DEF Next

LEMMA WakeupStep ==
    ASSUME IInv, [Next]_vars
    PROVE  NoLostWakeup'
<1> USE ReadyFinite DEF NoLostWakeup
<1>a. TypeOK /\ NoLostWakeup
  BY DEF IInv
<1>1. ASSUME Push PROVE NoLostWakeup'
  <2>1. CASE Full
    BY <1>1, <2>1, <1>a DEF Push, Asleep, Ready
  <2>2. CASE ~Full /\ Asleep = {}
    BY <1>1, <2>2 DEF Push, NotifyOne, Asleep
  <2>3. CASE ~Full /\ Asleep # {}
    <3>1. PICK c \in Asleep : cpc' = [cpc EXCEPT ![c] = "ready"]
      BY <1>1, <2>3 DEF Push, NotifyOne
    <3>2. Cardinality(Ready') = Cardinality(Ready) + 1
      BY <3>1, <1>a, OneMoreReady DEF Asleep, TypeOK
    <3>3. Len(data_queue') = Len(data_queue) + 1 /\ Len(data_queue) \in Nat
      BY <1>1, <2>3, <1>a DEF Push, TypeOK
    <3> QED
      BY <3>2, <3>3, <2>3, <1>a
  <2> QED
    BY <2>1, <2>2, <2>3
<1>2. ASSUME Clear PROVE NoLostWakeup'
  BY <1>2, <1>a DEF Clear, Asleep, Ready
<1>3. ASSUME Notify PROVE NoLostWakeup'
  BY <1>3 DEF Notify, Asleep
<1>4. ASSUME NEW c \in Consumers, CallPop(c) PROVE NoLostWakeup'
  <2>1. Asleep' = Asleep
    BY <1>4, <1>a DEF CallPop, Asleep, TypeOK
  <2>2. Cardinality(Ready') = Cardinality(Ready) + 1
    BY <1>4, <1>a, OneMoreReady DEF CallPop, TypeOK
  <2> QED
    BY <1>4, <1>a, <2>1, <2>2 DEF CallPop, TypeOK
<1>5. ASSUME NEW c \in Consumers, Pop(c) PROVE NoLostWakeup'
  <2>1. Asleep' = Asleep
    BY <1>5, <1>a DEF Pop, Asleep, TypeOK
  <2>2. Cardinality(Ready') = Cardinality(Ready) - 1
    BY <1>5, <1>a, OneLessReady DEF Pop, TypeOK
  <2>3. Len(data_queue') = Len(data_queue) - 1
    BY <1>5, <1>a DEF Pop, TakeFront, TypeOK
  <2> QED
    BY <1>a, <2>1, <2>2, <2>3 DEF TypeOK
<1>6. ASSUME NEW c \in Consumers, Sleep(c) PROVE NoLostWakeup'
  <2>1. Len(data_queue') = 0
    BY <1>6 DEF Sleep
  <2>2. Cardinality(Ready') = Cardinality(Ready) - 1 /\ Cardinality(Ready) # 0
    <3>1. c \in Ready
      BY <1>6 DEF Sleep, Ready
    <3>2. Cardinality(Ready) # 0
      BY <3>1, FS_EmptySet
    <3> QED
      BY <1>6, <3>2, <1>a, OneLessReady DEF Sleep, TypeOK
  <2> QED
    BY <2>1, <2>2
<1>7. ASSUME NEW c \in Consumers, SpuriousWake(c) PROVE NoLostWakeup'
  <2>1. Asleep' \subseteq Asleep
    BY <1>7, <1>a DEF SpuriousWake, Asleep, TypeOK
  <2>2. Cardinality(Ready') = Cardinality(Ready) + 1
    BY <1>7, <1>a, OneMoreReady DEF SpuriousWake, TypeOK
  <2> QED
    BY <1>7, <1>a, <2>1, <2>2 DEF SpuriousWake, TypeOK
<1>8. ASSUME NEW c \in Consumers, TryPop(c) PROVE NoLostWakeup'
  <2>1. Len(data_queue') = Len(data_queue) - 1
    BY <1>8, <1>a DEF TryPop, TakeFront, TypeOK
  <2>2. Asleep' = Asleep /\ Ready' = Ready
    BY <1>8 DEF TryPop, Asleep, Ready
  <2> QED
    BY <1>a, <2>1, <2>2 DEF TypeOK
<1>9. ASSUME UNCHANGED vars PROVE NoLostWakeup'
  BY <1>9, <1>a DEF vars, Asleep, Ready
<1> QED
  BY <1>1, <1>2, <1>3, <1>4, <1>5, <1>6, <1>7, <1>8, <1>9 DEF Next, WaitAndPop

\* What is behind the front of a suffix is a suffix.
LEMMA TailIsSuffix ==
    ASSUME NEW S, NEW q \in Seq(S), NEW p \in Seq(S), NEW k \in Nat, q # <<>>,
           k + Len(q) = Len(p),
           \A i \in 1 .. Len(q) : q[i] = p[k + i]
    PROVE  /\ k + 1 + Len(Tail(q)) = Len(p)
           /\ \A i \in 1 .. Len(Tail(q)) : Tail(q)[i] = p[k + 1 + i]
<1>1. /\ Len(q) \in Nat /\ Len(Tail(q)) = Len(q) - 1
      /\ \A i \in 1 .. Len(q) - 1 : Tail(q)[i] = q[i + 1]
  OBVIOUS
<1>2. ASSUME NEW i \in 1 .. Len(q) - 1 PROVE q[i + 1] = p[k + 1 + i]
  <2>1. i + 1 \in 1 .. Len(q) /\ k + (i + 1) = k + 1 + i
    BY <1>1
  <2> QED
    BY <2>1
<1> QED
  BY <1>1, <1>2

LEMMA SuffixStep ==
    ASSUME IInv, [Next]_vars
    PROVE  QueueIsSuffix' /\ LogOK'
<1> USE QueueAssumption DEF QueueIsSuffix, LogOK
<1>a. TypeOK /\ QueueIsSuffix /\ LogOK
  BY DEF IInv
<1>c. UNCHANGED <<log, pushed>> => LogOK'
  BY <1>a
<1> USE DEF TypeOK
<1>1. ASSUME Push PROVE QueueIsSuffix' /\ LogOK'
  <2>1. CASE Full
    BY <1>1, <2>1, <1>a DEF Push
  <2>2. CASE ~Full
    <3> DEFINE n == pushed + 1
    <3>1. /\ data_queue' = Append(data_queue, n)
          /\ log' = Append(log, n)
          /\ left' = left /\ pushed' = n /\ n <= MaxPush
      BY <1>1, <2>2, <1>a DEF Push
    <3>2. QueueIsSuffix'
      <4>1. Len(data_queue') = Len(data_queue) + 1 /\ Len(log') = Len(log) + 1
        BY <3>1, <1>a
      <4>2. ASSUME NEW i \in 1 .. Len(data_queue') PROVE data_queue'[i] = log'[left' + i]
        <5>1. CASE i = Len(data_queue')
          <6>1. i = Len(data_queue) + 1 /\ left + i = Len(log) + 1
            BY <4>1, <5>1, <1>a
          <6>2. data_queue'[Len(data_queue) + 1] = n /\ log'[Len(log) + 1] = n
            BY <3>1, <1>a
          <6> QED
            BY <3>1, <6>1, <6>2
        <5>2. CASE i # Len(data_queue')
          <6>1. i \in 1 .. Len(data_queue) /\ left + i \in 1 .. Len(log)
            <7>1. i \in 1 .. Len(data_queue)
              BY <4>1, <5>2, <1>a
            <7>2. left \in Nat /\ Len(data_queue) \in Nat /\ left + Len(data_queue) = Len(log)
              BY <1>a
            <7> QED
              BY <7>1, <7>2
          <6> QED
            BY <3>1, <6>1, <1>a
        <5> QED
          BY <5>1, <5>2
      <4> QED
        <5>1. left' + Len(data_queue') = Len(log')
          BY <3>1, <4>1, <1>a
        <5> QED
          BY <4>2, <5>1
    <3>3. LogOK'
      <4>1. /\ Len(log) \in Nat /\ Len(log') = Len(log) + 1 /\ log'[Len(log) + 1] = n
            /\ \A i \in 1 .. Len(log) : log'[i] = log[i]
            /\ pushed \in Nat
        BY <3>1, <1>a
      <4>2. \A i \in 1 .. Len(log) : log[i] \in 1 .. pushed
        BY <1>a
      <4>3. \A i, j \in 1 .. Len(log) : i < j => log[i] < log[j]
        BY <1>a
      <4>4. ASSUME NEW i \in 1 .. Len(log')
            PROVE  i \in 1 .. Len(log) \/ i = Len(log) + 1
        BY <4>1
      <4>5. ASSUME NEW i \in 1 .. Len(log') PROVE log'[i] \in 1 .. n
        BY <4>1, <4>2, <4>4
      <4>6. ASSUME NEW i \in 1 .. Len(log'), NEW j \in 1 .. Len(log'), i < j
            PROVE  log'[i] < log'[j]
        <5>1. i \in 1 .. Len(log) /\ log'[i] = log[i] /\ log[i] \in 1 .. pushed
          BY <4>1, <4>2, <4>6
        <5>2. CASE j \in 1 .. Len(log)
          BY <4>1, <4>3, <4>6, <5>1, <5>2
        <5>3. CASE j = Len(log) + 1
          BY <4>1, <5>1, <5>3
        <5> QED
          BY <4>4, <5>2, <5>3
      <4> QED
        BY <3>1, <4>5, <4>6
    <3> QED
      BY <3>2, <3>3
  <2> QED
    BY <2>1, <2>2
<1>b. ASSUME NEW c \in Consumers, TakeFront(c), data_queue # <<>>, log' = log, pushed' = pushed
      PROVE  QueueIsSuffix' /\ LogOK'
  <2>1. /\ data_queue \in Seq(Nat) /\ log \in Seq(Nat) /\ left \in Nat
        /\ left + Len(data_queue) = Len(log)
        /\ \A i \in 1 .. Len(data_queue) : data_queue[i] = log[left + i]
    BY <1>a
  <2>2. data_queue' = Tail(data_queue) /\ left' = left + 1
    BY <1>b DEF TakeFront
  <2>3. /\ left + 1 + Len(Tail(data_queue)) = Len(log)
        /\ \A i \in 1 .. Len(Tail(data_queue)) : Tail(data_queue)[i] = log[left + 1 + i]
    BY <1>b, <2>1, TailIsSuffix
  <2>4. QueueIsSuffix'
    BY <1>b, <2>2, <2>3 DEF QueueIsSuffix
  <2>5. LogOK'
    BY <1>b, <1>c
  <2> QED
    BY <2>4, <2>5
<1>2. ASSUME Clear PROVE QueueIsSuffix' /\ LogOK'
  BY <1>2, <1>a DEF Clear
<1>3. ASSUME Notify PROVE QueueIsSuffix' /\ LogOK'
  BY <1>3, <1>a DEF Notify
<1>4. ASSUME NEW c \in Consumers, WaitAndPop(c) PROVE QueueIsSuffix' /\ LogOK'
  <2>1. CASE CallPop(c) \/ Sleep(c) \/ SpuriousWake(c)
    BY <2>1, <1>a DEF CallPop, Sleep, SpuriousWake
  <2>2. CASE Pop(c)
    BY <2>2, <1>b DEF Pop
  <2> QED
    BY <1>4, <2>1, <2>2 DEF WaitAndPop
<1>5. ASSUME NEW c \in Consumers, TryPop(c) PROVE QueueIsSuffix' /\ LogOK'
  BY <1>5, <1>b DEF TryPop
<1>6. ASSUME UNCHANGED vars PROVE QueueIsSuffix' /\ LogOK'
  BY <1>6, <1>a DEF vars
<1> QED
  BY <1>1, <1>2, <1>3, <1>4, <1>5, <1>6 DEF Next

THEOREM Invariance == Spec => []IInv
<1>1. IInv /\ [Next]_vars => IInv'
  <2> SUFFICES ASSUME IInv, [Next]_vars PROVE IInv'
    OBVIOUS
  <2>1. TypeOK'
    BY TypeStep DEF IInv
  <2> QED
    BY <2>1, WakeupStep, SuffixStep DEF IInv
<1> QED
  BY InitOK, <1>1, PTL DEF Spec

\* The queue never holds more than one block beyond MAX_BUFFER_DEPTH.
THEOREM TypeCorrect == Spec => []TypeOK
<1>1. IInv => TypeOK
  BY DEF IInv
<1> QED
  BY Invariance, <1>1, PTL

\* notify_one under the lock loses no wakeup, for any number of consumers.
THEOREM WakeupsSafe == Spec => []NoLostWakeup
<1>1. IInv => NoLostWakeup
  BY DEF IInv
<1> QED
  BY Invariance, <1>1, PTL

\* No accepted block is lost, doubled or overtaken inside the queue.
THEOREM NothingLostInside == Spec => []QueueIsSuffix
<1>1. IInv => QueueIsSuffix
  BY DEF IInv
<1> QED
  BY Invariance, <1>1, PTL
\* A step of the queue is a step of the log or leaves the log alone.
LEMMA StepImplements ==
    ASSUME IInv, [Next]_vars
    PROVE  [Fifo!Next]_(Fifo!vars)
<1> DEFINE waiting == {c \in Consumers : cpc[c] # "out"}
<1>a. /\ TypeOK /\ QueueIsSuffix /\ LogOK
      /\ Len(log) - left = Len(data_queue)
  BY DEF IInv, TypeOK, QueueIsSuffix
<1>b. Len(data_queue) \in Nat /\ cpc \in [Consumers -> {"out", "ready", "asleep"}]
  BY <1>a DEF TypeOK
<1>1. CASE Push
  <2>1. waiting' = waiting
    BY <1>1, <1>b DEF Push, NotifyOne, Asleep
  <2>2. CASE Full
    <3>1. Fifo!Full
      BY <1>a, <1>b, <2>2, QueueAssumption DEF Fifo!Full, Fifo!Backlog, Full
    <3>2. Fifo!Put
      BY <1>1, <2>1, <2>2, <3>1 DEF Push, Fifo!Put
    <3> QED
      BY <3>2 DEF Fifo!Next
  <2>3. CASE ~Full
    <3>1. ~Fifo!Full
      BY <1>a, <1>b, <2>3, QueueAssumption DEF Fifo!Full, Fifo!Backlog, Full
    <3>2. Fifo!Put
      BY <1>1, <2>1, <2>3, <3>1 DEF Push, Fifo!Put
    <3> QED
      BY <3>2 DEF Fifo!Next
  <2> QED
    BY <2>2, <2>3
<1>2. CASE Clear
  BY <1>2, <1>a, <1>b DEF Clear, Fifo!Next, Fifo!Discard, TypeOK
<1>3. CASE Notify
  <2>1. waiting' = waiting
    BY <1>3, <1>b DEF Notify
  <2> QED
    BY <1>3, <2>1 DEF Notify, Fifo!vars
<1>4. ASSUME NEW c \in Consumers, CallPop(c) PROVE Fifo!Next
  <2>1. waiting' = waiting \cup {c} /\ c \notin waiting
    BY <1>4, <1>b DEF CallPop
  <2> QED
    BY <1>4, <2>1 DEF CallPop, Fifo!Next, Fifo!Ask
<1>5. ASSUME NEW c \in Consumers, TakeFront(c), data_queue # <<>>,
             waiting' = waiting \ {c}, UNCHANGED <<pushed, log>>
      PROVE  Fifo!Next
  <2>1. Fifo!Backlog > 0
    BY <1>5, <1>a DEF Fifo!Backlog, TypeOK
  <2>2. Head(data_queue) = log[left + 1]
    BY <1>5, <1>a DEF QueueIsSuffix, TypeOK
  <2>3. Fifo!Take(c)
    BY <1>5, <2>1, <2>2 DEF Fifo!Take, TakeFront
  <2> QED
    BY <2>3 DEF Fifo!Next
<1>6. ASSUME NEW c \in Consumers, Pop(c) PROVE Fifo!Next
  <2>1. waiting' = waiting \ {c}
    BY <1>6, <1>b DEF Pop
  <2> QED
    BY <1>5, <1>6, <2>1 DEF Pop
<1>7. ASSUME NEW c \in Consumers, TryPop(c) PROVE Fifo!Next
  <2>1. waiting' = waiting \ {c}
    BY <1>7, <1>b DEF TryPop
  <2> QED
    BY <1>5, <1>7, <2>1 DEF TryPop
<1>8. ASSUME NEW c \in Consumers, Sleep(c) \/ SpuriousWake(c) PROVE UNCHANGED Fifo!vars
  <2>1. waiting' = waiting
    BY <1>8, <1>b DEF Sleep, SpuriousWake
  <2> QED
    BY <1>8, <2>1 DEF Sleep, SpuriousWake, Fifo!vars
<1>9. CASE UNCHANGED vars
  BY <1>9 DEF vars, Fifo!vars
<1> QED
  BY <1>1, <1>2, <1>3, <1>4, <1>6, <1>7, <1>8, <1>9 DEF Next, WaitAndPop

\* The queue implements its promise: a block is refused only by a full queue, and
\* blocks come out in the order in which they were accepted, each at most once.
THEOREM Implementation == Spec => ImplementsFifo
<1>1. Init => Fifo!Init
  BY DEF Init, Fifo!Init
<1>2. IInv /\ [Next]_vars => [Fifo!Next]_(Fifo!vars)
  BY StepImplements
<1> QED
  BY Invariance, <1>1, <1>2, PTL DEF Spec, ImplementsFifo, Fifo!Spec

(***************************************************************************)
(* What follows from FifoLog alone: the log grows by newer blocks, none of *)
(* them newer than the last one offered, and what was handed out stands    *)
(* before the cursor.                                                      *)
(***************************************************************************)
LogInv ==
    /\ pushed \in Nat
    /\ log \in Seq(Nat)
    /\ left \in 0 .. Len(log)
    /\ got \in [Consumers -> Nat]
    /\ \A i \in 1 .. Len(log) : log[i] > 0 /\ log[i] <= pushed
    /\ \A i, j \in 1 .. Len(log) : i < j => log[i] < log[j]
    /\ \A c \in Consumers : got[c] # 0 => \E i \in 1 .. left : got[c] = log[i]

LEMMA LogPut ==
    ASSUME LogInv, Fifo!Put
    PROVE  LogInv'
<1>a. CASE Fifo!Full
  <2>1. UNCHANGED <<log, left, got>> /\ pushed' = pushed + 1
    BY <1>a DEF Fifo!Put
  <2>2. pushed' \in Nat /\ \A n \in Nat : n <= pushed => n <= pushed'
    BY <2>1 DEF LogInv
  <2>3. \A i \in 1 .. Len(log) : log[i] \in Nat
    BY DEF LogInv
  <2> QED
    BY <2>1, <2>2, <2>3 DEF LogInv
<1>b. SUFFICES ASSUME ~Fifo!Full PROVE LogInv'
  BY <1>a
<1>1. PICK b : b = pushed + 1 /\ log' = Append(log, b)
  BY <1>b DEF Fifo!Put
<1>2. b \in Nat /\ b > 0 /\ b = pushed + 1 /\ pushed' = b /\ pushed \in Nat
  BY <1>1 DEF LogInv, Fifo!Put
<1>3. /\ log \in Seq(Nat) /\ left \in 0 .. Len(log) /\ UNCHANGED <<left, got>>
  BY DEF LogInv, Fifo!Put
<1>4. /\ log' \in Seq(Nat) /\ Len(log') = Len(log) + 1 /\ log'[Len(log) + 1] = b
      /\ \A i \in 1 .. Len(log) : log'[i] = log[i]
  BY <1>1, <1>2, <1>3
<1>5. \A i \in 1 .. Len(log') : i \in 1 .. Len(log) \/ i = Len(log) + 1
  BY <1>3, <1>4
<1>6. \A i \in 1 .. Len(log') : log'[i] > 0 /\ log'[i] <= pushed'
  <2>1. \A i \in 1 .. Len(log) : log[i] \in Nat /\ log[i] > 0 /\ log[i] <= pushed
    BY DEF LogInv
  <2> QED
    BY <1>2, <1>4, <1>5, <2>1
<1>7. ASSUME NEW i \in 1 .. Len(log'), NEW j \in 1 .. Len(log'), i < j
      PROVE  log'[i] < log'[j]
  <2>1. i \in 1 .. Len(log)
    BY <1>3, <1>4, <1>7
  <2>2. CASE j \in 1 .. Len(log)
    BY <1>4, <1>7, <2>1, <2>2 DEF LogInv
  <2>3. CASE j = Len(log) + 1
    BY <1>2, <1>3, <1>4, <2>1, <2>3 DEF LogInv
  <2> QED
    BY <1>5, <2>2, <2>3
<1>8. ASSUME NEW c \in Consumers, got[c] # 0
      PROVE  \E i \in 1 .. left : got[c] = log'[i]
  <2>1. PICK i \in 1 .. left : got[c] = log[i]
    BY <1>8 DEF LogInv
  <2>2. i \in 1 .. Len(log)
    BY <1>3
  <2> QED
    BY <1>4, <2>1, <2>2
<1>9. left \in 0 .. Len(log')
  BY <1>3, <1>4
<1> QED
  BY <1>2, <1>3, <1>4, <1>6, <1>7, <1>8, <1>9 DEF LogInv

\* The block behind the cursor is newer than all before it.
LEMMA LogTake ==
    ASSUME LogInv, NEW c \in Consumers, Fifo!Take(c)
    PROVE  /\ LogInv'
           /\ \A d \in Consumers : got[d] < got'[c]
           /\ \A d \in Consumers : d # c => got'[d] = got[d]
<1>1. /\ log \in Seq(Nat) /\ left \in 0 .. Len(log) /\ got \in [Consumers -> Nat]
      /\ got' = [got EXCEPT ![c] = log[left + 1]] /\ left' = left + 1 /\ log' = log /\ pushed' = pushed /\ pushed \in Nat
      /\ Len(log) - left > 0
  BY DEF LogInv, Fifo!Take, Fifo!Backlog
<1>2. left + 1 \in 1 .. Len(log) /\ log[left + 1] \in Nat /\ left' \in 0 .. Len(log)
  BY <1>1
<1>3. /\ got'[c] = log[left + 1] /\ got' \in [Consumers -> Nat]
      /\ \A d \in Consumers : d # c => got'[d] = got[d]
  BY <1>1, <1>2
<1>4. ASSUME NEW d \in Consumers PROVE got[d] < log[left + 1]
  <2>1. CASE got[d] = 0
    BY <1>2, <2>1 DEF LogInv
  <2>2. CASE got[d] # 0
    <3>1. PICK i \in 1 .. left : got[d] = log[i]
      BY <2>2 DEF LogInv
    <3>2. i \in 1 .. Len(log) /\ i < left + 1
      BY <1>1
    <3> QED
      BY <1>2, <3>1, <3>2 DEF LogInv
  <2> QED
    BY <2>1, <2>2
<1>5. ASSUME NEW d \in Consumers, got'[d] # 0
      PROVE  \E i \in 1 .. left' : got'[d] = log'[i]
  <2>1. CASE d = c
    <3>1. left + 1 \in 1 .. left'
      BY <1>1
    <3> QED
      BY <1>1, <1>3, <2>1, <3>1
  <2>2. CASE d # c
    <3>1. PICK i \in 1 .. left : got[d] = log[i]
      BY <1>3, <1>5, <2>2 DEF LogInv
    <3>2. i \in 1 .. left'
      BY <1>1
    <3> QED
      BY <1>1, <1>3, <2>2, <3>1, <3>2
  <2> QED
    BY <2>1, <2>2
<1> QED
  BY <1>1, <1>2, <1>3, <1>4, <1>5 DEF LogInv

LEMMA LogStep ==
    ASSUME LogInv, [Fifo!Next]_(Fifo!vars)
    PROVE  LogInv'
<1>1. CASE Fifo!Put
  BY <1>1, LogPut
<1>2. CASE Fifo!Discard
  <2>1. UNCHANGED <<pushed, log, got>> /\ left' = Len(log) /\ left \in 0 .. Len(log) /\ Len(log) \in Nat
    BY <1>2 DEF Fifo!Discard, LogInv
  <2>2. \A i \in 1 .. left : i \in 1 .. left'
    BY <2>1
  <2> QED
    BY <2>1, <2>2 DEF LogInv
<1>3. ASSUME NEW c \in Consumers, Fifo!Ask(c) PROVE LogInv'
  BY <1>3 DEF Fifo!Ask, LogInv
<1>4. ASSUME NEW c \in Consumers, Fifo!Take(c) PROVE LogInv'
  BY <1>4, LogTake
<1>5. CASE UNCHANGED Fifo!vars
  BY <1>5 DEF Fifo!vars, LogInv
<1> QED
  BY <1>1, <1>2, <1>3, <1>4, <1>5 DEF Fifo!Next

\* A log with a cursor hands out newer and newer blocks: only FifoLog is used.
LEMMA FifoHandsOutNewer == Fifo!Spec => Fifo!Newer
<1> DEFINE Grows == \A c \in Consumers : got'[c] # got[c] =>
                        \A d \in Consumers : got[d] < got'[c]
<1>1. Fifo!Init => LogInv
  BY DEF Fifo!Init, LogInv
<1>2. LogInv /\ [Fifo!Next]_(Fifo!vars) => [Grows]_(Fifo!vars)
  <2> SUFFICES ASSUME LogInv, Fifo!Next PROVE Grows
    BY DEF Fifo!vars
  <2>1. CASE Fifo!Put \/ Fifo!Discard
    BY <2>1 DEF Fifo!Put, Fifo!Discard
  <2>2. ASSUME NEW c \in Consumers, Fifo!Ask(c) PROVE Grows
    BY <2>2 DEF Fifo!Ask
  <2>3. ASSUME NEW c \in Consumers, Fifo!Take(c) PROVE Grows
    BY <2>3, LogTake
  <2> QED
    BY <2>1, <2>2, <2>3 DEF Fifo!Next
<1>3. LogInv /\ [Fifo!Next]_(Fifo!vars) => LogInv'
  BY LogStep
<1> QED
  BY <1>1, <1>2, <1>3, PTL DEF Fifo!Spec, Fifo!Newer

\* So no block leaves the queue twice or overtakes another, for any number of
\* consumers that wait, try and are woken in any order.
THEOREM NoneTwice == Spec => NewerEachTime
  BY Implementation, FifoHandsOutNewer, PTL DEF ImplementsFifo, NewerEachTime
=============================================================================
