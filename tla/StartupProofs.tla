--------------------------- MODULE StartupProofs ----------------------------
(***************************************************************************)
(* Proofs about Startup, for any configurations and any number of starts.  *)
(***************************************************************************)
EXTENDS Startup, TLAPS

Steps == {"down", "create", "write", "read", "listen", "threads", "callbacks", "open",
          "command", "run"}

Sockets == [ip : Addresses \cup {None}, port : {5021}]

FileType == [exists : BOOLEAN, lines : 0 .. 4, LocalIP : Addresses, DataPort : Ports]

ProcType == [step : Steps, LocalIP : Addresses \cup {None}, DataPort : Ports \cup {None},
             m_acceptor : Sockets \cup {None}, dataThreads : BOOLEAN,
             callbacks : BOOLEAN, device : {"closed", "open", "ready"},
             backlog : 0 .. MAX_CONNECTIONS, sessions : 0 .. MaxSessions]

TypeInv ==
    /\ file \in FileType
    /\ proc \in ProcType
    /\ starts \in 0 .. MaxStarts
    /\ spoiled \in BOOLEAN

\* What has been started at which step of the constructor.
Progress ==
    /\ proc.step \in {"callbacks", "open", "command", "run"} => proc.dataThreads
    /\ proc.step \in {"open", "command", "run"} => proc.callbacks
    /\ proc.device # "closed" => proc.step \in {"command", "run"}
    /\ proc.step = "run" => proc.device = "ready"
    /\ proc.sessions > 0 => proc.step = "run"

\* How much of the file is there.
FileInv ==
    /\ ~file.exists => file.lines = 0
    /\ proc.step = "create" => ~file.exists
    /\ proc.step = "write" => file.exists /\ file.lines < 4
    /\ file.exists /\ file.lines < 4 => proc.step = "write" \/ spoiled
    /\ spoiled => file.exists /\ file.lines < 4 /\ proc.step \in {"down", "read"}

IInv == TypeInv /\ Progress /\ FileInv

LEMMA InitOK == Init => IInv
<1> SUFFICES ASSUME Init PROVE IInv
  OBVIOUS
<1> USE StartupAssumption DEF Init, NoFile, NoProcess
<1>1. file \in FileType
  BY DEF FileType
<1>2. proc \in ProcType
  BY DEF ProcType, Steps
<1>3. starts \in 0 .. MaxStarts /\ spoiled \in BOOLEAN
  <2>1. starts = 0 /\ spoiled = FALSE
    OBVIOUS
  <2>2. starts \in 0 .. MaxStarts
    BY <2>1 DEF Init
  <2> QED
    BY <2>1, <2>2, Zenon
<1>4. Progress /\ FileInv
  BY DEF Progress, FileInv
<1> QED
  BY <1>1, <1>2, <1>3, <1>4 DEF IInv, TypeInv

LEMMA Inductive ==
    ASSUME IInv, [Next]_vars
    PROVE  IInv'
<1> USE StartupAssumption DEF IInv, TypeInv, Progress, FileInv, FileType, ProcType, Steps
<1>1. CASE Configure
  <2>1. proc.step = "down" /\ proc' = proc /\ starts' = starts
    BY <1>1 DEF Configure
  <2> DEFINE Goal == /\ file' \in FileType /\ spoiled' \in BOOLEAN
                     /\ spoiled' => file'.exists /\ file'.lines < 4
                     /\ file'.exists /\ file'.lines < 4 => spoiled'
                     /\ ~file'.exists => file'.lines = 0
  <2>2. Goal
    <3>1. ASSUME NEW ip \in Addresses, NEW port \in Ports, NEW n \in 0 .. 4,
                 file' = [exists |-> TRUE, lines |-> n, LocalIP |-> ip, DataPort |-> port],
                 spoiled' = (file'.lines < 4)
          PROVE  Goal
      <4>1. file' \in FileType /\ file'.exists /\ file'.lines = n
        BY <3>1
      <4>2. CASE n < 4
        <5>1. spoiled' = TRUE
          BY <3>1, <4>1, <4>2
        <5> QED
          BY <4>1, <4>2, <5>1
      <4>3. CASE ~(n < 4)
        <5>1. ~(file'.lines < 4)
          BY <4>1, <4>3
        <5>2. ~spoiled'
          BY <3>1, <5>1, Zenon
        <5>3. spoiled' \in BOOLEAN
          BY <3>1, <4>3, <4>1, SMT
        <5> QED
          BY <4>1, <4>3, <5>2, <5>3
      <4> QED
        BY <4>2, <4>3
    <3>2. CASE file' = NoFile /\ spoiled' = FALSE
      <4>1. file' \in FileType /\ ~file'.exists /\ file'.lines = 0
        BY <3>2 DEF NoFile
      <4> QED
        BY <3>2, <4>1, Zenon
    <3> HIDE DEF Goal
    <3> QED
      BY <1>1, <3>1, <3>2, Zenon DEF Configure
  <2>3. Progress'
    BY <2>1
  <2>4. FileInv'
    BY <2>1, <2>2
  <2>5. starts' \in 0 .. MaxStarts /\ proc' \in ProcType
    BY <2>1
  <2> QED
    BY <2>2, <2>3, <2>4, <2>5
<1>2. CASE Ends
  BY <1>2 DEF Ends, NoProcess
<1>3. CASE TinyConfig
  BY <1>3 DEF TinyConfig
<1>4. CASE CreateFile
  <2>1. /\ proc.step = "create" /\ ~file.exists /\ ~spoiled
        /\ starts' = starts /\ spoiled' = spoiled
    BY <1>4 DEF CreateFile
  <2>2. spoiled' \in BOOLEAN
    BY <2>1, Zenon
  <2>3. CASE /\ file' = [file EXCEPT !.exists = TRUE]
             /\ proc' = [proc EXCEPT !.step = "write"]
    <3>1. file' \in FileType /\ file'.exists /\ file'.lines = 0
      BY <2>1, <2>3
    <3>2. proc' \in ProcType /\ proc'.step = "write" /\ Progress'
      BY <2>1, <2>3
    <3>3. FileInv'
      BY <2>1, <3>1, <3>2
    <3> QED
      BY <2>1, <2>2, <3>1, <3>2, <3>3
  <2>4. CASE proc' = [proc EXCEPT !.step = "read"] /\ file' = file
    <3>1. proc' \in ProcType /\ proc'.step = "read" /\ Progress'
      BY <2>1, <2>4
    <3>2. FileInv'
      BY <2>1, <2>4, <3>1
    <3> QED
      BY <2>1, <2>2, <2>4, <3>1, <3>2
  <2> QED
    BY <1>4, <2>3, <2>4 DEF CreateFile
<1>5. CASE WriteLine
  BY <1>5 DEF WriteLine, Lines
<1>15. CASE WriteFails
  BY <1>15 DEF WriteFails
<1>6. CASE ReadConfig
  <2>1. /\ proc.step = "read" /\ file.lines = 4 /\ file' = file
        /\ starts' = starts /\ spoiled' = spoiled
        /\ proc' = [proc EXCEPT !.step = "listen", !.LocalIP = file.LocalIP,
                                !.DataPort = file.DataPort]
    BY <1>6 DEF ReadConfig, Readable
  <2>2. proc' \in ProcType /\ proc'.step = "listen"
    BY <2>1
  <2>3. Progress'
    BY <2>1
  <2>4. ~spoiled /\ spoiled' \in BOOLEAN
    <3>1. ~spoiled
      BY <2>1
    <3>2. spoiled' \in BOOLEAN
      BY <2>1, Zenon
    <3> QED
      BY <3>1, <3>2
  <2>5. FileInv'
    BY <2>1, <2>2, <2>4
  <2> QED
    BY <2>1, <2>2, <2>3, <2>4, <2>5
<1>7. CASE Listen
  <2>1. file' \in FileType /\ proc' \in ProcType
    <3> DEFINE a == [ip |-> proc.LocalIP, port |-> 5021]
    <3>1. a \in Sockets
      BY DEF Sockets
    <3>2. /\ proc' = [proc EXCEPT !.step = "threads", !.m_acceptor = a]
          /\ file' = file
      BY <1>7 DEF Listen, Step
    <3> HIDE DEF a
    <3> QED
      BY <3>1, <3>2
  <2>2. Progress'
    BY <1>7 DEF Listen, Step, Sockets
  <2>3. FileInv' /\ starts' \in 0 .. MaxStarts /\ spoiled' \in BOOLEAN
    <3>1. /\ proc.step = "listen" /\ proc'.step = "threads"
          /\ file' = file /\ starts' = starts /\ spoiled' = spoiled
      BY <1>7 DEF Listen, Step
    <3>2. FileInv'
      BY <3>1
    <3>3. starts' \in 0 .. MaxStarts
      BY <3>1
    <3>4. spoiled' \in BOOLEAN
      BY <3>1, Zenon
    <3> QED
      BY <3>2, <3>3, <3>4
  <2> QED
    BY <2>1, <2>2, <2>3
<1>8. CASE StartDataThreads
  BY <1>8 DEF StartDataThreads, Step
<1>9. CASE RegisterCallBack
  BY <1>9 DEF RegisterCallBack, Step
<1>10. CASE OpenDevice
  <2> PICK d \in {"closed", "open"} :
              /\ proc' = [proc EXCEPT !.step = "command", !.device = d]
              /\ proc.step = "open" /\ file' = file /\ starts' = starts /\ spoiled' = spoiled
    BY <1>10 DEF OpenDevice, Step
  <2>1. file' \in FileType /\ proc' \in ProcType
    <3>1. d \in {"closed", "open", "ready"}
      OBVIOUS
    <3>2. file' \in FileType
      OBVIOUS
    <3>3. proc' \in ProcType
      BY <3>1
    <3> QED
      BY <3>2, <3>3
  <2>2. Progress'
    <3>1. /\ proc'.step = "command" /\ proc'.dataThreads = proc.dataThreads
          /\ proc'.callbacks = proc.callbacks /\ proc'.sessions = proc.sessions
      OBVIOUS
    <3> QED
      BY <3>1
  <2>3. FileInv' /\ starts' \in 0 .. MaxStarts /\ spoiled' \in BOOLEAN
    <3>1. /\ proc.step = "open" /\ proc'.step = "command"
          /\ file' = file /\ starts' = starts /\ spoiled' = spoiled
      OBVIOUS
    <3>2. FileInv'
      BY <3>1
    <3>3. starts' \in 0 .. MaxStarts
      BY <3>1
    <3>4. spoiled' \in BOOLEAN
      BY <3>1, Zenon
    <3> QED
      BY <3>2, <3>3, <3>4
  <2> QED
    BY <2>1, <2>2, <2>3
<1>11. CASE SendPulseDetect
  BY <1>11 DEF SendPulseDetect, Step
<1>12. CASE Connect
  BY <1>12 DEF Connect, MayWait
<1>13. CASE Accept
  <2>1. file' \in FileType /\ proc' \in ProcType
    <3>1. /\ proc.backlog - 1 \in 0 .. MAX_CONNECTIONS
          /\ proc.sessions + 1 \in 0 .. MaxSessions
      BY <1>13 DEF Accept
    <3>2. proc' = [proc EXCEPT !.backlog = @ - 1, !.sessions = @ + 1] /\ file' = file
      BY <1>13 DEF Accept
    <3> QED
      BY <3>1, <3>2
  <2>2. Progress'
    BY <1>13 DEF Accept, Serving
  <2>3. FileInv' /\ starts' \in 0 .. MaxStarts /\ spoiled' \in BOOLEAN
    BY <1>13 DEF Accept, Serving
  <2> QED
    BY <2>1, <2>2, <2>3
<1>14. CASE UNCHANGED vars
  BY <1>14 DEF vars
<1> QED
  BY <1>1, <1>2, <1>3, <1>4, <1>5, <1>6, <1>7, <1>8, <1>9, <1>10, <1>11, <1>12, <1>13,
     <1>14, <1>15 DEF Next, TinyInstance

LEMMA Invariant == Spec => []IInv
  BY InitOK, Inductive, PTL DEF Spec

\* The process is well formed, and no more clients wait than listen allows.
THEOREM TypeCorrect == Spec => []TypeOK
<1>1. IInv => TypeOK
  BY DEF IInv, TypeInv, FileType, ProcType, FileInv, TypeOK
<1> QED
  BY Invariant, <1>1, PTL

\* No block meets a missing callback or data thread, and nobody is served before
\* the device took its first command, in whatever step a process is ended.
THEOREM Ordered == Spec => []StartsInOrder
<1>1. IInv => StartsInOrder
  BY DEF IInv, TypeInv, ProcType, Steps, Progress, StartsInOrder
<1> QED
  BY Invariant, <1>1, PTL

\* A start that fails on its configuration found none and could write none, or
\* met a spoiled one; and a spoiled one stops all starts until it is replaced.
THEOREM SpoiledIsTheOnlyCause == Spec => []OnlySpoiledFails
<1>1. IInv => OnlySpoiledFails
  BY DEF IInv, TypeInv, FileType, FileInv, OnlySpoiledFails, Readable
<1> QED
  BY Invariant, <1>1, PTL
=============================================================================
