-------------------------- MODULE DispatcherProofs --------------------------
(***************************************************************************)
(* Proofs about Dispatcher, for any clients, texts and buffer: its type    *)
(* invariant, which is inductive, and from it the order of commands; that  *)
(* what is acknowledged was written; and what an inquiry reports.          *)
(***************************************************************************)
EXTENDS Dispatcher, TLAPS

Step == {"parse", "write", "accept", "report", "deny", "throw"}

LEMMA ScriptType == \A k \in Kinds : Script[k] \in Seq(Step)
<1> SUFFICES ASSUME NEW k \in Kinds PROVE Script[k] \in Seq(Step)
  OBVIOUS
<1>1. \A n \in Nat : Write(n) \in Seq(Step)
  BY DEF Write, Step
<1>2. <<"parse">> \o Write(WBWrites) \o <<"accept", "report">> \in Seq(Step)
  <2>1. Write(WBWrites) \in Seq(Step)
    BY <1>1, DispatcherAssumption
  <2>2. <<"parse">> \in Seq(Step) /\ <<"accept", "report">> \in Seq(Step)
    BY DEF Step
  <2> QED
    BY <2>1, <2>2
<1>3. <<"parse">> \o Write(NBWrites) \in Seq(Step)
  <2>1. Write(NBWrites) \in Seq(Step)
    BY <1>1, DispatcherAssumption
  <2>2. <<"parse">> \in Seq(Step)
    BY DEF Step
  <2> QED
    BY <2>1, <2>2
<1>4. /\ <<"accept", "write">> \in Seq(Step)
      /\ <<"accept", "report">> \in Seq(Step)
      /\ <<"accept">> \in Seq(Step)
      /\ <<"deny">> \in Seq(Step)
      /\ <<"throw">> \in Seq(Step)
      /\ <<>> \in Seq(Step)
  BY DEF Step
<1> QED
  BY <1>2, <1>3, <1>4 DEF Script, Kinds

LEMMA TextKinds ==
    /\ NoText \in TextType
    /\ \A c \in Commands, n \in Nat : [task |-> n, kind |-> c.kind, set |-> c.set] \in TextType
    /\ \A l \in Leftovers, n \in Nat : l \in TextType /\ [l EXCEPT !.task = n] \in TextType
<1>1. NoText \in TextType
  <2>1. [f \in {} |-> Junk] \in [{} -> Values] /\ {} \in SUBSET Fields
    OBVIOUS
  <2>2. [f \in {} |-> Junk] \in Settings
    BY <2>1, Zenon DEF Settings
  <2> QED
    BY <2>2 DEF NoText, TextType, Kinds
<1>2. Commands \subseteq [kind : Kinds, set : Settings] /\ Leftovers \subseteq TextType
  BY DispatcherAssumption
<1> QED
  BY <1>1, <1>2 DEF TextType

LEMMA HalfOfEven ==
    ASSUME NEW u \in Nat, u % 2 = 1
    PROVE  (u + 1) \div 2 \in Nat /\ 2 * ((u + 1) \div 2) = u + 1
  OBVIOUS

\* A read returns at least one unit, and only units that arrived.
LEMMA ReadEndBounds ==
    ASSUME TypeOK, NEW s \in Sessions, taken[s] < arrived[s]
    PROVE  ReadEnd(s) \in Nat /\ taken[s] < ReadEnd(s) /\ ReadEnd(s) <= arrived[s]
<1>1. taken[s] \in Nat /\ arrived[s] \in Nat /\ BUFFER \in Nat \ {0, 1}
  BY DispatcherAssumption, Zenon DEF TypeOK
<1> QED
  BY <1>1 DEF ReadEnd

\* The commands executed with their own text have been read.
LEMMA DoneBound ==
    ASSUME TypeOK, NEW s \in Sessions, NEW i \in 1 .. Len(done[s])
    PROVE  done[s][i] \in Nat /\ done[s][i] > 0 /\ 2 * done[s][i] <= taken[s]
<1>1. done[s] \in Seq(Nat)
  BY DEF TypeOK
<1>2. done[s][i] \in Nat
  BY <1>1
<1>3. done[s][i] > 0 /\ 2 * done[s][i] <= taken[s]
  BY ZenonT(30) DEF TypeOK
<1> QED
  BY <1>2, <1>3

\* The head a read begins with belongs to a command that was sent, and that is
\* newer than all that were executed with their own text.
LEMMA HeadIsNew ==
    ASSUME TypeOK, NEW s \in Sessions, taken[s] < arrived[s], IsHead(taken[s] + 1)
    PROVE  LET n == CommandOf(taken[s] + 1) IN
           /\ n \in 1 .. Len(sent[s])
           /\ n \in Nat
           /\ 2 * n = taken[s] + 2
           /\ \A i \in 1 .. Len(done[s]) : done[s][i] < n
           /\ FirstCommand(s) \in TextType
           /\ FirstCommand(s).task = n
<1> DEFINE n == CommandOf(taken[s] + 1)
<1>1. taken[s] \in Nat /\ arrived[s] \in Nat /\ Len(sent[s]) \in Nat
  BY DEF TypeOK
<1>2. n \in Nat /\ 2 * n = taken[s] + 2
  <2>1. taken[s] + 1 \in Nat /\ (taken[s] + 1) % 2 = 1
    BY <1>1 DEF IsHead
  <2>2. n \in Nat /\ 2 * n = (taken[s] + 1) + 1
    <3> HIDE DEF n
    <3>1. n = ((taken[s] + 1) + 1) \div 2
      BY DEF n, CommandOf
    <3>2. \A u \in Nat : u % 2 = 1 => (u + 1) \div 2 \in Nat /\ 2 * ((u + 1) \div 2) = u + 1
      BY HalfOfEven
    <3>3. ((taken[s] + 1) + 1) \div 2 \in Nat
           /\ 2 * (((taken[s] + 1) + 1) \div 2) = (taken[s] + 1) + 1
      BY <2>1, <3>2
    <3> QED
      BY <3>1, <3>3
  <2> HIDE DEF n
  <2> QED
    BY <1>1, <2>2
<1>3. n \in 1 .. Len(sent[s])
  <2>1. arrived[s] <= 2 * Len(sent[s])
    BY Zenon DEF TypeOK
  <2> HIDE DEF n
  <2> QED
    BY <1>1, <1>2, <2>1
<1>4. ASSUME NEW i \in 1 .. Len(done[s]) PROVE done[s][i] < n
  <2>1. done[s][i] \in Nat /\ 2 * done[s][i] <= taken[s]
    BY DoneBound
  <2> HIDE DEF n
  <2> QED
    BY <1>1, <1>2, <2>1
<1>5. FirstCommand(s) \in TextType /\ FirstCommand(s).task = n
  <2>1. FirstCommand(s) = sent[s][n]
    BY DEF FirstCommand
  <2> HIDE DEF n
  <2>2. sent[s] \in Seq(TextType) /\ \A i \in 1 .. Len(sent[s]) : sent[s][i].task = i
    BY Zenon DEF TypeOK
  <2> QED
    BY <1>3, <2>1, <2>2
<1> QED
  BY <1>2, <1>3, <1>4, <1>5

\* What stands behind a head is a text, whatever the buffer held.
LEMMA TextsType ==
    ASSUME TypeOK, NEW s \in Sessions, taken[s] < arrived[s], IsHead(taken[s] + 1)
    PROVE  Texts(s) \subseteq TextType
<1>1. FirstCommand(s) \in TextType /\ FirstCommand(s).task \in Nat
  BY HeadIsNew
<1>2. Earlier \subseteq TextType
  <2> SUFFICES ASSUME NEW t \in Sessions, NEW n \in 1 .. taken[t] \div 2
               PROVE  sent[t][n] \in TextType
    BY DEF Earlier
  <2>1. /\ sent[t] \in Seq(TextType) /\ taken[t] \in Nat /\ arrived[t] \in Nat
        /\ taken[t] <= arrived[t] /\ arrived[t] <= 2 * Len(sent[t])
    BY DEF TypeOK
  <2>2. n \in 1 .. Len(sent[t])
    BY <2>1
  <2> QED
    BY <2>1, <2>2
<1>3. {[l EXCEPT !.task = FirstCommand(s).task] : l \in Leftovers} \subseteq TextType
  BY <1>1, TextKinds
<1>4. Leftovers \subseteq TextType
  BY DispatcherAssumption
<1> QED
  BY <1>1, <1>2, <1>3, <1>4, Zenon DEF Texts, Remains

LEMMA InitType == Init => TypeOK
<1> SUFFICES ASSUME Init PROVE TypeOK
  OBVIOUS
<1>1. \A s \in Sessions : sent[s] = <<>> /\ done[s] = <<>> /\ ran[s] = <<>> /\ steps[s] = <<>>
  BY DEF Init
<1>2. text \in [Sessions -> TextType]
  BY TextKinds DEF Init
<1> QED
  BY <1>1, <1>2, DispatcherAssumption DEF Init, TypeOK

\* What the steps of a command leave: its remaining steps are steps.
LEMMA TailType ==
    ASSUME TypeOK, NEW s \in Sessions, steps[s] # <<>>
    PROVE  Tail(steps[s]) \in Seq(Step) /\ [steps EXCEPT ![s] = Tail(@)] \in [Sessions -> Seq(Step)]
  BY DEF TypeOK, Step

\* What the type invariant says of one session.
SessionOK(s) ==
    /\ \A i \in 1 .. Len(sent[s]) : sent[s][i].task = i
    /\ taken[s] <= arrived[s] /\ arrived[s] <= 2 * Len(sent[s])
    /\ \A i \in 1 .. Len(done[s]) : done[s][i] > 0 /\ 2 * done[s][i] <= taken[s]
    /\ unit[s] > 0 => At(s, "write")
    /\ steps[s] # <<>> => ~reading[s] /\ ran[s] # <<>>

\* What a read does to the counters of the stream.
LEMMA TakeType ==
    ASSUME TypeOK, NEW s \in Sessions, Take(s)
    PROVE  /\ taken' \in [Sessions -> Nat]
           /\ \A t \in Sessions : taken[t] <= taken'[t] /\ taken'[t] <= arrived[t]
           /\ UNCHANGED <<sent, arrived, isRunning, unit>>
           /\ reading' = [reading EXCEPT ![s] = FALSE]
           /\ ~reading'[s] /\ \A t \in Sessions \ {s} : reading'[t] = reading[t]
           /\ steps[s] = <<>> /\ taken[s] < arrived[s]
           /\ taken'[s] = ReadEnd(s)
           /\ taken[s] < taken'[s]
<1>1. taken' = [taken EXCEPT ![s] = ReadEnd(s)] /\ taken[s] < arrived[s]
  BY DEF Take
<1>2. ReadEnd(s) \in Nat /\ taken[s] < ReadEnd(s) /\ ReadEnd(s) <= arrived[s]
  BY <1>1, ReadEndBounds
<1>3. taken \in [Sessions -> Nat] /\ \A t \in Sessions : taken[t] <= arrived[t]
  BY DEF TypeOK
<1>4. taken' \in [Sessions -> Nat] /\ taken[s] < taken'[s] /\ taken'[s] = ReadEnd(s)
  BY <1>1, <1>2, <1>3
<1>5. \A t \in Sessions : taken[t] <= taken'[t] /\ taken'[t] <= arrived[t]
  BY <1>1, <1>2, <1>3
<1>6. /\ steps[s] = <<>> /\ UNCHANGED <<sent, arrived, isRunning, unit>>
      /\ reading' = [reading EXCEPT ![s] = FALSE]
  BY DEF Take, streamVars, deviceVars, TypeOK
<1>7. ~reading'[s] /\ \A t \in Sessions \ {s} : reading'[t] = reading[t]
  BY <1>6 DEF TypeOK
<1> QED
  BY <1>1, <1>4, <1>5, <1>6, <1>7

\* A command begins: the numbers it adds are numbers of commands that were read.
LEMMA RecvType ==
    ASSUME TypeOK, NEW s \in Sessions, RecvCommandFun(s)
    PROVE  TypeOK'
<1>1. Take(s) /\ IsHead(taken[s] + 1) /\ taken[s] < arrived[s]
  BY DEF RecvCommandFun, Take
<1>2. PICK c \in Texts(s) :
          /\ text' = [text EXCEPT ![s] = c]
          /\ ran' = [ran EXCEPT ![s] = Append(@, c.task)]
          /\ done' = IF HasText(s) THEN [done EXCEPT ![s] = Append(@, c.task)] ELSE done
          /\ steps' = [steps EXCEPT ![s] = Script[c.kind]]
          /\ author' = IF c.kind = "wide" THEN [f \in Fields |-> Nobody] ELSE author
  BY DEF RecvCommandFun
<1>3. c \in TextType /\ c.task \in Nat /\ c.kind \in Kinds
  BY <1>1, TextsType DEF TextType
<1>4. HasText(s) => /\ c.task > 0 /\ 2 * c.task = taken[s] + 2
                    /\ 2 * c.task <= taken'[s]
  <2> SUFFICES ASSUME HasText(s)
               PROVE  /\ c.task > 0 /\ 2 * c.task = taken[s] + 2 /\ 2 * c.task <= taken'[s]
    OBVIOUS
  <2>1. c = FirstCommand(s)
    BY <1>2 DEF Texts
  <2>2. c.task = CommandOf(taken[s] + 1) /\ 2 * CommandOf(taken[s] + 1) = taken[s] + 2
    BY <1>1, <2>1, HeadIsNew, Zenon
  <2>3. c.task \in Nat /\ 2 * c.task = taken[s] + 2
    BY <1>3, <2>2, Zenon
  <2>4. taken[s] \in Nat /\ taken'[s] \in Nat /\ taken'[s] = ReadEnd(s)
    BY <1>1, TakeType DEF TypeOK
  <2>5. taken'[s] > taken[s] + 1
    BY <2>4 DEF HasText
  <2> QED
    BY <2>3, <2>4, <2>5
<1>5. /\ text' \in [Sessions -> TextType] /\ ran' \in [Sessions -> Seq(Nat)]
      /\ done' \in [Sessions -> Seq(Nat)]
  <2>1. \A q \in Seq(Nat) : Append(q, c.task) \in Seq(Nat) /\ Append(q, c.task) # <<>>
    BY <1>3
  <2>2. ran \in [Sessions -> Seq(Nat)] /\ done \in [Sessions -> Seq(Nat)]
    BY DEF TypeOK
  <2>3. text' \in [Sessions -> TextType]
    BY <1>2, <1>3 DEF TypeOK
  <2>4. ran' \in [Sessions -> Seq(Nat)]
    BY <1>2, <2>1, <2>2
  <2>5. done' \in [Sessions -> Seq(Nat)]
    <3>1. CASE HasText(s)
      BY <1>2, <2>1, <2>2, <3>1
    <3>2. CASE ~HasText(s)
      BY <1>2, <2>2, <3>2
    <3> QED
      BY <3>1, <3>2
  <2> QED
    BY <2>3, <2>4, <2>5
<1>6. steps' \in [Sessions -> Seq(Step)] /\ author' \in [Fields -> Sessions \cup {Nobody}]
  <2>1. Script[c.kind] \in Seq(Step)
    BY <1>3, ScriptType
  <2>2. steps' \in [Sessions -> Seq(Step)]
    BY <1>2, <2>1 DEF TypeOK, Step
  <2> QED
    BY <1>2, <2>2 DEF TypeOK
<1>7. whole' \in [Sessions -> BOOLEAN] /\ reading' \in [Sessions -> BOOLEAN]
  <2>1. whole' = [whole EXCEPT ![s] = @ /\ HasText(s)]
    BY DEF RecvCommandFun
  <2>2. HasText(s) \in BOOLEAN
    BY DEF HasText
  <2>3. whole' \in [Sessions -> BOOLEAN]
    BY <2>1, <2>2, Zenon DEF TypeOK
  <2> QED
    BY <1>1, <2>3, TakeType DEF TypeOK
<1>8. ASSUME NEW t \in Sessions, NEW i \in 1 .. Len(done'[t])
      PROVE  done'[t][i] > 0 /\ 2 * done'[t][i] <= taken'[t]
  <2>1. taken[t] \in Nat /\ taken'[t] \in Nat /\ taken[t] <= taken'[t] /\ done[t] \in Seq(Nat)
    BY <1>1, TakeType DEF TypeOK
  <2>2. CASE i \in 1 .. Len(done[t]) /\ done'[t][i] = done[t][i]
    <3>1. done[t][i] \in Nat /\ done[t][i] > 0 /\ 2 * done[t][i] <= taken[t]
      BY <2>2, DoneBound
    <3> QED
      BY <2>1, <2>2, <3>1
  <2>3. CASE t = s /\ HasText(s) /\ done'[t][i] = c.task
    BY <1>4, <2>3
  <2>4. (i \in 1 .. Len(done[t]) /\ done'[t][i] = done[t][i])
          \/ (t = s /\ HasText(s) /\ done'[t][i] = c.task)
    <3>1. CASE t = s /\ HasText(s)
      <4>1. done'[t] = Append(done[t], c.task)
        BY <1>2, <3>1 DEF TypeOK
      <4> QED
        BY <1>3, <2>1, <3>1, <4>1
    <3>2. CASE ~(t = s /\ HasText(s))
      BY <1>2, <3>2 DEF TypeOK
    <3> QED
      BY <3>1, <3>2
  <2> QED
    BY <2>2, <2>3, <2>4
<1>9. ASSUME NEW t \in Sessions
      PROVE  /\ unit'[t] > 0 => At(t, "write")'
             /\ steps'[t] # <<>> => ~reading'[t] /\ ran'[t] # <<>>
  <2>1. CASE t = s
    <3>1. steps[s] = <<>> /\ unit'[s] = unit[s] /\ ~reading'[s]
      BY <1>1, TakeType, Zenon
    <3>2. ~(unit[s] > 0)
      BY <3>1 DEF TypeOK, At
    <3>3. ran'[s] # <<>>
      <4>1. ran[s] \in Seq(Nat) /\ ran'[s] = Append(ran[s], c.task)
        BY <1>2 DEF TypeOK
      <4>2. \A q \in Seq(Nat) : Append(q, c.task) # <<>>
        BY <1>3
      <4> QED
        BY <4>1, <4>2
    <3> QED
      BY <2>1, <3>1, <3>2, <3>3
  <2>2. CASE t # s
    <3>1. /\ steps'[t] = steps[t] /\ unit'[t] = unit[t] /\ reading'[t] = reading[t]
          /\ ran'[t] = ran[t]
      <4>1. unit' = unit /\ reading'[t] = reading[t]
        BY <1>1, <2>2, TakeType, Zenon
      <4>2. steps'[t] = steps[t] /\ ran'[t] = ran[t]
        BY <1>2, <2>2 DEF TypeOK
      <4> QED
        BY <4>1, <4>2
    <3> QED
      BY <3>1 DEF TypeOK, At
  <2> QED
    BY <2>1, <2>2
<1>10. /\ sent' = sent /\ arrived' = arrived /\ taken' \in [Sessions -> Nat]
       /\ unit' = unit /\ isRunning' = isRunning
       /\ \A t \in Sessions : taken'[t] <= arrived[t]
  BY <1>1, TakeType
<1>11. \A t \in Sessions : SessionOK(t)'
  BY <1>8, <1>9, <1>10 DEF SessionOK, TypeOK
<1> QED
  BY <1>5, <1>6, <1>7, <1>10, <1>11, Zenon DEF TypeOK, SessionOK, Step

\* A step of the command of s that reads nothing.
LEMMA WorkType ==
    ASSUME TypeOK, NEW s \in Sessions, steps[s] # <<>>, unit'[s] = 0,
           steps' \in {[steps EXCEPT ![s] = <<>>], [steps EXCEPT ![s] = Tail(@)]},
           unit' \in [Sessions -> 0 .. CMD - 1],
           \A t \in Sessions \ {s} : unit'[t] = unit[t],
           isRunning' \in [Sessions -> BOOLEAN],
           author' \in [Fields -> Sessions \cup {Nobody}],
           UNCHANGED <<sent, arrived, taken, ran, done, whole, text, reading>>
    PROVE  TypeOK'
<1>1. steps' \in [Sessions -> Seq(Step)]
  <2>1. [steps EXCEPT ![s] = <<>>] \in [Sessions -> Seq(Step)]
    BY DEF TypeOK, Step
  <2>2. [steps EXCEPT ![s] = Tail(@)] \in [Sessions -> Seq(Step)]
    BY TailType
  <2> QED
    BY <2>1, <2>2
<1>2. ASSUME NEW t \in Sessions
      PROVE  /\ unit'[t] > 0 => At(t, "write")'
             /\ steps'[t] # <<>> => ~reading'[t] /\ ran'[t] # <<>>
  <2>1. CASE t = s
    BY <2>1 DEF TypeOK, At
  <2>2. CASE t # s
    <3>1. steps'[t] = steps[t]
      BY <2>2 DEF TypeOK
    <3> QED
      BY <2>2, <3>1 DEF TypeOK, At
  <2> QED
    BY <2>1, <2>2
<1>3. \A t \in Sessions : SessionOK(t)'
  BY <1>2 DEF SessionOK, TypeOK
<1> QED
  BY <1>1, <1>3, Zenon DEF TypeOK, SessionOK, Step

LEMMA NextType == TypeOK /\ [Next]_vars => TypeOK'
<1> SUFFICES ASSUME TypeOK, [Next]_vars PROVE TypeOK'
  OBVIOUS
<1>1. ASSUME NEW s \in Sessions, SendCommand(s) PROVE TypeOK'
  <2>1. PICK c \in Commands :
            sent' = [sent EXCEPT ![s] =
                Append(@, [task |-> Len(@) + 1, kind |-> c.kind, set |-> c.set])]
    BY <1>1 DEF SendCommand
  <2> DEFINE x == [task |-> Len(sent[s]) + 1, kind |-> c.kind, set |-> c.set]
  <2>2. sent \in [Sessions -> Seq(TextType)] /\ Len(sent[s]) \in Nat
    BY DEF TypeOK
  <2>3. x \in TextType /\ x.task = Len(sent[s]) + 1
    BY <2>2, TextKinds
  <2>4. sent'[s] = Append(sent[s], x) /\ \A t \in Sessions \ {s} : sent'[t] = sent[t]
    BY <2>1, <2>2
  <2>5. sent' \in [Sessions -> Seq(TextType)]
    <3>1. sent' = [sent EXCEPT ![s] = Append(@, x)]
      BY <2>1
    <3> HIDE DEF x
    <3> QED
      BY <2>2, <2>3, <3>1
  <2> HIDE DEF x
  <2>6. ASSUME NEW t \in Sessions
        PROVE  /\ Len(sent[t]) \in Nat /\ Len(sent'[t]) \in Nat /\ Len(sent'[t]) >= Len(sent[t])
               /\ \A i \in 1 .. Len(sent'[t]) : sent'[t][i].task = i
    <3>1. sent[t] \in Seq(TextType) /\ \A i \in 1 .. Len(sent[t]) : sent[t][i].task = i
      BY DEF TypeOK
    <3>2. CASE t = s
      <4>1. /\ Len(sent'[s]) = Len(sent[s]) + 1 /\ sent'[s][Len(sent[s]) + 1] = x
            /\ \A i \in 1 .. Len(sent[s]) : sent'[s][i] = sent[s][i]
            /\ Len(sent[s]) \in Nat
        BY <2>2, <2>3, <2>4
      <4>2. \A i \in 1 .. Len(sent'[s]) : i \in 1 .. Len(sent[s]) \/ i = Len(sent[s]) + 1
        BY <4>1
      <4>3. \A i \in 1 .. Len(sent[s]) : sent'[s][i].task = i
        BY <3>1, <3>2, <4>1
      <4>4. sent'[s][Len(sent[s]) + 1].task = Len(sent[s]) + 1
        BY <2>3, <4>1
      <4>5. ASSUME NEW i \in 1 .. Len(sent'[s]) PROVE sent'[s][i].task = i
        BY <4>2, <4>3, <4>4
      <4> QED
        BY <3>2, <4>1, <4>5
    <3>3. CASE t # s
      BY <2>4, <3>1, <3>3
    <3> QED
      BY <3>2, <3>3
  <2>7. UNCHANGED <<arrived, taken, ran, done, whole, text, reading, isRunning, steps, unit, author>>
    BY <1>1 DEF SendCommand, readVars, deviceVars, historyVars
  <2>8. \A t \in Sessions : arrived'[t] <= 2 * Len(sent'[t])
    <3>1. \A t \in Sessions : arrived[t] \in Nat /\ arrived[t] <= 2 * Len(sent[t])
      BY DEF TypeOK
    <3> QED
      BY <2>6, <2>7, <3>1
  <2>9. \A t \in Sessions : SessionOK(t)'
    BY <2>6, <2>7, <2>8 DEF SessionOK, TypeOK, At
  <2> QED
    BY <2>5, <2>7, <2>9 DEF TypeOK, SessionOK
<1>2. ASSUME NEW s \in Sessions, Arrive(s) PROVE TypeOK'
  <2>1. PICK n \in arrived[s] + 1 .. 2 * Len(sent[s]) : arrived' = [arrived EXCEPT ![s] = n]
    BY <1>2 DEF Arrive
  <2>2. UNCHANGED <<sent, taken, ran, done, whole, text, reading, isRunning, steps, unit, author>>
    BY <1>2 DEF Arrive, readVars, deviceVars, historyVars
  <2>3. arrived' \in [Sessions -> Nat]
    BY <2>1 DEF TypeOK
  <2>4. ASSUME NEW t \in Sessions
        PROVE  taken[t] <= arrived'[t] /\ arrived'[t] <= 2 * Len(sent[t])
    <3>1. /\ taken[t] \in Nat /\ arrived[t] \in Nat /\ Len(sent[t]) \in Nat
          /\ taken[t] <= arrived[t] /\ arrived[t] <= 2 * Len(sent[t])
      BY DEF TypeOK
    <3>2. arrived'[t] = IF t = s THEN n ELSE arrived[t]
      BY <2>1 DEF TypeOK
    <3>3. t = s => arrived[t] < n /\ n <= 2 * Len(sent[t])
      BY <2>1, <3>1
    <3> QED
      BY <3>1, <3>2, <3>3
  <2> QED
    BY <2>2, <2>3, <2>4 DEF TypeOK, At
<1>3. ASSUME NEW s \in Sessions, EnterRead(s) \/ ReadFails(s) \/ BroadcastFails(s) PROVE TypeOK'
  <2>1. /\ UNCHANGED <<sent, arrived, taken, ran, done, whole, text, steps, unit, author>>
        /\ isRunning' \in {isRunning, [isRunning EXCEPT ![s] = FALSE]}
        /\ \/ reading' \in {reading, [reading EXCEPT ![s] = FALSE]}
           \/ reading' = [reading EXCEPT ![s] = TRUE] /\ steps[s] = <<>>
    BY <1>3 DEF EnterRead, ReadFails, BroadcastFails, streamVars, readVars, deviceVars, historyVars
  <2>2. isRunning' \in [Sessions -> BOOLEAN] /\ reading' \in [Sessions -> BOOLEAN]
    BY <2>1, Zenon DEF TypeOK
  <2>3. \A t \in Sessions : steps[t] # <<>> => ~reading'[t]
    BY <2>1 DEF TypeOK
  <2>4. \A t \in Sessions : SessionOK(t)'
    BY <2>1, <2>3, Zenon DEF SessionOK, TypeOK, At
  <2> QED
    BY <2>1, <2>2, <2>4, Zenon DEF TypeOK, SessionOK
<1>5. ASSUME NEW s \in Sessions, HeadError(s) PROVE TypeOK'
  <2>1. Take(s) /\ UNCHANGED <<ran, done, whole, text, steps, author>>
    BY <1>5 DEF HeadError, historyVars
  <2>2. ASSUME NEW t \in Sessions, NEW i \in 1 .. Len(done[t])
        PROVE  done[t][i] > 0 /\ 2 * done[t][i] <= taken'[t]
    <3>1. taken[t] \in Nat /\ taken'[t] \in Nat /\ taken[t] <= taken'[t]
      BY <2>1, TakeType DEF TypeOK
    <3>2. done[t][i] \in Nat /\ done[t][i] > 0 /\ 2 * done[t][i] <= taken[t]
      BY DoneBound
    <3> QED
      BY <3>1, <3>2
  <2>3. /\ reading' = [reading EXCEPT ![s] = FALSE] /\ UNCHANGED <<sent, arrived, isRunning, unit>>
        /\ taken' \in [Sessions -> Nat] /\ \A t \in Sessions : taken'[t] <= arrived[t]
    BY <2>1, TakeType
  <2>4. reading' \in [Sessions -> BOOLEAN] /\ \A t \in Sessions : reading'[t] => reading[t]
    BY <2>3 DEF TypeOK
  <2>5. \A t \in Sessions : SessionOK(t)'
    BY <2>1, <2>2, <2>3, <2>4, Zenon DEF SessionOK, TypeOK, At
  <2> QED
    BY <2>1, <2>3, <2>4, <2>5, Zenon DEF TypeOK, SessionOK
<1>8. ASSUME NEW s \in Sessions, Abandon(s), steps[s] # <<>> PROVE TypeOK'
  <2>1. 0 \in 0 .. CMD - 1
    BY DispatcherAssumption
  <2>2. /\ unit' = [unit EXCEPT ![s] = 0]
        /\ steps' = [steps EXCEPT ![s] = <<>>]
        /\ isRunning' \in {[isRunning EXCEPT ![s] = FALSE], isRunning}
        /\ UNCHANGED <<sent, arrived, taken, ran, done, whole, text, reading, author>>
    BY <1>8 DEF Abandon, streamVars, readVars, historyVars
  <2> QED
    BY <1>8, <2>1, <2>2, WorkType DEF TypeOK
<1>9. ASSUME NEW s \in Sessions, Answer(s) \/ AnswerFails(s) \/ Parse(s) PROVE TypeOK'
  <2>1. /\ steps[s] # <<>> /\ ~At(s, "write")
        /\ steps' = [steps EXCEPT ![s] = Tail(@)]
        /\ isRunning' \in {[isRunning EXCEPT ![s] = FALSE], isRunning}
        /\ UNCHANGED <<sent, arrived, taken, ran, done, whole, text, reading, unit, author>>
    BY <1>9 DEF Answer, AnswerFails, Answers, Parse, At, StepDone, streamVars, readVars,
                deviceVars, historyVars
  <2>2. unit[s] = 0
    BY <2>1 DEF TypeOK
  <2>3. isRunning' \in [Sessions -> BOOLEAN]
    BY <2>1 DEF TypeOK
  <2> QED
    BY <2>1, <2>2, <2>3, WorkType DEF TypeOK
<1>10. ASSUME NEW s \in Sessions, ParseFails(s) \/ Throw(s) PROVE TypeOK'
  BY <1>8, <1>10 DEF ParseFails, Throw, At
<1>11. ASSUME NEW s \in Sessions, WriteStreamCmd(s) PROVE TypeOK'
  <2>1. PICK n \in 1 .. CMD - unit[s] :
            IF unit[s] + n < CMD
            THEN /\ unit' = [unit EXCEPT ![s] = @ + n]
                 /\ UNCHANGED <<steps, device, author>>
            ELSE /\ unit' = [unit EXCEPT ![s] = 0]
                 /\ StepDone(s)
                 /\ author' \in {[f \in Fields |-> IF f \in Named(s) THEN s ELSE Nobody], author}
    BY <1>11 DEF WriteStreamCmd
  <2>2. /\ At(s, "write")
        /\ UNCHANGED <<sent, arrived, taken, ran, done, whole, text, reading, isRunning>>
    BY <1>11 DEF WriteStreamCmd, streamVars, readVars
  <2>3. CASE unit[s] + n < CMD
    <3>1. unit' \in [Sessions -> 0 .. CMD - 1]
      <4>1. unit[s] \in Nat /\ CMD \in Nat /\ n \in Nat
        BY <2>1, DispatcherAssumption DEF TypeOK
      <4>2. unit[s] + n \in 0 .. CMD - 1
        BY <2>3, <4>1
      <4> QED
        BY <2>1, <2>3, <4>2 DEF TypeOK
    <3>2. \A t \in Sessions : unit'[t] > 0 => At(t, "write")
      BY <2>1, <2>2, <2>3 DEF TypeOK
    <3>3. \A t \in Sessions : SessionOK(t)'
      BY <2>1, <2>2, <2>3, <3>2, Zenon DEF SessionOK, TypeOK, At
    <3> QED
      BY <2>1, <2>2, <2>3, <3>1, <3>3, Zenon DEF TypeOK, SessionOK
  <2>4. CASE ~(unit[s] + n < CMD)
    <3>1. 0 \in 0 .. CMD - 1
      BY DispatcherAssumption
    <3>2. /\ unit' = [unit EXCEPT ![s] = 0]
          /\ steps' = [steps EXCEPT ![s] = Tail(@)]
          /\ author' \in {[f \in Fields |-> IF f \in Named(s) THEN s ELSE Nobody], author}
          /\ steps[s] # <<>>
      BY <2>1, <2>2, <2>4 DEF At, StepDone
    <3>3. isRunning' \in [Sessions -> BOOLEAN]
      BY <2>2 DEF TypeOK
    <3>4. /\ unit' \in [Sessions -> 0 .. CMD - 1] /\ unit'[s] = 0
          /\ \A t \in Sessions \ {s} : unit'[t] = unit[t]
      BY <3>1, <3>2 DEF TypeOK
    <3>5. author' \in [Fields -> Sessions \cup {Nobody}]
      BY <3>2 DEF TypeOK
    <3> QED
      BY <2>2, <3>2, <3>3, <3>4, <3>5, WorkType
  <2> QED
    BY <2>3, <2>4
<1>12. CASE UNCHANGED vars
  BY <1>12 DEF TypeOK, At, vars, streamVars, readVars, deviceVars, historyVars
<1> QED
  BY <1>1, <1>2, <1>3, <1>5, <1>9, <1>10, <1>11, <1>12, RecvType DEF Next, Session

\* Units are read in the order of the stream, a command executed with its own text
\* has been read, and writes are kept apart, for any clients and buffer.
THEOREM TypeCorrect == Spec => []TypeOK
  BY InitType, NextType, PTL DEF Spec

\* A head with its text: the command it executes is newer than those before.
LEMMA OwnText ==
    ASSUME TypeOK, NEW s \in Sessions, RecvCommandFun(s)
    PROVE  LET n == CommandOf(taken[s] + 1) IN
           /\ n \in 1 .. Len(sent[s]) /\ n \in Nat
           /\ \A i \in 1 .. Len(done[s]) : done[s][i] < n
           /\ HasText(s) => /\ text'[s] = FirstCommand(s)
                            /\ ran' = [ran EXCEPT ![s] = Append(@, n)]
                            /\ done' = [done EXCEPT ![s] = Append(@, n)]
           /\ ~HasText(s) => done' = done /\ ~whole'[s]
           /\ \E k \in Nat : ran' = [ran EXCEPT ![s] = Append(@, k)]
<1> DEFINE n == CommandOf(taken[s] + 1)
<1>1. taken[s] < arrived[s] /\ IsHead(taken[s] + 1)
  BY DEF RecvCommandFun, Take
<1>2. PICK c \in Texts(s) :
          /\ text' = [text EXCEPT ![s] = c]
          /\ ran' = [ran EXCEPT ![s] = Append(@, c.task)]
          /\ done' = IF HasText(s) THEN [done EXCEPT ![s] = Append(@, c.task)] ELSE done
  BY DEF RecvCommandFun
<1>3. /\ n \in 1 .. Len(sent[s]) /\ n \in Nat /\ FirstCommand(s).task = n
      /\ \A i \in 1 .. Len(done[s]) : done[s][i] < n
  BY <1>1, HeadIsNew
<1>4. c.task \in Nat
  BY <1>1, <1>2, TextsType DEF TextType
<1>5. HasText(s) => c = FirstCommand(s)
  BY <1>2 DEF Texts
<1>6. text'[s] = c
  BY <1>2 DEF TypeOK
<1>7. ~HasText(s) => ~whole'[s]
  BY DEF RecvCommandFun, TypeOK
<1> HIDE DEF n
<1> QED
  BY <1>2, <1>3, <1>4, <1>5, <1>6, <1>7 DEF n

\* Framing may lose commands, but those whose text came with the head are executed
\* in order and none twice, however the stream is cut and joined.
THEOREM InOrder == Spec => InOrderOnce
<1>1. Init => Framing!Init
  BY DEF Init, Framing!Init
<1>2. TypeOK /\ [Next]_vars => [Framing!Next]_(Framing!vars)
  <2> SUFFICES ASSUME TypeOK, [Next]_vars PROVE [Framing!Next]_(Framing!vars)
    OBVIOUS
  <2>1. ASSUME NEW s \in Sessions, SendCommand(s) PROVE Framing!Send
    <3>1. PICK c \in Commands :
              sent' = [sent EXCEPT ![s] =
                  Append(@, [task |-> Len(@) + 1, kind |-> c.kind, set |-> c.set])]
      BY <2>1 DEF SendCommand
    <3>2. \A t \in Sessions : Len(sent'[t]) = Len(sent[t]) + (IF t \in {s} THEN 1 ELSE 0)
      <4>1. PICK x : sent' = [sent EXCEPT ![s] = Append(@, x)]
        BY <3>1
      <4>2. sent \in [Sessions -> Seq(TextType)]
        BY DEF TypeOK
      <4> QED
        BY <4>1, <4>2
    <3>3. done' = done
      BY <2>1 DEF SendCommand, readVars
    <3>4. {s} \in SUBSET Sessions
      OBVIOUS
    <3> QED
      BY <3>2, <3>3, <3>4 DEF Framing!Send
  <2>2. UNCHANGED <<sent, done>> => UNCHANGED Framing!vars
    BY DEF Framing!vars
  <2>3. ASSUME NEW s \in Sessions, RecvCommandFun(s)
        PROVE  Framing!Deliver(s) \/ UNCHANGED <<sent, done>>
    <3>1. sent' = sent
      BY <2>3 DEF RecvCommandFun, Take, streamVars
    <3>2. CASE HasText(s)
      BY <2>3, <3>1, <3>2, OwnText DEF Framing!Deliver
    <3>3. CASE ~HasText(s)
      BY <2>3, <3>1, <3>3, OwnText
    <3> QED
      BY <3>2, <3>3
  <2>4. ASSUME NEW s \in Sessions,
               Arrive(s) \/ EnterRead(s) \/ ReadFails(s) \/ BroadcastFails(s) \/ HeadError(s)
                 \/ Answer(s) \/ AnswerFails(s) \/ Parse(s)
                 \/ ParseFails(s) \/ Throw(s) \/ WriteStreamCmd(s)
        PROVE  UNCHANGED <<sent, done>>
    BY <2>4 DEF Arrive, EnterRead, ReadFails, BroadcastFails, HeadError, Take, Answer, AnswerFails,
                Parse, ParseFails, Throw, WriteStreamCmd, Abandon, streamVars, readVars
  <2>5. CASE UNCHANGED vars
    BY <2>2, <2>5 DEF vars, streamVars, readVars
  <2> QED
    BY <2>1, <2>2, <2>3, <2>4, <2>5 DEF Next, Session, Framing!Next
<1> QED
  BY TypeCorrect, <1>1, <1>2, PTL DEF Spec, InOrderOnce, Framing!Spec


(***************************************************************************)
(* Commands that arrive one by one: as long as every read returned one     *)
(* whole command, the texts executed are those read, and the last of       *)
(* them is at work with its own text.                                      *)
(***************************************************************************)
TidyOK(s) ==
    tidy[s] =>
        /\ taken[s] = 2 * Len(ran[s])
        /\ \A i \in 1 .. Len(ran[s]) : ran[s][i] = i
        /\ steps[s] # <<>> => text[s] = sent[s][Len(ran[s])]

TidyInv == tidy \in [Sessions -> BOOLEAN] /\ \A s \in Sessions : TidyOK(s)

\* Steps that read nothing and begin no command.
LEMMA TidyFrame ==
    ASSUME TypeOK, TidyInv, UNCHANGED readVars, NEW s \in Sessions,
           steps'[s] # <<>> => steps[s] # <<>>,
           \A i \in 1 .. Len(sent[s]) : sent'[s][i] = sent[s][i]
    PROVE  TidyOK(s)'
<1>1. UNCHANGED <<tidy, taken, ran, text>> /\ TidyOK(s)
  BY DEF TidyInv, readVars
<1>2. ASSUME tidy[s], steps[s] # <<>> PROVE Len(ran[s]) \in 1 .. Len(sent[s])
  <2>1. /\ ran[s] # <<>> /\ ran[s] \in Seq(Nat) /\ taken[s] = 2 * Len(ran[s])
        /\ taken[s] <= arrived[s] /\ arrived[s] <= 2 * Len(sent[s])
        /\ taken[s] \in Nat /\ arrived[s] \in Nat /\ sent[s] \in Seq(TextType)
    BY <1>1, <1>2 DEF TypeOK, TidyOK
  <2>2. Len(ran[s]) \in Nat \ {0} /\ Len(sent[s]) \in Nat
    BY <2>1
  <2> QED
    BY <2>1, <2>2
<1> QED
  BY <1>1, <1>2 DEF TidyOK

LEMMA HalfOfHead ==
    ASSUME NEW k \in Nat
    PROVE  CommandOf(2 * k + 1) = k + 1 /\ (2 * k) \div 2 = k
<1>1. \A j \in Nat : (2 * j) \div 2 = j
  OBVIOUS
<1>2. (2 * k + 1) + 1 = 2 * (k + 1) /\ k + 1 \in Nat
  OBVIOUS
<1>3. (2 * (k + 1)) \div 2 = k + 1
  BY <1>1, <1>2
<1> QED
  BY <1>1, <1>2, <1>3, Zenon DEF CommandOf

LEMMA TidyRead ==
    ASSUME TypeOK, TidyInv, NEW s \in Sessions, RecvCommandFun(s)
    PROVE  TidyOK(s)'
<1> SUFFICES ASSUME tidy'[s] PROVE TidyOK(s)'
  BY DEF TidyOK
<1> DEFINE k == Len(ran[s])
<1>1. tidy[s] /\ IsHead(taken[s] + 1) /\ ReadEnd(s) = taken[s] + 2
  <2>1. tidy'[s] = (tidy[s] /\ IsHead(taken[s] + 1) /\ ReadEnd(s) = taken[s] + 2)
    BY DEF RecvCommandFun, Take, TidyInv
  <2> QED
    BY <2>1
<1>2. k \in Nat /\ taken[s] = 2 * k /\ \A i \in 1 .. k : ran[s][i] = i
  <2>1. TidyOK(s) /\ ran[s] \in Seq(Nat)
    BY DEF TypeOK, TidyInv
  <2>2. k \in Nat
    BY <2>1
  <2> QED
    BY <1>1, <2>1, <2>2, Zenon DEF TidyOK
<1>3. CommandOf(taken[s] + 1) = k + 1
  BY <1>2, HalfOfHead
<1>4. taken'[s] = taken[s] + 2 /\ sent' = sent
  BY <1>1 DEF RecvCommandFun, Take, TypeOK, streamVars
<1>5. ran'[s] = Append(ran[s], k + 1) /\ text'[s] = sent[s][k + 1]
  <2>1. HasText(s)
    BY <1>1, <1>2 DEF HasText
  <2>2. ran' = [ran EXCEPT ![s] = Append(@, k + 1)] /\ text'[s] = FirstCommand(s)
    BY <1>3, <2>1, OwnText
  <2> QED
    BY <1>3, <2>2 DEF FirstCommand, TypeOK
<1>7. Len(ran'[s]) = k + 1 /\ \A i \in 1 .. k + 1 : ran'[s][i] = i
  <2>1. ran[s] \in Seq(Nat)
    BY DEF TypeOK
  <2> QED
    BY <1>2, <1>5, <2>1
<1>8. taken'[s] = 2 * Len(ran'[s])
  BY <1>2, <1>4, <1>7
<1> HIDE DEF k
<1> QED
  BY <1>4, <1>5, <1>7, <1>8 DEF TidyOK

LEMMA TidyStep ==
    ASSUME TypeOK, TidyInv, [Next]_vars
    PROVE  TidyInv'
<1>1. ASSUME NEW t \in Sessions, SendCommand(t) PROVE TidyInv'
  <2>1. \E x : sent' = [sent EXCEPT ![t] = Append(@, x)]
    BY <1>1 DEF SendCommand
  <2>2. UNCHANGED <<readVars, steps>>
    BY <1>1 DEF SendCommand
  <2>3. ASSUME NEW s \in Sessions PROVE TidyOK(s)'
    <3>1. \A i \in 1 .. Len(sent[s]) : sent'[s][i] = sent[s][i]
      BY <2>1 DEF TypeOK
    <3> QED
      BY <2>2, <3>1, TidyFrame
  <2> QED
    BY <2>2, <2>3 DEF TidyInv, readVars
<1>2. ASSUME NEW t \in Sessions, HeadError(t) \/ RecvCommandFun(t) PROVE TidyInv'
  <2>1. /\ tidy' = [tidy EXCEPT ![t] = @ /\ IsHead(taken[t] + 1) /\ ReadEnd(t) = taken[t] + 2]
        /\ taken' = [taken EXCEPT ![t] = ReadEnd(t)] /\ UNCHANGED sent
    BY <1>2 DEF HeadError, RecvCommandFun, Take, streamVars
  <2>2. tidy' \in [Sessions -> BOOLEAN]
    BY <2>1 DEF TidyInv
  <2>3. ASSUME NEW s \in Sessions, s # t PROVE TidyOK(s)'
    <3>1. tidy'[s] = tidy[s] /\ taken'[s] = taken[s]
      BY <2>1, <2>3 DEF TypeOK, TidyInv
    <3>2. ran'[s] = ran[s] /\ text'[s] = text[s] /\ steps'[s] = steps[s]
      <4>1. CASE HeadError(t)
        BY <4>1 DEF HeadError
      <4>2. CASE RecvCommandFun(t)
        BY <2>3, <4>2 DEF RecvCommandFun, TypeOK
      <4> QED
        BY <1>2, <4>1, <4>2
    <3> QED
      BY <2>1, <3>1, <3>2 DEF TidyInv, TidyOK
  <2>4. ASSUME NEW s \in Sessions, s = t PROVE TidyOK(s)'
    <3>1. CASE HeadError(s)
      <4>0. taken[s] \in Nat
        BY DEF TypeOK
      <4>1. ~tidy'[s]
        <5>1. ~(ReadEnd(s) > taken[s] + 1) => ReadEnd(s) # taken[s] + 2
          BY <4>0
        <5> QED
          BY <2>1, <2>4, <3>1, <5>1 DEF HeadError, HasText, TidyInv
      <4> QED
        BY <4>1 DEF TidyOK
    <3>2. CASE RecvCommandFun(s)
      BY <3>2, TidyRead
    <3> QED
      BY <1>2, <2>4, <3>1, <3>2
  <2> QED
    BY <2>2, <2>3, <2>4 DEF TidyInv
<1>3. ASSUME NEW t \in Sessions, steps[t] # <<>>, UNCHANGED <<streamVars, readVars>>,
             \/ steps' = [steps EXCEPT ![t] = Tail(@)]
             \/ steps' = [steps EXCEPT ![t] = <<>>]
             \/ steps' = steps
      PROVE  TidyInv'
  <2>1. ASSUME NEW s \in Sessions PROVE steps'[s] # <<>> => steps[s] # <<>>
    <3>1. steps \in [Sessions -> Seq(Step)]
      BY DEF TypeOK, Step
    <3>2. s # t => steps'[s] = steps[s]
      BY <1>3, <3>1
    <3> QED
      BY <1>3, <3>2
  <2>2. ASSUME NEW s \in Sessions PROVE TidyOK(s)'
    BY <1>3, <2>1, TidyFrame DEF streamVars
  <2> QED
    BY <1>3, <2>2 DEF TidyInv, readVars
<1>4. ASSUME NEW t \in Sessions,
             Arrive(t) \/ EnterRead(t) \/ ReadFails(t) \/ BroadcastFails(t)
      PROVE  TidyInv'
  <2>1. UNCHANGED <<sent, readVars, steps>>
    BY <1>4 DEF Arrive, EnterRead, ReadFails, BroadcastFails, streamVars
  <2>2. ASSUME NEW s \in Sessions PROVE TidyOK(s)'
    BY <2>1, TidyFrame
  <2> QED
    BY <2>1, <2>2 DEF TidyInv, readVars
<1>5. ASSUME NEW t \in Sessions,
             Answer(t) \/ AnswerFails(t) \/ Parse(t) \/ ParseFails(t) \/ Throw(t)
      PROVE  TidyInv'
  BY <1>3, <1>5 DEF Answer, AnswerFails, Parse, ParseFails, Throw, Abandon, At, StepDone
<1>6. ASSUME NEW t \in Sessions, WriteStreamCmd(t) PROVE TidyInv'
  <2>1. steps' = steps \/ steps' = [steps EXCEPT ![t] = Tail(@)]
    BY <1>6 DEF WriteStreamCmd, StepDone
  <2>2. steps[t] # <<>> /\ UNCHANGED <<streamVars, readVars>>
    BY <1>6 DEF WriteStreamCmd, At
  <2> QED
    BY <1>3, <2>1, <2>2
<1>7. CASE UNCHANGED vars
  <2>1. UNCHANGED <<sent, readVars, steps>>
    BY <1>7 DEF vars, streamVars
  <2>2. ASSUME NEW s \in Sessions PROVE TidyOK(s)'
    BY <2>1, TidyFrame
  <2> QED
    BY <2>1, <2>2 DEF TidyInv, readVars
<1> QED
  BY <1>1, <1>2, <1>4, <1>5, <1>6, <1>7 DEF Next, Session

LEMMA TidyInit == Init => TidyInv
<1> SUFFICES ASSUME Init PROVE TidyInv
  OBVIOUS
<1>1. tidy \in [Sessions -> BOOLEAN]
  BY DEF Init
<1>2. \A s \in Sessions : ran[s] = <<>> /\ steps[s] = <<>> /\ taken[s] = 0
  BY DEF Init
<1> QED
  BY <1>1, <1>2 DEF TidyInv, TidyOK

\* A client that waits for each command to be read before it sends the next one
\* in one piece loses none and no text is mixed up, for any buffer and any other
\* clients.
THEOREM OneByOne == Spec => []OneByOneIsSafe
<1>1. TypeOK /\ TidyInv => OneByOneIsSafe
  <2> SUFFICES ASSUME TypeOK, TidyInv, NEW s \in Sessions, tidy[s]
               PROVE  /\ ran[s] = [i \in 1 .. taken[s] \div 2 |-> i]
                      /\ steps[s] # <<>> => text[s] = sent[s][Run(s)]
    BY DEF OneByOneIsSafe
  <2> DEFINE k == Len(ran[s])
  <2>1. /\ k \in Nat /\ taken[s] = 2 * k /\ ran[s] \in Seq(Nat)
        /\ \A i \in 1 .. k : ran[s][i] = i
        /\ steps[s] # <<>> => text[s] = sent[s][k] /\ ran[s] # <<>>
    <3>1. TidyOK(s)
      BY DEF TidyInv
    <3>2. ran[s] \in Seq(Nat) /\ (steps[s] # <<>> => ran[s] # <<>>)
      BY DEF TypeOK
    <3>3. k \in Nat
      BY <3>2
    <3> QED
      BY <3>1, <3>2, <3>3 DEF TidyOK
  <2>2. taken[s] \div 2 = k
    <3>1. (2 * k) \div 2 = k
      BY <2>1, HalfOfHead
    <3> QED
      BY <2>1, <3>1, Zenon
  <2>3. ran[s] = [i \in 1 .. k |-> i]
    BY <2>1
  <2>4. Run(s) = k
    BY DEF Run
  <2> QED
    BY <2>1, <2>2, <2>3, <2>4
<1>2. TypeOK /\ TidyInv /\ [Next]_vars => TidyInv'
  BY TidyStep
<1> QED
  BY TypeCorrect, TidyInit, <1>1, <1>2, PTL DEF Spec

(***************************************************************************)
(* Where a command stands: the steps left are the end of its script, and   *)
(* WriteNumber counts the ones done.                                       *)
(***************************************************************************)
ScriptOf(s) == Script[text[s].kind]

SuffixOK(s) ==
    /\ Len(steps[s]) <= Len(ScriptOf(s))
    /\ \A i \in 1 .. Len(steps[s]) : steps[s][i] = ScriptOf(s)[WriteNumber(s) + i]

SuffixInv == \A s \in Sessions : SuffixOK(s)

Wide(s) == text[s].kind = "wide" /\ steps[s] # <<>>

LEMMA WideScript ==
    /\ Len(Script["wide"]) = WBWrites + 3
    /\ Script["wide"][1] = "parse"
    /\ \A i \in 2 .. WBWrites + 1 : Script["wide"][i] = "write"
    /\ Script["wide"][WBWrites + 2] = "accept"
    /\ Script["wide"][WBWrites + 3] = "report"
<1> DEFINE w == Write(WBWrites)
<1>1. Script["wide"] = <<"parse">> \o w \o <<"accept", "report">>
  BY DEF Script, Kinds
<1>2. w \in Seq(Step) /\ Len(w) = WBWrites /\ \A i \in 1 .. WBWrites : w[i] = "write"
  BY DispatcherAssumption DEF Write, Step
<1>3. WBWrites \in Nat \ {0}
  BY DispatcherAssumption
<1> HIDE DEF w
<1>4. <<"parse">> \in Seq(Step) /\ <<"accept", "report">> \in Seq(Step)
  BY DEF Step
<1> QED
  BY <1>1, <1>2, <1>3, <1>4

LEMMA TextScript ==
    ASSUME TypeOK, NEW s \in Sessions
    PROVE  /\ ScriptOf(s) \in Seq(Step) /\ steps[s] \in Seq(Step)
           /\ Len(ScriptOf(s)) \in Nat /\ Len(steps[s]) \in Nat
           /\ WriteNumber(s) = Len(ScriptOf(s)) - Len(steps[s])
<1>1. text[s].kind \in Kinds /\ steps[s] \in Seq(Step)
  BY DEF TypeOK, TextType, Step
<1>2. ScriptOf(s) \in Seq(Step)
  BY <1>1, ScriptType DEF ScriptOf
<1> QED
  BY <1>1, <1>2 DEF ScriptOf, WriteNumber

LEMMA Stands ==
    ASSUME TypeOK, SuffixInv, NEW s \in Sessions, steps[s] # <<>>
    PROVE  /\ WriteNumber(s) \in Nat
           /\ WriteNumber(s) + 1 \in 1 .. Len(ScriptOf(s))
           /\ Head(steps[s]) = ScriptOf(s)[WriteNumber(s) + 1]
<1>1. SuffixOK(s) /\ 1 \in 1 .. Len(steps[s])
  BY TextScript DEF SuffixInv
<1>2. Head(steps[s]) = steps[s][1]
  BY TextScript
<1> QED
  BY <1>1, <1>2, TextScript DEF SuffixOK

\* A wide-band command that is to write has done its parse and the writes before;
\* one that is to be acknowledged has done them all.
LEMMA WideStands ==
    ASSUME TypeOK, SuffixInv, NEW s \in Sessions, Wide(s)
    PROVE  /\ WriteNumber(s) \in 0 .. WBWrites + 2
           /\ At(s, "parse") => WriteNumber(s) = 0
           /\ At(s, "write") => WriteNumber(s) \in 1 .. WBWrites
           /\ At(s, "accept") => WriteNumber(s) = WBWrites + 1
           /\ At(s, "report") => WriteNumber(s) = WBWrites + 2
           /\ ~At(s, "deny") /\ ~At(s, "throw")
<1> DEFINE p == WriteNumber(s)
<1>1. /\ p \in Nat /\ p + 1 <= WBWrites + 3
      /\ Head(steps[s]) = Script["wide"][p + 1]
  BY Stands, WideScript DEF Wide, ScriptOf
<1>2. \/ p = 0 /\ Head(steps[s]) = "parse"
      \/ p \in 1 .. WBWrites /\ Head(steps[s]) = "write"
      \/ p = WBWrites + 1 /\ Head(steps[s]) = "accept"
      \/ p = WBWrites + 2 /\ Head(steps[s]) = "report"
  <2> HIDE DEF p
  <2>1. WBWrites \in Nat
    BY DispatcherAssumption
  <2>2. p = 0 \/ p + 1 \in 2 .. WBWrites + 1 \/ p = WBWrites + 1 \/ p = WBWrites + 2
    BY <1>1, <2>1
  <2>3. p = WBWrites + 1 => p + 1 = WBWrites + 2
    BY <2>1
  <2>4. p = WBWrites + 2 => p + 1 = WBWrites + 3
    BY <2>1
  <2>5. p + 1 \in 2 .. WBWrites + 1 => p \in 1 .. WBWrites
    BY <1>1, <2>1
  <2> QED
    BY <1>1, <2>2, <2>3, <2>4, <2>5, WideScript
<1> HIDE DEF p
<1>3. WBWrites \in Nat
  BY DispatcherAssumption
<1> QED
  BY <1>2, <1>3 DEF At, p

\* Whoever writes has a text that writes.
LEMMA WriterWrites ==
    ASSUME TypeOK, SuffixInv, NEW s \in Sessions, At(s, "write")
    PROVE  Writes(text[s])
<1>1. steps[s] # <<>> /\ Head(steps[s]) = "write"
  BY DEF At
<1>2. WriteNumber(s) + 1 \in DOMAIN ScriptOf(s) /\ ScriptOf(s)[WriteNumber(s) + 1] = "write"
  BY <1>1, Stands, TextScript
<1> QED
  BY <1>2 DEF Writes, ScriptOf

LEMMA WideWrites == \A c : c.kind = "wide" => Writes(c)
<1>1. 2 \in 2 .. WBWrites + 1 /\ 2 \in 1 .. WBWrites + 3
  BY DispatcherAssumption
<1>2. Script["wide"] \in Seq(Step)
  BY ScriptType DEF Kinds
<1>3. 2 \in DOMAIN Script["wide"] /\ Script["wide"][2] = "write"
  BY <1>1, <1>2, WideScript
<1> QED
  BY <1>3 DEF Writes

LEMMA Advance ==
    ASSUME TypeOK, SuffixInv, NEW s \in Sessions, steps[s] # <<>>,
           steps'[s] = Tail(steps[s]), text'[s] = text[s]
    PROVE  SuffixOK(s)' /\ WriteNumber(s)' = WriteNumber(s) + 1
<1> DEFINE L == Len(ScriptOf(s))
<1>1. /\ L \in Nat /\ steps[s] \in Seq(Step) /\ Len(steps[s]) \in Nat \ {0}
      /\ WriteNumber(s) = L - Len(steps[s])
  BY TextScript
<1>2. SuffixOK(s)
  BY DEF SuffixInv
<1>3. /\ Len(steps'[s]) = Len(steps[s]) - 1
      /\ \A i \in 1 .. Len(steps[s]) - 1 : steps'[s][i] = steps[s][i + 1]
  BY <1>1
<1>4. ScriptOf(s)' = ScriptOf(s) /\ WriteNumber(s)' = L - Len(steps'[s])
  BY DEF ScriptOf, WriteNumber
<1>5. WriteNumber(s)' = WriteNumber(s) + 1
  <2> HIDE DEF L
  <2> QED
    BY <1>1, <1>3, <1>4
<1>6. ASSUME NEW i \in 1 .. Len(steps'[s])
      PROVE  steps'[s][i] = ScriptOf(s)[WriteNumber(s)' + i]
  <2>1. i \in 1 .. Len(steps[s]) - 1 /\ i + 1 \in 1 .. Len(steps[s])
    BY <1>1, <1>3
  <2>2. steps[s][i + 1] = ScriptOf(s)[WriteNumber(s) + (i + 1)]
    BY <1>2, <2>1 DEF SuffixOK
  <2>3. WriteNumber(s) + (i + 1) = WriteNumber(s)' + i
    <3>1. WriteNumber(s) \in Int
      BY <1>1
    <3> QED
      BY <1>5, <2>1, <3>1
  <2> QED
    BY <1>3, <2>1, <2>2, <2>3
<1>7. Len(steps'[s]) <= L
  <2> HIDE DEF L
  <2>1. Len(steps[s]) <= L
    BY <1>2 DEF SuffixOK, L
  <2> QED
    BY <1>1, <1>3, <2>1
<1> QED
  BY <1>4, <1>5, <1>6, <1>7 DEF SuffixOK

(***************************************************************************)
(* What a step does to the commands at work.                               *)
(***************************************************************************)
Quiet == UNCHANGED <<ran, whole, text, steps, ReplayCommand, deviceVars, answers, historyVars>>

\* The rest of the command of s is given up.
Drop(s) ==
    /\ steps[s] # <<>>
    /\ steps' = [steps EXCEPT ![s] = <<>>]
    /\ unit' = [unit EXCEPT ![s] = 0]
    /\ \/ ReplayCommand' = ReplayCommand
       \/ At(s, "parse") /\ \E F \in SUBSET Named(s) : SetReplay(s, F)
    /\ UNCHANGED <<ran, whole, text, wire, device, answers, historyVars>>

\* A step that is done, and changes nothing but the answers.
Reply(s) ==
    /\ \E a \in Answers :
        /\ At(s, a)
        /\ \/ answers' = answers
           \/ answers' = [answers EXCEPT ![s] = Append(@,
                [run |-> Run(s), task |-> Task(s), what |-> a, kind |-> text[s].kind])]
    /\ StepDone(s)
    /\ UNCHANGED <<ran, whole, text, ReplayCommand, deviceVars, historyVars>>

LEMMA StepCases ==
    ASSUME [Next]_vars
    PROVE  Quiet \/ \E s \in Sessions :
               RecvCommandFun(s) \/ Reply(s) \/ Parse(s) \/ Drop(s) \/ WriteStreamCmd(s)
<1>1. ASSUME NEW s \in Sessions,
             SendCommand(s) \/ Arrive(s) \/ EnterRead(s) \/ ReadFails(s) \/ BroadcastFails(s)
               \/ HeadError(s)
      PROVE  Quiet
  BY <1>1 DEF SendCommand, Arrive, EnterRead, ReadFails, BroadcastFails, HeadError, Take, Quiet,
              readVars
<1>4. ASSUME NEW s \in Sessions, Answer(s) \/ AnswerFails(s) PROVE Reply(s)
  BY <1>4 DEF Answer, AnswerFails, Reply, readVars
<1>2. ASSUME NEW s \in Sessions, ParseFails(s) \/ Throw(s) PROVE Drop(s)
  BY <1>2 DEF ParseFails, Throw, Abandon, Drop, Wide, At, readVars
<1>3. UNCHANGED vars => Quiet
  BY DEF vars, Quiet, readVars
<1> QED
  BY <1>1, <1>2, <1>3, <1>4 DEF Next, Session

\* A step of one session leaves the commands of the others.
LEMMA OthersStay ==
    ASSUME TypeOK, NEW s \in Sessions, NEW o \in Sessions, o # s,
           RecvCommandFun(s) \/ Reply(s) \/ Parse(s) \/ Drop(s) \/ WriteStreamCmd(s)
    PROVE  /\ steps'[o] = steps[o] /\ text'[o] = text[o]
           /\ ran'[o] = ran[o] /\ unit'[o] = unit[o]
<1>1. /\ steps \in [Sessions -> Seq(Step)] /\ unit \in [Sessions -> 0 .. CMD - 1]
      /\ ran \in [Sessions -> Seq(Nat)]
      /\ text \in [Sessions -> TextType]
  BY DEF TypeOK, Step
<1>2. CASE RecvCommandFun(s)
  BY <1>1, <1>2 DEF RecvCommandFun, Take, deviceVars
<1>3. CASE Reply(s) \/ Parse(s)
  BY <1>1, <1>3 DEF Reply, Parse, StepDone, readVars, deviceVars
<1>4. CASE Drop(s)
  BY <1>1, <1>4 DEF Drop
<1>5. CASE WriteStreamCmd(s)
  BY <1>1, <1>5 DEF WriteStreamCmd, StepDone, readVars
<1> QED
  BY <1>2, <1>3, <1>4, <1>5

LEMMA SuffixInit == Init => SuffixInv
<1> SUFFICES ASSUME Init, NEW s \in Sessions PROVE SuffixOK(s)
  BY DEF SuffixInv
<1>1. steps[s] = <<>> /\ TypeOK
  BY InitType DEF Init
<1> QED
  BY <1>1, TextScript DEF SuffixOK

LEMMA SuffixStep ==
    ASSUME TypeOK, SuffixInv, [Next]_vars
    PROVE  SuffixInv'
<1>1. ASSUME NEW s \in Sessions, steps'[s] = steps[s], text'[s] = text[s] PROVE SuffixOK(s)'
  BY <1>1 DEF SuffixInv, SuffixOK, ScriptOf, WriteNumber
<1>2. ASSUME NEW s \in Sessions, steps'[s] = <<>>, TypeOK' PROVE SuffixOK(s)'
  <2>1. Len(ScriptOf(s)') \in Nat
    <3>1. text'[s].kind \in Kinds
      BY <1>2 DEF TypeOK, TextType
    <3>2. ScriptOf(s)' \in Seq(Step)
      BY <3>1, ScriptType DEF ScriptOf
    <3> QED
      BY <3>2
  <2> QED
    BY <1>2, <2>1 DEF SuffixOK
<1>3. TypeOK'
  BY NextType
<1>4. ASSUME NEW s \in Sessions, RecvCommandFun(s) PROVE SuffixOK(s)'
  <2>1. PICK c \in Texts(s) :
            /\ text' = [text EXCEPT ![s] = c]
            /\ steps' = [steps EXCEPT ![s] = Script[c.kind]]
    BY <1>4 DEF RecvCommandFun
  <2>2. text'[s] = c /\ steps'[s] = Script[c.kind] /\ steps'[s] \in Seq(Step)
    BY <1>3, <2>1 DEF TypeOK, Step
  <2>3. ScriptOf(s)' = steps'[s] /\ WriteNumber(s)' = 0
    BY <2>2 DEF ScriptOf, WriteNumber
  <2> QED
    BY <2>2, <2>3 DEF SuffixOK
<1>5. ASSUME NEW s \in Sessions, Reply(s) \/ Parse(s) PROVE SuffixOK(s)'
  <2>1. /\ steps[s] # <<>> /\ steps'[s] = Tail(steps[s]) /\ text'[s] = text[s]
    BY <1>5 DEF Reply, Answers, Parse, At, StepDone, readVars, TypeOK
  <2> QED
    BY <2>1, Advance
<1>6. ASSUME NEW s \in Sessions, WriteStreamCmd(s) PROVE SuffixOK(s)'
  <2>1. text'[s] = text[s] /\ steps[s] # <<>>
    BY <1>6 DEF WriteStreamCmd, At, readVars
  <2>2. steps'[s] = steps[s] \/ steps'[s] = Tail(steps[s])
    BY <1>6 DEF WriteStreamCmd, StepDone, TypeOK
  <2> QED
    BY <1>1, <2>1, <2>2, Advance
<1>7. ASSUME NEW s \in Sessions, Drop(s) PROVE SuffixOK(s)'
  <2>1. steps'[s] = <<>>
    BY <1>7 DEF Drop, TypeOK
  <2> QED
    BY <1>2, <1>3, <2>1
<1>8. ASSUME NEW s \in Sessions,
             RecvCommandFun(s) \/ Reply(s) \/ Parse(s) \/ Drop(s) \/ WriteStreamCmd(s)
      PROVE  SuffixInv'
  <2>1. ASSUME NEW o \in Sessions PROVE SuffixOK(o)'
    <3>1. CASE o = s
      BY <1>4, <1>5, <1>6, <1>7, <1>8, <3>1
    <3>2. CASE o # s
      BY <1>1, <1>8, <3>2, OthersStay
    <3> QED
      BY <3>1, <3>2
  <2> QED
    BY <2>1 DEF SuffixInv
<1>9. CASE Quiet
  BY <1>1, <1>9 DEF Quiet, SuffixInv
<1> QED
  BY <1>8, <1>9, StepCases

(***************************************************************************)
(* What was written, answered and kept.                                    *)
(***************************************************************************)
UnitType == [from : Sessions, run : Nat, write : Nat, unit : Nat]

AnswerType == [run : Nat, task : Nat, what : Answers, kind : Kinds]

Held == Values \cup {Junk}

HistoryOK ==
    /\ wire \in Seq(UnitType)
    /\ answers \in [Sessions -> Seq(AnswerType)]
    /\ ReplayCommand \in [Sessions -> [Fields -> Held]]
    /\ device \in [Fields -> Held]
    /\ alone \in [Sessions -> BOOLEAN]

LEMMA TextValues ==
    ASSUME TypeOK, NEW s \in Sessions
    PROVE  /\ text[s].task \in Nat /\ text[s].kind \in Kinds
           /\ Named(s) \subseteq Fields
           /\ \A f \in Named(s) : text[s].set[f] \in Held
<1>1. text[s] \in TextType
  BY DEF TypeOK
<1>2. text[s].task \in Nat /\ text[s].kind \in Kinds /\ text[s].set \in Settings
  BY <1>1 DEF TextType
<1>3. PICK F \in SUBSET Fields : text[s].set \in [F -> Values]
  BY <1>2, Zenon DEF Settings
<1>4. Named(s) \subseteq F /\ \A f \in F : text[s].set[f] \in Values
  BY <1>3 DEF Named
<1> QED
  BY <1>2, <1>3, <1>4, Zenon DEF Held

LEMMA RunType ==
    ASSUME TypeOK, NEW s \in Sessions
    PROVE  Run(s) \in Nat
<1>1. ran[s] \in Seq(Nat)
  BY DEF TypeOK
<1> QED
  BY <1>1 DEF Run

LEMMA Joined ==
    ASSUME NEW A, NEW x \in Seq(A), NEW y \in Seq(A), NEW z, z = x \o y
    PROVE  /\ z \in Seq(A) /\ Len(z) = Len(x) + Len(y)
           /\ \A i \in 1 .. Len(x) : z[i] = x[i]
           /\ \A j \in 1 .. Len(y) : z[Len(x) + j] = y[j]
  OBVIOUS

\* What one step of a write adds to the wire.
LEMMA WireGrows ==
    ASSUME TypeOK, SuffixInv, HistoryOK, NEW s \in Sessions, At(s, "write"),
           NEW n \in 1 .. CMD - unit[s], wire' = wire \o Units(s, n)
    PROVE  /\ wire' \in Seq(UnitType)
           /\ Len(wire') = Len(wire) + n
           /\ \A i \in 1 .. Len(wire) : wire'[i] = wire[i]
           /\ \A j \in 1 .. n : wire'[Len(wire) + j] =
                 [from |-> s, run |-> Run(s), write |-> WriteNumber(s), unit |-> unit[s] + j]
<1>1. /\ CMD \in Nat \ {0} /\ unit[s] \in 0 .. CMD - 1 /\ n \in Nat
      /\ Run(s) \in Nat /\ WriteNumber(s) \in Nat
  <2>1. CMD \in Nat \ {0} /\ unit[s] \in 0 .. CMD - 1
    BY DispatcherAssumption DEF TypeOK
  <2>2. Run(s) \in Nat /\ WriteNumber(s) \in Nat
    BY Stands, RunType DEF At
  <2> QED
    BY <2>1, <2>2
<1> DEFINE u == Units(s, n)
<1>2. /\ u \in Seq(UnitType) /\ Len(u) = n
      /\ \A j \in 1 .. n : u[j] =
           [from |-> s, run |-> Run(s), write |-> WriteNumber(s), unit |-> unit[s] + j]
  <2>1. u = [j \in 1 .. n |->
           [from |-> s, run |-> Run(s), write |-> WriteNumber(s), unit |-> unit[s] + j]]
    BY DEF Units
  <2>2. \A j \in 1 .. n : unit[s] + j \in Nat
    BY <1>1
  <2> HIDE DEF u
  <2>3. \A j \in 1 .. n : u[j] \in UnitType
    BY <1>1, <2>1, <2>2 DEF UnitType
  <2> QED
    BY <1>1, <2>1, <2>3
<1>3. wire \in Seq(UnitType)
  BY DEF HistoryOK
<1> HIDE DEF u
<1>4. wire' = wire \o u
  BY DEF u
<1>5. /\ wire' \in Seq(UnitType) /\ Len(wire') = Len(wire) + n
      /\ \A i \in 1 .. Len(wire) : wire'[i] = wire[i]
      /\ \A j \in 1 .. n : wire'[Len(wire) + j] = u[j]
  <2>1. u \in Seq(UnitType) /\ Len(u) = n
    BY <1>2
  <2>2. PICK v : v = u
    OBVIOUS
  <2>3. PICK z : z = wire'
    OBVIOUS
  <2>4. PICK x : x = wire
    OBVIOUS
  <2>5. /\ z \in Seq(UnitType) /\ Len(z) = Len(x) + Len(v)
        /\ \A i \in 1 .. Len(x) : z[i] = x[i]
        /\ \A j \in 1 .. Len(v) : z[Len(x) + j] = v[j]
    BY <1>3, <1>4, <2>1, <2>2, <2>3, <2>4, Joined
  <2> QED
    BY <2>1, <2>2, <2>3, <2>4, <2>5
<1> QED
  BY <1>2, <1>5

LEMMA HistoryStep ==
    ASSUME TypeOK, SuffixInv, HistoryOK, [Next]_vars
    PROVE  HistoryOK'
<1>1. CASE Quiet
  BY <1>1 DEF Quiet, HistoryOK, deviceVars, historyVars
<1>2. ASSUME NEW s \in Sessions, RecvCommandFun(s) PROVE HistoryOK'
  <2>1. UNCHANGED <<wire, answers, ReplayCommand, device>>
    BY <1>2 DEF RecvCommandFun, Take, deviceVars
  <2>2. PICK c \in Texts(s) :
            alone' = IF Writes(c)
                     THEN [t \in Sessions |-> t = s /\ \A o \in Sessions \ {s} :
                                                 ~(Writes(text[o]) /\ steps[o] # <<>>)]
                     ELSE alone
    BY <1>2 DEF RecvCommandFun
  <2>3. alone' \in [Sessions -> BOOLEAN]
    <3>1. CASE Writes(c)
      BY <2>2, <3>1, Zenon
    <3>2. CASE ~Writes(c)
      BY <2>2, <3>2 DEF HistoryOK
    <3> QED
      BY <3>1, <3>2
  <2> QED
    BY <2>1, <2>3 DEF HistoryOK
<1>3. ASSUME NEW s \in Sessions, Reply(s) PROVE HistoryOK'
  <2>1. PICK a \in Answers :
            \/ answers' = answers
            \/ answers' = [answers EXCEPT ![s] = Append(@,
                 [run |-> Run(s), task |-> Task(s), what |-> a, kind |-> text[s].kind])]
    BY <1>3 DEF Reply
  <2>2. [run |-> Run(s), task |-> Task(s), what |-> a, kind |-> text[s].kind] \in AnswerType
    BY RunType, TextValues DEF Task, AnswerType
  <2>3. answers' \in [Sessions -> Seq(AnswerType)]
    <3> DEFINE x == [run |-> Run(s), task |-> Task(s), what |-> a, kind |-> text[s].kind]
    <3>1. answers' = answers \/ answers' = [answers EXCEPT ![s] = Append(@, x)]
      BY <2>1
    <3> HIDE DEF x
    <3>2. x \in AnswerType /\ answers \in [Sessions -> Seq(AnswerType)]
      BY <2>2 DEF HistoryOK, x
    <3>3. CASE answers' = answers
      BY <3>2, <3>3
    <3>4. CASE answers' = [answers EXCEPT ![s] = Append(@, x)]
      <4>1. Append(answers[s], x) \in Seq(AnswerType)
        BY <3>2
      <4> QED
        BY <3>2, <3>4, <4>1, Zenon
    <3> QED
      BY <3>1, <3>3, <3>4
  <2> QED
    BY <1>3, <2>3 DEF Reply, HistoryOK, deviceVars, historyVars
<1>4. ASSUME NEW s \in Sessions, Parse(s) \/ Drop(s) PROVE HistoryOK'
  <2>1. ReplayCommand' = ReplayCommand \/ \E F \in SUBSET Named(s) : SetReplay(s, F)
    BY <1>4 DEF Parse, Drop
  <2>2. ReplayCommand' \in [Sessions -> [Fields -> Held]]
    <3>1. CASE ReplayCommand' = ReplayCommand
      BY <3>1 DEF HistoryOK
    <3>2. ASSUME NEW F \in SUBSET Named(s), SetReplay(s, F)
          PROVE  ReplayCommand' \in [Sessions -> [Fields -> Held]]
      <4> DEFINE x == [f \in Fields |-> IF f \in F THEN text[s].set[f] ELSE ReplayCommand[s][f]]
      <4>1. x \in [Fields -> Held]
        BY TextValues DEF HistoryOK
      <4>2. ReplayCommand' = [ReplayCommand EXCEPT ![s] = x]
        BY <3>2 DEF SetReplay
      <4> HIDE DEF x
      <4> QED
        BY <4>1, <4>2 DEF HistoryOK
    <3> QED
      BY <2>1, <3>1, <3>2
  <2>3. UNCHANGED <<wire, answers, device, alone>>
    BY <1>4 DEF Parse, Drop, deviceVars, historyVars
  <2> QED
    BY <2>2, <2>3 DEF HistoryOK
<1>5. ASSUME NEW s \in Sessions, WriteStreamCmd(s) PROVE HistoryOK'
  <2>1. PICK n \in 1 .. CMD - unit[s] :
            /\ wire' = wire \o Units(s, n)
            /\ device' = device \/ device' = TakeOver(s, wire')
    BY <1>5 DEF WriteStreamCmd
  <2>2. wire' \in Seq(UnitType)
    BY <1>5, <2>1, WireGrows DEF WriteStreamCmd
  <2>3. TakeOver(s, wire') \in [Fields -> Held]
    <3>1. Junk \in Held /\ device \in [Fields -> Held]
      BY DEF Held, HistoryOK
    <3> QED
      BY <3>1, TextValues DEF TakeOver
  <2>4. device' \in [Fields -> Held]
    BY <2>1, <2>3 DEF HistoryOK
  <2> QED
    BY <1>5, <2>2, <2>4 DEF WriteStreamCmd, HistoryOK
<1> QED
  BY <1>1, <1>2, <1>3, <1>4, <1>5, StepCases

LEMMA HistoryInit == Init => HistoryOK
<1> SUFFICES ASSUME Init PROVE HistoryOK
  OBVIOUS
<1>1. Junk \in Held
  BY DEF Held
<1>2. wire = <<>> /\ \A s \in Sessions : answers[s] = <<>>
  BY DEF Init
<1> QED
  BY <1>1, <1>2 DEF Init, HistoryOK

(***************************************************************************)
(* Acknowledged is written: the writes behind a wide-band command, and the *)
(* units of the one in progress, have left for the device.                 *)
(***************************************************************************)
ProgressOK(s) ==
    Wide(s) => \A w \in 1 .. WBWrites, u \in 1 .. CMD :
        w < WriteNumber(s) \/ (w = WriteNumber(s) /\ u <= unit[s])
            => Written(s, Run(s), w, u)

ProgressInv == \A s \in Sessions : ProgressOK(s)

AnswersOK(s) ==
    \A i \in 1 .. Len(answers[s]) :
        answers[s][i].what = "accept" /\ answers[s][i].kind = "wide" =>
            \A w \in 1 .. WBWrites, u \in 1 .. CMD : Written(s, answers[s][i].run, w, u)

AnswersInv == \A s \in Sessions : AnswersOK(s)

\* What was written stays written.
LEMMA WrittenStays ==
    ASSUME TypeOK, SuffixInv, HistoryOK, [Next]_vars,
           NEW s, NEW n, NEW w, NEW u, Written(s, n, w, u)
    PROVE  Written(s, n, w, u)'
<1>1. CASE wire' = wire
  BY <1>1 DEF Written
<1>2. ASSUME NEW t \in Sessions, WriteStreamCmd(t) PROVE Written(s, n, w, u)'
  <2>1. PICK k \in 1 .. CMD - unit[t] : wire' = wire \o Units(t, k)
    BY <1>2 DEF WriteStreamCmd
  <2>2. /\ wire' \in Seq(UnitType) /\ k \in Nat /\ Len(wire') = Len(wire) + k
        /\ \A i \in 1 .. Len(wire) : wire'[i] = wire[i]
    <3>1. CMD - unit[t] \in Int
      BY DispatcherAssumption DEF TypeOK
    <3> QED
      BY <1>2, <2>1, <3>1, WireGrows DEF WriteStreamCmd
  <2>3. PICK i \in DOMAIN wire : wire[i] = [from |-> s, run |-> n, write |-> w, unit |-> u]
    BY DEF Written
  <2>4. i \in 1 .. Len(wire) /\ i \in DOMAIN wire'
    BY <2>2, <2>3 DEF HistoryOK
  <2> QED
    BY <2>2, <2>3, <2>4 DEF Written
<1>3. ASSUME NEW t \in Sessions, RecvCommandFun(t) \/ Reply(t) \/ Parse(t) \/ Drop(t)
      PROVE  wire' = wire
  BY <1>3 DEF RecvCommandFun, Take, Reply, Parse, Drop, deviceVars
<1>4. Quiet => wire' = wire
  BY DEF Quiet, deviceVars
<1> QED
  BY <1>1, <1>2, <1>3, <1>4, StepCases

\* A session whose command did not move keeps its progress.
LEMMA ProgressStays ==
    ASSUME TypeOK, SuffixInv, HistoryOK, [Next]_vars, NEW s \in Sessions, ProgressOK(s),
           steps'[s] = steps[s], text'[s] = text[s], ran'[s] = ran[s], unit'[s] = unit[s]
    PROVE  ProgressOK(s)'
<1>1. WriteNumber(s)' = WriteNumber(s) /\ Run(s)' = Run(s) /\ Wide(s)' = Wide(s)
  BY DEF WriteNumber, Run, Wide
<1>2. PICK n : n = Run(s)
  OBVIOUS
<1> SUFFICES ASSUME Wide(s), NEW w \in 1 .. WBWrites, NEW u \in 1 .. CMD,
                    w < WriteNumber(s) \/ (w = WriteNumber(s) /\ u <= unit[s])
             PROVE  Written(s, n, w, u)'
  BY <1>1, <1>2 DEF ProgressOK
<1>3. Written(s, n, w, u)
  BY <1>2 DEF ProgressOK
<1> QED
  BY <1>3, WrittenStays

LEMMA ProgressStep ==
    ASSUME TypeOK, SuffixInv, HistoryOK, ProgressInv, [Next]_vars
    PROVE  ProgressInv'
<1>1. ASSUME NEW s \in Sessions, RecvCommandFun(s) PROVE ProgressOK(s)'
  <2>1. PICK c \in Texts(s) :
            /\ text' = [text EXCEPT ![s] = c]
            /\ steps' = [steps EXCEPT ![s] = Script[c.kind]]
    BY <1>1 DEF RecvCommandFun
  <2>2. TypeOK'
    BY NextType
  <2>3. text'[s] = c /\ steps'[s] = Script[c.kind] /\ steps'[s] \in Seq(Step)
    BY <2>1, <2>2 DEF TypeOK, Step
  <2>4. WriteNumber(s)' = 0
    BY <2>3 DEF WriteNumber
  <2> QED
    BY <2>4 DEF ProgressOK
<1>2. ASSUME NEW s \in Sessions, Drop(s) PROVE ProgressOK(s)'
  <2>1. steps'[s] = <<>>
    BY <1>2 DEF Drop, TypeOK
  <2> QED
    BY <2>1 DEF ProgressOK, Wide
<1>3. ASSUME NEW s \in Sessions, Reply(s) \/ Parse(s) PROVE ProgressOK(s)'
  <2>1. /\ steps[s] # <<>> /\ steps'[s] = Tail(steps[s]) /\ text'[s] = text[s]
        /\ ran'[s] = ran[s] /\ unit'[s] = unit[s] /\ ~At(s, "write")
    BY <1>3 DEF Reply, Answers, Parse, At, StepDone, readVars, deviceVars, TypeOK
  <2>2. WriteNumber(s)' = WriteNumber(s) + 1 /\ unit[s] = 0 /\ Run(s)' = Run(s)
    <3>1. unit[s] = 0
      BY <2>1, DispatcherAssumption DEF TypeOK
    <3> QED
      BY <2>1, <3>1, Advance DEF Run
  <2>3. PICK n : n = Run(s)
    OBVIOUS
  <2> SUFFICES ASSUME Wide(s)', NEW w \in 1 .. WBWrites, NEW u \in 1 .. CMD,
                      w < WriteNumber(s)' \/ (w = WriteNumber(s)' /\ u <= unit'[s])
               PROVE  Written(s, n, w, u)'
    BY <2>2, <2>3 DEF ProgressOK
  <2>4. Wide(s)
    BY <2>1 DEF Wide
  <2>5. WriteNumber(s) = 0 \/ WriteNumber(s) > WBWrites
    <3>1. WBWrites \in Nat
      BY DispatcherAssumption
    <3>2. At(s, "parse") \/ At(s, "accept") \/ At(s, "report") \/ At(s, "deny")
      BY <1>3 DEF Reply, Answers, Parse
    <3> QED
      BY <2>4, <3>1, <3>2, WideStands
  <2>6. w < WriteNumber(s)
    <3>1. WriteNumber(s) \in Nat /\ WBWrites \in Nat /\ w \in Nat /\ w > 0 /\ w <= WBWrites
      BY <2>1, Stands, DispatcherAssumption
    <3>2. u > 0 /\ u \in Nat /\ unit'[s] = 0
      BY <2>1, <2>2, DispatcherAssumption
    <3> QED
      BY <2>2, <2>5, <3>1, <3>2
  <2>7. Written(s, n, w, u)
    BY <2>3, <2>4, <2>6 DEF ProgressOK, ProgressInv
  <2> QED
    BY <2>7, WrittenStays
<1>4. ASSUME NEW s \in Sessions, WriteStreamCmd(s) PROVE ProgressOK(s)'
  <2>1. /\ text'[s] = text[s] /\ ran'[s] = ran[s] /\ At(s, "write") /\ steps[s] # <<>>
    BY <1>4 DEF WriteStreamCmd, At, readVars
  <2>2. PICK k \in 1 .. CMD - unit[s] :
            /\ wire' = wire \o Units(s, k)
            /\ \/ unit[s] + k < CMD /\ unit'[s] = unit[s] + k /\ steps'[s] = steps[s]
               \/ ~(unit[s] + k < CMD) /\ unit'[s] = 0 /\ steps'[s] = Tail(steps[s])
    BY <1>4 DEF WriteStreamCmd, StepDone, TypeOK
  <2>3. PICK n : n = Run(s) /\ n = Run(s)'
    BY <2>1 DEF Run
  <2>4. PICK p \in Nat : p = WriteNumber(s)
    BY <2>1, Stands
  <2> SUFFICES ASSUME Wide(s)', NEW w \in 1 .. WBWrites, NEW u \in 1 .. CMD,
                      w < WriteNumber(s)' \/ (w = WriteNumber(s)' /\ u <= unit'[s])
               PROVE  Written(s, n, w, u)'
    BY <2>3 DEF ProgressOK
  <2>5. Wide(s)
    BY <2>1 DEF Wide
  <2>6. /\ unit[s] \in Nat /\ k \in Nat /\ CMD \in Nat /\ unit[s] + k <= CMD /\ k > 0
        /\ w \in Nat /\ u \in Nat /\ u > 0 /\ u <= CMD
    <3>1. unit[s] \in Nat /\ CMD \in Nat /\ WBWrites \in Nat
      BY DispatcherAssumption DEF TypeOK
    <3> QED
      BY <3>1, <2>2
  <2>7. w < p \/ (w = p /\ u <= unit[s] + k)
    <3>1. CASE unit[s] + k < CMD /\ unit'[s] = unit[s] + k /\ steps'[s] = steps[s]
      <4>1. WriteNumber(s)' = p
        BY <2>1, <2>4, <3>1 DEF WriteNumber
      <4> QED
        BY <3>1, <4>1
    <3>2. CASE ~(unit[s] + k < CMD) /\ unit'[s] = 0 /\ steps'[s] = Tail(steps[s])
      <4>1. WriteNumber(s)' = p + 1
        BY <2>1, <2>4, <3>2, Advance
      <4>2. w < p + 1
        BY <2>6, <3>2, <4>1
      <4> QED
        BY <2>4, <2>6, <3>2, <4>2
    <3> QED
      BY <2>2, <3>1, <3>2
  <2>8. CASE w < p \/ (w = p /\ u <= unit[s])
    <3>1. Written(s, n, w, u)
      BY <2>3, <2>4, <2>5, <2>8 DEF ProgressOK, ProgressInv
    <3> QED
      BY <3>1, WrittenStays
  <2>9. CASE w = p /\ u > unit[s] /\ u <= unit[s] + k
    <3>1. PICK j \in 1 .. k : unit[s] + j = u
      <4>1. u - unit[s] \in 1 .. k /\ unit[s] + (u - unit[s]) = u
        BY <2>6, <2>9
      <4> QED
        BY <4>1
    <3>2. /\ wire' \in Seq(UnitType) /\ Len(wire') = Len(wire) + k
          /\ \A i \in 1 .. k : wire'[Len(wire) + i] =
                [from |-> s, run |-> n, write |-> p, unit |-> unit[s] + i]
      BY <2>1, <2>2, <2>3, <2>4, WireGrows
    <3>3. Len(wire) + j \in DOMAIN wire'
      <4>1. Len(wire) \in Nat /\ DOMAIN wire' = 1 .. Len(wire')
        BY <3>2 DEF HistoryOK
      <4>2. Len(wire) + j \in 1 .. Len(wire) + k
        BY <2>6, <3>1, <4>1
      <4> QED
        BY <3>2, <4>1, <4>2
    <3>4. wire'[Len(wire) + j] =
             [from |-> s, run |-> n, write |-> w, unit |-> u]
      BY <2>9, <3>1, <3>2
    <3> QED
      BY <3>3, <3>4 DEF Written
  <2> QED
    BY <2>6, <2>7, <2>8, <2>9
<1>5. ASSUME NEW s \in Sessions,
             RecvCommandFun(s) \/ Reply(s) \/ Parse(s) \/ Drop(s) \/ WriteStreamCmd(s)
      PROVE  ProgressInv'
  <2>1. ASSUME NEW o \in Sessions PROVE ProgressOK(o)'
    <3>1. CASE o = s
      BY <1>1, <1>2, <1>3, <1>4, <1>5, <3>1
    <3>2. CASE o # s
      BY <1>5, <3>2, OthersStay, ProgressStays DEF ProgressInv
    <3> QED
      BY <3>1, <3>2
  <2> QED
    BY <2>1 DEF ProgressInv
<1>6. CASE Quiet
  BY <1>6, ProgressStays DEF Quiet, deviceVars, ProgressInv
<1> QED
  BY <1>5, <1>6, StepCases

LEMMA AnswersStep ==
    ASSUME TypeOK, SuffixInv, HistoryOK, ProgressInv, AnswersInv, [Next]_vars
    PROVE  AnswersInv'
<1>1. ASSUME NEW s \in Sessions, answers'[s] = answers[s] PROVE AnswersOK(s)'
  <2> SUFFICES ASSUME NEW i \in 1 .. Len(answers[s]), answers[s][i].what = "accept",
                      answers[s][i].kind = "wide",
                      NEW w \in 1 .. WBWrites, NEW u \in 1 .. CMD
               PROVE  Written(s, answers[s][i].run, w, u)'
    BY <1>1 DEF AnswersOK
  <2>1. PICK n : n = answers[s][i].run
    OBVIOUS
  <2>2. Written(s, n, w, u)
    BY <2>1 DEF AnswersInv, AnswersOK
  <2>3. Written(s, n, w, u)'
    BY <2>2, WrittenStays
  <2> QED
    BY <1>1, <2>1, <2>3 DEF Written
<1>2. ASSUME NEW s \in Sessions, Reply(s) PROVE AnswersOK(s)'
  <2> SUFFICES ASSUME answers' # answers PROVE AnswersOK(s)'
    BY <1>1
  <2>1. PICK a \in Answers, k \in Nat :
            /\ At(s, a)
            /\ answers'[s] = Append(answers[s],
                 [run |-> Run(s), task |-> k, what |-> a, kind |-> text[s].kind])
    BY <1>2, TextValues DEF Reply, Task, HistoryOK
  <2>2. PICK n : n = Run(s)
    OBVIOUS
  <2>3. answers[s] \in Seq(AnswerType)
    BY DEF HistoryOK
  <2> SUFFICES ASSUME NEW i \in 1 .. Len(answers'[s]), answers'[s][i].what = "accept",
                      answers'[s][i].kind = "wide",
                      NEW w \in 1 .. WBWrites, NEW u \in 1 .. CMD
               PROVE  Written(s, answers[s][i].run, w, u)'
    BY DEF AnswersOK
  <2>4. CASE i \in 1 .. Len(answers[s])
    <3>1. answers'[s][i] = answers[s][i]
      BY <2>1, <2>3, <2>4
    <3>2. PICK m : m = answers[s][i].run
      OBVIOUS
    <3>3. Written(s, m, w, u)
      BY <2>4, <3>1, <3>2 DEF AnswersInv, AnswersOK
    <3>4. Written(s, m, w, u)'
      BY <3>3, WrittenStays
    <3> QED
      BY <3>1, <3>2, <3>4 DEF Written
  <2>5. CASE i = Len(answers[s]) + 1
    <3>1. answers'[s][i] = [run |-> n, task |-> k, what |-> a, kind |-> text[s].kind]
      BY <2>1, <2>2, <2>3, <2>5
    <3>2. a = "accept" /\ Wide(s)
      BY <2>1, <3>1 DEF Wide, At
    <3>3. w < WriteNumber(s)
      <4>1. WriteNumber(s) = WBWrites + 1 /\ WBWrites \in Nat
        BY <2>1, <3>2, WideStands, DispatcherAssumption
      <4> QED
        BY <4>1
    <3>4. Written(s, n, w, u)
      BY <2>2, <3>2, <3>3 DEF ProgressInv, ProgressOK
    <3>5. Written(s, n, w, u)'
      BY <3>4, WrittenStays
    <3> QED
      BY <3>1, <3>5 DEF Written
  <2> QED
    BY <2>1, <2>3, <2>4, <2>5, RunType, TextValues DEF AnswerType
<1>3. ASSUME NEW s \in Sessions, Reply(s) PROVE AnswersInv'
  <2>1. ASSUME NEW o \in Sessions, o # s PROVE answers'[o] = answers[o]
    BY <1>3, <2>1 DEF Reply, HistoryOK
  <2> QED
    BY <1>1, <1>2, <1>3, <2>1 DEF AnswersInv
<1>4. ASSUME NEW s \in Sessions, RecvCommandFun(s) \/ Parse(s) \/ Drop(s) \/ WriteStreamCmd(s)
      PROVE  answers' = answers
  BY <1>4 DEF RecvCommandFun, Take, Parse, Drop, WriteStreamCmd
<1>5. Quiet => answers' = answers
  BY DEF Quiet
<1> QED
  BY <1>1, <1>3, <1>4, <1>5, StepCases DEF AnswersInv

AcceptInv == SuffixInv /\ HistoryOK /\ ProgressInv /\ AnswersInv

\* A client that is told its wide-band parameters are accepted can rely on it
\* that every unit of every write has left for the device, for any number of
\* writes, any way they are cut and whatever other sessions do.
THEOREM AcknowledgedIsWritten == Spec => []AcceptedIsWritten
<1>1. Init => AcceptInv
  <2> SUFFICES ASSUME Init PROVE ProgressInv /\ AnswersInv
    BY SuffixInit, HistoryInit DEF AcceptInv
  <2>1. \A s \in Sessions : steps[s] = <<>> /\ answers[s] = <<>>
    BY DEF Init
  <2> QED
    BY <2>1 DEF ProgressInv, ProgressOK, Wide, AnswersInv, AnswersOK
<1>2. TypeOK /\ AcceptInv /\ [Next]_vars => AcceptInv'
  BY SuffixStep, HistoryStep, ProgressStep, AnswersStep DEF AcceptInv
<1>3. AcceptInv => AcceptedIsWritten
  <2> SUFFICES ASSUME AcceptInv, NEW s \in Sessions, NEW i \in DOMAIN answers[s]
               PROVE  answers[s][i].what = "accept" /\ answers[s][i].kind = "wide" =>
                         \A w \in 1 .. WBWrites, u \in 1 .. CMD :
                            Written(s, answers[s][i].run, w, u)
    BY DEF AcceptedIsWritten
  <2>1. i \in 1 .. Len(answers[s])
    BY DEF AcceptInv, HistoryOK
  <2> QED
    BY <2>1 DEF AcceptInv, AnswersInv, AnswersOK
<1> QED
  BY TypeCorrect, <1>1, <1>2, <1>3, PTL DEF Spec
(***************************************************************************)
(* What an inquiry reports.  While a wide-band command runs alone, the     *)
(* device has the writes behind it and the last units on the wire are the  *)
(* ones of the write in progress; once it is carried out, nobody changes   *)
(* what the device or the session has before a new one begins.             *)
(***************************************************************************)
AloneOK(s) ==
    alone[s] /\ steps[s] # <<>> /\ Writes(text[s]) =>
        \A o \in Sessions \ {s} : ~(Writes(text[o]) /\ steps[o] # <<>>)

AloneInv == \A s \in Sessions : AloneOK(s)

\* The last m units of a wire are the first of write p of the n-th command.
EndsWith(x, m, s, n, p) ==
    /\ m <= Len(x)
    /\ \A i \in 1 .. m :
        x[Len(x) - m + i] = [from |-> s, run |-> n, write |-> p, unit |-> i]

\* The session reports what its text names.
Reported(s) == \A f \in Named(s) : ReplayCommand[s][f] = text[s].set[f]

CarriedOut(s) ==
    alone[s] /\ Wide(s) =>
        /\ WriteNumber(s) > 0 => Reported(s)
        /\ \A f \in Named(s) : WriteOf[f] < WriteNumber(s) => device[f] = text[s].set[f]
        /\ EndsWith(wire, unit[s], s, Run(s), WriteNumber(s))

CarriedOutInv == \A s \in Sessions : CarriedOut(s)

AuthorInv ==
    \A f \in Fields : author[f] # Nobody =>
        /\ \A s \in Sessions : Wide(s) => WriteNumber(s) > WBWrites
        /\ device[f] = ReplayCommand[author[f]][f]

LEMMA AloneStep ==
    ASSUME TypeOK, SuffixInv, HistoryOK, AloneInv, [Next]_vars
    PROVE  AloneInv'
<1>1. ASSUME NEW t \in Sessions, RecvCommandFun(t), NEW s \in Sessions PROVE AloneOK(s)'
  <2>1. PICK c \in Texts(t) :
            /\ text' = [text EXCEPT ![t] = c]
            /\ steps' = [steps EXCEPT ![t] = Script[c.kind]]
            /\ alone' = IF Writes(c)
                        THEN [x \in Sessions |-> x = t /\ \A o \in Sessions \ {t} :
                                                    ~(Writes(text[o]) /\ steps[o] # <<>>)]
                        ELSE alone
    BY <1>1 DEF RecvCommandFun
  <2>2. text'[t] = c
    BY <2>1 DEF TypeOK
  <2>3. \A o \in Sessions \ {t} : steps'[o] = steps[o] /\ text'[o] = text[o]
    BY <1>1, OthersStay
  <2>4. CASE Writes(c)
    <3>1. alone'[s] = (s = t /\ \A o \in Sessions \ {t} : ~(Writes(text[o]) /\ steps[o] # <<>>))
      BY <2>1, <2>4, Zenon
    <3> QED
      BY <2>3, <3>1, Zenon DEF AloneOK
  <2>5. CASE ~Writes(c)
    <3>1. alone' = alone /\ ~Writes(text'[t])
      BY <2>1, <2>2, <2>5
    <3>2. CASE s = t
      BY <3>1, <3>2, Zenon DEF AloneOK
    <3>3. CASE s # t
      BY <2>3, <3>1, <3>3, Zenon DEF AloneOK, AloneInv
    <3> QED
      BY <3>2, <3>3
  <2> QED
    BY <2>4, <2>5
<1>2. ASSUME \A o \in Sessions : text'[o] = text[o] /\ (steps'[o] # <<>> => steps[o] # <<>>),
             alone' = alone
      PROVE  AloneInv'
  BY <1>2, Zenon DEF AloneInv, AloneOK
<1>3. ASSUME NEW t \in Sessions, Reply(t) \/ Parse(t) \/ Drop(t) \/ WriteStreamCmd(t)
      PROVE  AloneInv'
  <2>1. /\ steps[t] # <<>> /\ text' = text /\ alone' = alone
    BY <1>3 DEF Reply, Parse, Drop, WriteStreamCmd, At, readVars, historyVars
  <2>2. \A o \in Sessions \ {t} : steps'[o] = steps[o]
    BY <1>3, OthersStay
  <2> QED
    BY <1>2, <2>1, <2>2
<1>4. CASE Quiet
  BY <1>2, <1>4 DEF Quiet, historyVars
<1> QED
  BY <1>1, <1>3, <1>4, StepCases DEF AloneInv

\* While a wide-band command runs alone nobody else is at a write.
LEMMA LoneWriter ==
    ASSUME TypeOK, SuffixInv, AloneInv, NEW s \in Sessions, alone[s], Wide(s),
           NEW o \in Sessions, o # s
    PROVE  ~At(o, "write") /\ ~Wide(o)
<1>1. ~(Writes(text[o]) /\ steps[o] # <<>>)
  BY WideWrites DEF AloneInv, AloneOK, Wide
<1> QED
  BY <1>1, WideWrites, WriterWrites DEF Wide, At

\* The units of a write that nobody interrupts follow each other on the wire.
LEMMA EndGrows ==
    ASSUME TypeOK, SuffixInv, HistoryOK, NEW s \in Sessions, At(s, "write"),
           NEW k \in 1 .. CMD - unit[s], wire' = wire \o Units(s, k),
           NEW n, n = Run(s), NEW p, p = WriteNumber(s),
           EndsWith(wire, unit[s], s, n, p)
    PROVE  EndsWith(wire', unit[s] + k, s, n, p)
<1>1. /\ unit[s] \in Nat /\ k \in Nat /\ Len(wire) \in Nat
  <2>1. unit[s] \in Nat /\ CMD \in Nat /\ Len(wire) \in Nat
    BY DispatcherAssumption DEF TypeOK, HistoryOK
  <2> QED
    BY <2>1
<1>2. /\ Len(wire') = Len(wire) + k
      /\ \A i \in 1 .. Len(wire) : wire'[i] = wire[i]
      /\ \A j \in 1 .. k : wire'[Len(wire) + j] =
            [from |-> s, run |-> n, write |-> p, unit |-> unit[s] + j]
  BY WireGrows
<1>3. /\ unit[s] <= Len(wire)
      /\ \A i \in 1 .. unit[s] : wire[Len(wire) - unit[s] + i] =
            [from |-> s, run |-> n, write |-> p, unit |-> i]
  BY DEF EndsWith
<1>4. ASSUME NEW i \in 1 .. unit[s] + k
      PROVE  wire'[Len(wire') - (unit[s] + k) + i] =
                [from |-> s, run |-> n, write |-> p, unit |-> i]
  <2>1. Len(wire') - (unit[s] + k) + i = Len(wire) - unit[s] + i
    BY <1>1, <1>2
  <2>2. CASE i <= unit[s]
    <3>1. i \in 1 .. unit[s] /\ Len(wire) - unit[s] + i \in 1 .. Len(wire)
      BY <1>1, <1>3, <2>2
    <3> QED
      BY <1>2, <1>3, <2>1, <3>1
  <2>3. CASE i > unit[s]
    <3>1. PICK j \in 1 .. k : i = unit[s] + j
      <4>1. i - unit[s] \in 1 .. k /\ i = unit[s] + (i - unit[s])
        BY <1>1, <2>3
      <4> QED
        BY <4>1
    <3>2. Len(wire) - unit[s] + i = Len(wire) + j
      BY <1>1, <3>1
    <3> QED
      BY <1>2, <2>1, <3>1, <3>2
  <2>4. i <= unit[s] \/ i > unit[s]
    BY <1>1
  <2> QED
    BY <2>2, <2>3, <2>4, Zenon
<1>5. unit[s] + k <= Len(wire')
  BY <1>1, <1>2, <1>3
<1> QED
  BY <1>4, <1>5 DEF EndsWith

LEMMA WholeIsOnePiece ==
    ASSUME NEW x, Len(x) \in Nat, NEW s, NEW n, NEW p, EndsWith(x, CMD, s, n, p)
    PROVE  InOnePiece(x)
<1>1. CMD \in Nat \ {0} /\ CMD <= Len(x)
  BY DispatcherAssumption DEF EndsWith
<1> SUFFICES ASSUME NEW i \in Len(x) - CMD + 1 .. Len(x)
             PROVE  x[i] = [x[Len(x)] EXCEPT !.unit = i - (Len(x) - CMD)]
  BY DEF InOnePiece
<1>2. \A j \in 1 .. CMD :
        x[Len(x) - CMD + j] = [from |-> s, run |-> n, write |-> p, unit |-> j]
  BY DEF EndsWith
<1>3. PICK j \in 1 .. CMD : i = Len(x) - CMD + j
  <2>1. i - (Len(x) - CMD) \in 1 .. CMD /\ i = Len(x) - CMD + (i - (Len(x) - CMD))
    BY <1>1
  <2> QED
    BY <2>1
<1>4. x[i] = [from |-> s, run |-> n, write |-> p, unit |-> j]
  BY <1>2, <1>3
<1>5. x[Len(x)] = [from |-> s, run |-> n, write |-> p, unit |-> CMD]
  <2>1. CMD \in 1 .. CMD /\ Len(x) - CMD + CMD = Len(x)
    BY <1>1
  <2>2. x[Len(x) - CMD + CMD] = [from |-> s, run |-> n, write |-> p, unit |-> CMD]
    BY <1>2, <2>1
  <2> QED
    BY <2>1, <2>2
<1>6. i - (Len(x) - CMD) = j
  BY <1>1, <1>3
<1> QED
  BY <1>4, <1>5, <1>6

LEMMA SetFields ==
    ASSUME NEW x \in TextType
    PROVE  DOMAIN x.set \subseteq Fields
<1>1. PICK F \in SUBSET Fields : x.set \in [F -> Values]
  BY Zenon DEF TextType, Settings
<1> QED
  BY <1>1

LEMMA WriteOfNamed ==
    ASSUME TypeOK, NEW s \in Sessions, NEW f \in Named(s)
    PROVE  WriteOf[f] \in 1 .. WBWrites /\ WBWrites \in Nat \ {0}
<1>1. f \in Fields
  BY TextValues
<1> QED
  BY <1>1, DispatcherAssumption

LEMMA CarriedOutStep ==
    ASSUME TypeOK, SuffixInv, HistoryOK, AloneInv, CarriedOutInv, [Next]_vars
    PROVE  CarriedOutInv'
<1>1. ASSUME NEW s \in Sessions, CarriedOut(s), alone'[s] => alone[s],
             ReplayCommand'[s] = ReplayCommand[s], UNCHANGED <<wire, device>>,
             steps'[s] = steps[s], text'[s] = text[s], ran'[s] = ran[s], unit'[s] = unit[s]
      PROVE  CarriedOut(s)'
  <2>1. WriteNumber(s)' = WriteNumber(s) /\ Run(s)' = Run(s) /\ Wide(s)' = Wide(s)
    BY <1>1 DEF WriteNumber, Run, Wide
  <2>2. Named(s)' = Named(s) /\ Reported(s)' = Reported(s)
    BY <1>1, Zenon DEF Named, Reported
  <2> QED
    BY <1>1, <2>1, <2>2, Zenon DEF CarriedOut
<1>2. ASSUME NEW s \in Sessions, Wide(s)', alone'[s], unit'[s] = 0,
             WriteNumber(s)' > 0 => Reported(s)',
             \A f \in Named(s)' : WriteOf[f] < WriteNumber(s)' => device'[f] = text'[s].set[f],
             Len(wire') \in Nat
      PROVE  CarriedOut(s)'
  <2>1. EndsWith(wire', unit'[s], s, Run(s)', WriteNumber(s)')
    <3>1. PICK n, p : n = Run(s)' /\ p = WriteNumber(s)'
      OBVIOUS
    <3>2. EndsWith(wire', unit'[s], s, n, p)
      BY <1>2 DEF EndsWith
    <3> QED
      BY <3>1, <3>2
  <2> QED
    BY <1>2, <2>1 DEF CarriedOut
<1>3. TypeOK' /\ Len(wire') \in Nat
  <2>1. HistoryOK'
    BY HistoryStep
  <2> QED
    BY <2>1, NextType DEF HistoryOK
<1>4. ASSUME NEW s \in Sessions, RecvCommandFun(s) PROVE CarriedOut(s)'
  <2>1. PICK c \in Texts(s) :
            /\ text' = [text EXCEPT ![s] = c]
            /\ steps' = [steps EXCEPT ![s] = Script[c.kind]]
    BY <1>4 DEF RecvCommandFun
  <2>2. text'[s] = c /\ steps'[s] = Script[c.kind] /\ steps'[s] \in Seq(Step)
    BY <1>3, <2>1 DEF TypeOK, Step
  <2>3. WriteNumber(s)' = 0
    BY <2>2 DEF WriteNumber
  <2>4. steps[s] = <<>> /\ unit'[s] = unit[s]
    BY <1>4 DEF RecvCommandFun, Take, deviceVars, TypeOK
  <2>5. unit'[s] = 0
    BY <2>4, DispatcherAssumption DEF TypeOK, At
  <2>6. \A f \in Named(s)' : ~(WriteOf[f] < WriteNumber(s)')
    <3>1. text'[s] \in TextType
      BY <1>3 DEF TypeOK
    <3>2. Named(s)' \subseteq Fields
      BY <3>1, SetFields DEF Named
    <3>3. \A f \in Fields : WriteOf[f] \in Nat
      BY DispatcherAssumption
    <3> QED
      BY <2>3, <3>2, <3>3
  <2>7. ~(WriteNumber(s)' > 0)
    BY <2>3
  <2> QED
    BY <1>2, <1>3, <2>5, <2>6, <2>7 DEF CarriedOut
<1>5. ASSUME NEW s \in Sessions, Drop(s) PROVE CarriedOut(s)'
  <2>1. steps'[s] = <<>>
    BY <1>5 DEF Drop, TypeOK
  <2> QED
    BY <2>1 DEF CarriedOut, Wide
<1>6. ASSUME NEW s \in Sessions, Reply(s) \/ Parse(s) PROVE CarriedOut(s)'
  <2>1. /\ steps[s] # <<>> /\ steps'[s] = Tail(steps[s]) /\ text'[s] = text[s]
        /\ unit'[s] = unit[s] /\ ~At(s, "write") /\ UNCHANGED <<wire, device, alone>>
    BY <1>6 DEF Reply, Answers, Parse, At, StepDone, readVars, deviceVars, historyVars, TypeOK
  <2>2. unit'[s] = 0
    BY <2>1, DispatcherAssumption DEF TypeOK
  <2>3. WriteNumber(s)' = WriteNumber(s) + 1 /\ WriteNumber(s) \in Nat
    BY <2>1, Advance, Stands
  <2> SUFFICES ASSUME Wide(s)', alone'[s] PROVE CarriedOut(s)'
    BY DEF CarriedOut
  <2>4. Wide(s) /\ alone[s]
    BY <2>1 DEF Wide
  <2>5. CASE Parse(s)
    <3>1. WriteNumber(s) = 0
      BY <2>4, <2>5, WideStands DEF Parse
    <3>2. Reported(s)'
      <4>1. Named(s)' = Named(s) /\ Named(s) \subseteq Fields
        BY <2>1, TextValues DEF Named
      <4>2. \A f \in Named(s) : ReplayCommand'[s][f] = text[s].set[f]
        BY <2>5, <4>1 DEF Parse, SetReplay, HistoryOK
      <4> QED
        BY <2>1, <4>1, <4>2 DEF Reported
    <3>3. \A f \in Named(s)' : ~(WriteOf[f] < WriteNumber(s)')
      <4>1. Named(s)' = Named(s)
        BY <2>1 DEF Named
      <4>2. WriteNumber(s)' = 1
        BY <2>3, <3>1
      <4>3. \A f \in Named(s) : WriteOf[f] \in Nat \ {0}
        BY WriteOfNamed
      <4> QED
        BY <4>1, <4>2, <4>3
    <3> QED
      BY <1>2, <1>3, <2>2, <3>2, <3>3
  <2>6. CASE Reply(s)
    <3>1. WriteNumber(s) > WBWrites /\ WBWrites \in Nat \ {0}
      <4>1. At(s, "accept") \/ At(s, "report") \/ At(s, "deny")
        BY <2>6 DEF Reply, Answers
      <4>2. WriteNumber(s) = WBWrites + 1 \/ WriteNumber(s) = WBWrites + 2
        BY <2>4, <4>1, WideStands
      <4> QED
        BY <4>2, DispatcherAssumption
    <3>2. \A f \in Named(s) : WriteOf[f] < WriteNumber(s)
      BY <2>3, <3>1, WriteOfNamed
    <3>3. WriteNumber(s) > 0
      BY <2>3, <3>1
    <3>4. Reported(s) /\ \A f \in Named(s) : device[f] = text[s].set[f]
      BY <2>4, <3>2, <3>3, Zenon DEF CarriedOut, CarriedOutInv
    <3>5. ReplayCommand' = ReplayCommand
      BY <2>6 DEF Reply
    <3>6. Named(s)' = Named(s) /\ Reported(s)' = Reported(s)
      BY <2>1, <3>5, Zenon DEF Named, Reported
    <3> QED
      BY <1>2, <1>3, <2>1, <2>2, <3>4, <3>6
  <2> QED
    BY <1>6, <2>5, <2>6
<1>7. ASSUME NEW s \in Sessions, WriteStreamCmd(s) PROVE CarriedOut(s)'
  <2>1. /\ text'[s] = text[s] /\ ran'[s] = ran[s] /\ At(s, "write") /\ steps[s] # <<>>
        /\ ReplayCommand' = ReplayCommand /\ alone' = alone
    BY <1>7 DEF WriteStreamCmd, At, readVars
  <2> SUFFICES ASSUME Wide(s)', alone'[s] PROVE CarriedOut(s)'
    BY DEF CarriedOut
  <2>2. Wide(s) /\ alone[s]
    BY <2>1 DEF Wide
  <2>3. PICK k \in 1 .. CMD - unit[s] :
            /\ wire' = wire \o Units(s, k)
            /\ \/ /\ unit[s] + k < CMD /\ unit'[s] = unit[s] + k
                  /\ steps'[s] = steps[s] /\ device' = device
               \/ /\ ~(unit[s] + k < CMD) /\ unit'[s] = 0 /\ steps'[s] = Tail(steps[s])
                  /\ device' = TakeOver(s, wire')
    BY <1>7, <2>2 DEF WriteStreamCmd, StepDone, TypeOK, Wide
  <2>4. PICK n : n = Run(s) /\ n = Run(s)'
    BY <2>1 DEF Run
  <2>5. PICK p \in 1 .. WBWrites : p = WriteNumber(s)
    BY <2>1, <2>2, WideStands
  <2>6. /\ Reported(s)
        /\ \A f \in Named(s) : WriteOf[f] < p => device[f] = text[s].set[f]
        /\ EndsWith(wire, unit[s], s, n, p)
    <3>1. WriteNumber(s) > 0
      BY <2>5, DispatcherAssumption
    <3> QED
      BY <2>2, <2>4, <2>5, <3>1, Zenon DEF CarriedOut, CarriedOutInv
  <2>a. Named(s)' = Named(s) /\ Reported(s)'
    BY <2>1, <2>6, Zenon DEF Named, Reported
  <2>7. EndsWith(wire', unit[s] + k, s, n, p)
    BY <2>1, <2>3, <2>4, <2>5, <2>6, EndGrows
  <2>8. CASE unit'[s] = unit[s] + k /\ steps'[s] = steps[s] /\ device' = device
    <3>1. WriteNumber(s)' = p
      BY <2>1, <2>5, <2>8 DEF WriteNumber
    <3> QED
      BY <2>1, <2>4, <2>6, <2>7, <2>8, <2>a, <3>1 DEF CarriedOut
  <2>9. CASE /\ ~(unit[s] + k < CMD) /\ unit'[s] = 0 /\ steps'[s] = Tail(steps[s])
             /\ device' = TakeOver(s, wire')
    <3>1. unit[s] + k = CMD
      <4>1. unit[s] \in Nat /\ CMD \in Nat
        BY DispatcherAssumption DEF TypeOK
      <4> QED
        BY <2>9, <4>1
    <3>2. InOnePiece(wire')
      BY <1>3, <2>7, <3>1, WholeIsOnePiece
    <3>3. WriteNumber(s)' = p + 1 /\ p \in Nat
      BY <2>1, <2>5, <2>9, Advance, DispatcherAssumption
    <3>4. ASSUME NEW f \in Named(s)', WriteOf[f] < WriteNumber(s)'
          PROVE  device'[f] = text'[s].set[f]
      <4>1. f \in Named(s) /\ f \in Fields /\ WriteOf[f] \in 1 .. WBWrites
        BY <2>a, <3>4, WriteOfNamed, TextValues
      <4>2. device'[f] = IF WriteOf[f] # p THEN device[f] ELSE text[s].set[f]
        BY <2>2, <2>5, <2>9, <3>2, <4>1 DEF TakeOver, Wide
      <4>3. WriteOf[f] # p => WriteOf[f] < p
        BY <3>3, <3>4, <4>1
      <4> QED
        BY <2>1, <2>6, <4>1, <4>2, <4>3
    <3>5. unit'[s] = 0
      BY <2>9
    <3> QED
      BY <1>2, <1>3, <2>1, <2>a, <3>4, <3>5
  <2> QED
    BY <2>3, <2>5, <2>8, <2>9
<1>8. ASSUME NEW t \in Sessions, NEW s \in Sessions, s # t,
             RecvCommandFun(t) \/ Reply(t) \/ Parse(t) \/ Drop(t) \/ WriteStreamCmd(t)
      PROVE  CarriedOut(s)'
  <2>1. /\ steps'[s] = steps[s] /\ text'[s] = text[s]
        /\ ran'[s] = ran[s] /\ unit'[s] = unit[s]
    BY <1>8, OthersStay
  <2> SUFFICES ASSUME alone'[s], Wide(s)' PROVE CarriedOut(s)'
    BY DEF CarriedOut
  <2>2. Wide(s)
    BY <2>1 DEF Wide
  <2>3. CASE RecvCommandFun(t)
    <3>1. PICK c \in Texts(t) :
            alone' = IF Writes(c)
                     THEN [x \in Sessions |-> x = t /\ \A o \in Sessions \ {t} :
                                                 ~(Writes(text[o]) /\ steps[o] # <<>>)]
                     ELSE alone
      BY <2>3 DEF RecvCommandFun
    <3>2. alone' = alone
      BY <1>8, <3>1, Zenon
    <3>3. UNCHANGED <<ReplayCommand, wire, device>>
      BY <2>3 DEF RecvCommandFun, Take, deviceVars
    <3> QED
      BY <1>1, <2>1, <3>2, <3>3 DEF CarriedOutInv
  <2>4. CASE Reply(t) \/ Parse(t) \/ Drop(t)
    <3>1. ReplayCommand'[s] = ReplayCommand[s]
      BY <1>8, <2>4 DEF Reply, Parse, Drop, SetReplay, HistoryOK
    <3>2. UNCHANGED <<wire, device, alone>>
      BY <2>4 DEF Reply, Parse, Drop, deviceVars, historyVars
    <3> QED
      BY <1>1, <2>1, <3>1, <3>2 DEF CarriedOutInv
  <2>5. CASE WriteStreamCmd(t)
    <3>1. At(t, "write") /\ alone[s]
      BY <2>5 DEF WriteStreamCmd
    <3> QED
      BY <1>8, <2>2, <3>1, LoneWriter
  <2> QED
    BY <1>8, <2>3, <2>4, <2>5
<1>9. CASE Quiet
  BY <1>1, <1>9 DEF Quiet, deviceVars, historyVars, CarriedOutInv
<1>10. ASSUME NEW t \in Sessions,
              RecvCommandFun(t) \/ Reply(t) \/ Parse(t) \/ Drop(t) \/ WriteStreamCmd(t)
       PROVE  CarriedOutInv'
  <2>1. ASSUME NEW s \in Sessions PROVE CarriedOut(s)'
    <3>1. CASE s = t
      BY <1>4, <1>5, <1>6, <1>7, <1>10, <3>1
    <3>2. CASE s # t
      BY <1>8, <1>10, <3>2
    <3> QED
      BY <3>1, <3>2
  <2> QED
    BY <2>1 DEF CarriedOutInv
<1> QED
  BY <1>9, <1>10, StepCases

LEMMA AuthorStep ==
    ASSUME TypeOK, SuffixInv, HistoryOK, AloneInv, CarriedOutInv, AuthorInv, [Next]_vars
    PROVE  AuthorInv'
<1>0. WBWrites \in Nat \ {0}
  BY DispatcherAssumption
<1> DEFINE Owned == \E f \in Fields : author[f] # Nobody
<1>1. ASSUME author' = author, UNCHANGED <<device, ReplayCommand>>,
             Owned => \A s \in Sessions : Wide(s)' => WriteNumber(s)' > WBWrites
      PROVE  AuthorInv'
  BY <1>1, Zenon DEF AuthorInv
<1>a. ASSUME Owned, NEW s \in Sessions, Wide(s) PROVE WriteNumber(s) > WBWrites
  BY <1>a, Zenon DEF AuthorInv
<1> HIDE DEF Owned
\* The other sessions stand where they stood.
<1>2. ASSUME NEW s \in Sessions, Owned, steps'[s] = steps[s], text'[s] = text[s], Wide(s)'
      PROVE  WriteNumber(s)' > WBWrites
  <2>1. WriteNumber(s)' = WriteNumber(s) /\ Wide(s)
    BY <1>2 DEF WriteNumber, Wide
  <2>2. WriteNumber(s) > WBWrites
    BY <1>2, <1>a, <2>1
  <2> QED
    BY <2>1, <2>2
<1>3. ASSUME NEW t \in Sessions, RecvCommandFun(t) PROVE AuthorInv'
  <2>1. PICK c \in Texts(t) :
            /\ text' = [text EXCEPT ![t] = c]
            /\ author' = IF c.kind = "wide" THEN [f \in Fields |-> Nobody] ELSE author
    BY <1>3 DEF RecvCommandFun
  <2>2. CASE c.kind = "wide"
    BY <2>1, <2>2 DEF AuthorInv
  <2>3. CASE c.kind # "wide"
    <3>1. author' = author /\ ~Wide(t)'
      BY <2>1, <2>3 DEF Wide, TypeOK
    <3>2. UNCHANGED <<device, ReplayCommand>>
      BY <1>3 DEF RecvCommandFun, Take, deviceVars
    <3>3. ASSUME NEW s \in Sessions, Owned, Wide(s)' PROVE WriteNumber(s)' > WBWrites
      <4>1. s # t
        BY <3>1, <3>3
      <4> QED
        BY <1>2, <1>3, <3>3, <4>1, OthersStay
    <3> QED
      BY <1>1, <3>1, <3>2, <3>3
  <2> QED
    BY <2>2, <2>3
<1>4. ASSUME NEW t \in Sessions, Reply(t) PROVE AuthorInv'
  <2>1. author' = author /\ UNCHANGED <<device, ReplayCommand>>
    BY <1>4 DEF Reply, deviceVars, historyVars
  <2>2. ASSUME NEW s \in Sessions, Owned, Wide(s)' PROVE WriteNumber(s)' > WBWrites
    <3>1. CASE s = t
      <4>1. steps[s] # <<>> /\ steps'[s] = Tail(steps[s]) /\ text'[s] = text[s]
        BY <1>4, <3>1 DEF Reply, At, StepDone, readVars, TypeOK
      <4>2. WriteNumber(s)' = WriteNumber(s) + 1 /\ WriteNumber(s) \in Nat /\ Wide(s)
        BY <2>2, <4>1, Advance, Stands DEF Wide
      <4>3. WriteNumber(s) > WBWrites
        BY <1>a, <2>2, <4>2
      <4> QED
        BY <1>0, <4>2, <4>3
    <3>2. CASE s # t
      BY <1>2, <1>4, <2>2, <3>2, OthersStay
    <3> QED
      BY <3>1, <3>2
  <2> QED
    BY <1>1, <2>1, <2>2
\* After a wide-band command nobody is at the parse of another, nor at its writes.
<1>5. ASSUME Owned, NEW t \in Sessions, Wide(t)
      PROVE  ~At(t, "parse") /\ ~At(t, "write")
  <2>1. WriteNumber(t) > WBWrites
    BY <1>5, <1>a
  <2> QED
    BY <1>0, <1>5, <2>1, WideStands
<1>6. ASSUME NEW t \in Sessions, Parse(t) \/ Drop(t) PROVE AuthorInv'
  <2>1. author' = author /\ device' = device
    BY <1>6 DEF Parse, Drop, deviceVars, historyVars
  <2>2. ASSUME Owned PROVE ReplayCommand' = ReplayCommand
    <3>1. ASSUME At(t, "parse"), NEW F \in SUBSET Named(t), SetReplay(t, F)
          PROVE  ReplayCommand' = ReplayCommand
      <4>1. ~Wide(t)
        BY <1>5, <2>2, <3>1
      <4>2. F = {}
        BY <3>1, <4>1 DEF Wide, At, Named
      <4>3. ReplayCommand \in [Sessions -> [Fields -> Held]]
        BY DEF HistoryOK
      <4>4. [f \in Fields |-> IF f \in F THEN text[t].set[f] ELSE ReplayCommand[t][f]]
              = ReplayCommand[t]
        BY <4>2, <4>3
      <4> QED
        BY <3>1, <4>3, <4>4 DEF SetReplay
    <3>2. CASE Parse(t)
      <4>1. At(t, "parse") /\ SetReplay(t, Named(t))
        BY <3>2 DEF Parse
      <4> QED
        BY <3>1, <4>1
    <3>3. CASE Drop(t)
      BY <3>1, <3>3 DEF Drop
    <3> QED
      BY <1>6, <3>2, <3>3
  <2>3. Owned => ~Wide(t)'
    <3>1. CASE Parse(t)
      BY <1>5, <3>1 DEF Parse, Wide, At, readVars
    <3>2. CASE Drop(t)
      BY <3>2 DEF Drop, Wide, TypeOK
    <3> QED
      BY <1>6, <3>1, <3>2
  <2>4. ASSUME NEW s \in Sessions, Owned, Wide(s)' PROVE WriteNumber(s)' > WBWrites
    <3>1. s # t
      BY <2>3, <2>4
    <3> QED
      BY <1>2, <1>6, <2>4, <3>1, OthersStay
  <2>5. CASE Owned
    BY <1>1, <2>1, <2>2, <2>4, <2>5
  <2>6. CASE ~Owned
    BY <2>1, <2>6, Zenon DEF AuthorInv, Owned
  <2> QED
    BY <2>5, <2>6
<1>7. ASSUME NEW t \in Sessions, WriteStreamCmd(t) PROVE AuthorInv'
  <2>1. /\ text' = text /\ At(t, "write") /\ steps[t] # <<>> /\ ReplayCommand' = ReplayCommand
    BY <1>7 DEF WriteStreamCmd, At, readVars
  <2>2. \/ UNCHANGED <<steps, device, author>>
        \/ /\ steps'[t] = Tail(steps[t])
           /\ device' = TakeOver(t, wire')
           /\ author' = IF Wide(t) /\ alone[t] /\ WriteNumber(t) = WBWrites
                        THEN [f \in Fields |-> IF f \in Named(t) THEN t ELSE Nobody]
                        ELSE author
    BY <1>7, <2>1 DEF WriteStreamCmd, StepDone, Wide, TypeOK
  <2>3. CASE UNCHANGED <<steps, device, author>>
    <3>1. ASSUME NEW s \in Sessions, Owned, Wide(s)' PROVE WriteNumber(s)' > WBWrites
      BY <1>2, <2>1, <2>3, <3>1
    <3> QED
      BY <1>1, <2>1, <2>3, <3>1
  <2>4. CASE author' = author /\ ~Wide(t) /\ device' = TakeOver(t, wire')
    <3>1. ASSUME NEW s \in Sessions, Owned, Wide(s)' PROVE WriteNumber(s)' > WBWrites
      <4>1. s # t
        BY <2>1, <2>4, <3>1 DEF Wide
      <4> QED
        BY <1>2, <1>7, <3>1, <4>1, OthersStay
    <3>2. device' = device
      <4>1. text[t].kind # "wide" /\ device \in [Fields -> Held]
        BY <2>1, <2>4 DEF Wide, HistoryOK
      <4> QED
        BY <2>4, <4>1 DEF TakeOver
    <3> QED
      BY <1>1, <2>1, <2>4, <3>1, <3>2
  <2>5. CASE author' = author /\ Wide(t)
    <3>1. ~Owned
      BY <1>5, <2>1, <2>5
    <3> QED
      BY <2>5, <3>1, Zenon DEF AuthorInv, Owned
  <2>6. CASE /\ author' = [f \in Fields |-> IF f \in Named(t) THEN t ELSE Nobody]
             /\ Wide(t) /\ alone[t] /\ WriteNumber(t) = WBWrites /\ steps'[t] = Tail(steps[t])
    <3>1. CarriedOut(t)'
      BY CarriedOutStep DEF CarriedOutInv
    <3>2. alone'[t] /\ text'[t] = text[t] /\ Named(t)' = Named(t)
      BY <1>7, <2>1, <2>6 DEF WriteStreamCmd, Named
    <3>3. WriteNumber(t)' = WBWrites + 1
      BY <2>1, <2>6, <3>2, Advance
    <3>4. Wide(t)'
      <4>1. steps'[t] # <<>>
        <5>1. steps'[t] = <<>> => WriteNumber(t)' = WBWrites + 3
          <6>1. Len(ScriptOf(t)') = WBWrites + 3
            BY <2>6, <3>2, WideScript DEF ScriptOf, Wide
          <6> QED
            BY <1>0, <6>1 DEF WriteNumber, ScriptOf
        <5> QED
          BY <1>0, <3>3, <5>1
      <4> QED
        BY <2>6, <3>2, <4>1 DEF Wide
    <3>5. Reported(t)' /\ \A f \in Named(t) : device'[f] = text'[t].set[f]
      <4>1. WriteNumber(t)' > 0 /\ \A f \in Named(t) : WriteOf[f] < WriteNumber(t)'
        BY <1>0, <3>3, WriteOfNamed
      <4> QED
        BY <3>1, <3>2, <3>4, <4>1, Zenon DEF CarriedOut
    <3>6. \A f \in Named(t) : device'[f] = ReplayCommand'[t][f]
      BY <3>2, <3>5 DEF Reported
    <3>7. ASSUME NEW s \in Sessions, Wide(s)' PROVE WriteNumber(s)' > WBWrites
      <4>1. CASE s = t
        BY <1>0, <3>3, <4>1
      <4>2. CASE s # t
        <5>1. Wide(s)
          BY <1>7, <3>7, <4>2, OthersStay DEF Wide
        <5> QED
          BY <2>6, <4>2, <5>1, LoneWriter
      <4> QED
        BY <4>1, <4>2
    <3>8. ASSUME NEW f \in Fields, author'[f] # Nobody
          PROVE  device'[f] = ReplayCommand'[author'[f]][f]
      <4>1. f \in Named(t) /\ author'[f] = t
        BY <2>6, <3>8
      <4> QED
        BY <3>6, <4>1
    <3> QED
      BY <3>7, <3>8 DEF AuthorInv
  <2> QED
    BY <2>2, <2>3, <2>4, <2>5, <2>6
<1>8. CASE Quiet
  <2>1. ASSUME NEW s \in Sessions, Owned, Wide(s)' PROVE WriteNumber(s)' > WBWrites
    BY <1>2, <1>8, <2>1 DEF Quiet
  <2> QED
    BY <1>1, <1>8, <2>1 DEF Quiet, deviceVars, historyVars
<1> QED
  BY <1>3, <1>4, <1>6, <1>7, <1>8, StepCases

InquiryInv ==
    /\ SuffixInv
    /\ HistoryOK
    /\ AloneInv
    /\ CarriedOutInv
    /\ AuthorInv

\* An inquiry reports what the device works with, for every parameter that the
\* session's wide-band command named, once this was the last one, was carried out
\* and met no other, for any commands, failures and sessions before and besides
\* (SetCmdWBParams takes over only what is named, StructCmdWB is not initialised).
THEOREM InquiryIsTrue == Spec => []InquiryReportsDevice
<1>1. Init => InquiryInv
  <2> SUFFICES ASSUME Init PROVE AloneInv /\ CarriedOutInv /\ AuthorInv
    BY SuffixInit, HistoryInit DEF InquiryInv
  <2>1. (\A f \in Fields : author[f] = Nobody) /\ \A s \in Sessions : steps[s] = <<>>
    BY DEF Init
  <2> QED
    BY <2>1, Zenon DEF AloneInv, AloneOK, CarriedOutInv, CarriedOut, Wide, AuthorInv
<1>2. TypeOK /\ InquiryInv /\ [Next]_vars => InquiryInv'
  BY SuffixStep, HistoryStep, AloneStep, CarriedOutStep, AuthorStep DEF InquiryInv
<1>3. InquiryInv => InquiryReportsDevice
  BY DEF InquiryInv, AuthorInv, InquiryReportsDevice
<1> QED
  BY TypeCorrect, <1>1, <1>2, <1>3, PTL DEF Spec

(***************************************************************************)
(* What follows from LossyChannel alone.                                   *)
(***************************************************************************)
ChannelInv ==
    /\ \A s \in Sessions : Len(sent[s]) \in Nat
    /\ done \in [Sessions -> Seq(Nat)]
    /\ Framing!Increasing

LEMMA ChannelStep ==
    ASSUME ChannelInv, [Framing!Next]_(Framing!vars)
    PROVE  ChannelInv'
<1> DEFINE lengths == [s \in Sessions |-> Len(sent[s])]
<1>1. CASE Framing!Send
  <2>1. PICK S \in SUBSET Sessions :
            lengths' = [e \in Sessions |-> lengths[e] + (IF e \in S THEN 1 ELSE 0)]
    BY <1>1 DEF Framing!Send
  <2>2. \A s \in Sessions : lengths[s] = Len(sent[s]) /\ lengths'[s] = Len(sent'[s])
    OBVIOUS
  <2>3. \A s \in Sessions : lengths'[s] = lengths[s] + (IF s \in S THEN 1 ELSE 0)
    BY <2>1
  <2>4. \A s \in Sessions : Len(sent'[s]) \in Nat
    BY <2>2, <2>3 DEF ChannelInv
  <2> QED
    BY <1>1, <2>4 DEF Framing!Send, ChannelInv, Framing!Increasing
<1>2. ASSUME NEW s \in Sessions, Framing!Deliver(s) PROVE ChannelInv'
  <2> USE <1>2 DEF Framing!Deliver
  <2>0. /\ lengths' = lengths
        /\ \A t \in Sessions : lengths[t] = Len(sent[t]) /\ lengths'[t] = Len(sent'[t])
    OBVIOUS
  <2>1. PICK n \in 1 .. lengths[s] :
            /\ \A i \in 1 .. Len(done[s]) : done[s][i] < n
            /\ done' = [done EXCEPT ![s] = Append(@, n)]
    OBVIOUS
  <2>a. n \in Nat /\ \A t \in Sessions : Len(sent'[t]) \in Nat
    BY <2>0, <2>1 DEF ChannelInv
  <2>2. done \in [Sessions -> Seq(Nat)]
    BY DEF ChannelInv
  <2>3. /\ done' \in [Sessions -> Seq(Nat)]
        /\ done'[s] = Append(done[s], n)
        /\ \A o \in Sessions \ {s} : done'[o] = done[o]
    BY <2>1, <2>2, <2>a
  <2>4. /\ Len(done'[s]) = Len(done[s]) + 1 /\ done'[s][Len(done[s]) + 1] = n
        /\ \A i \in 1 .. Len(done[s]) : done'[s][i] = done[s][i]
        /\ \A i \in 1 .. Len(done'[s]) : i \in 1 .. Len(done[s]) \/ i = Len(done[s]) + 1
    BY <2>2, <2>3
  <2>5. ASSUME NEW i \in 1 .. Len(done'[s]), NEW j \in 1 .. Len(done'[s]), i < j
        PROVE  done'[s][i] < done'[s][j]
    <3>1. i \in 1 .. Len(done[s])
      BY <2>2, <2>4, <2>5
    <3>2. CASE j \in 1 .. Len(done[s])
      BY <2>4, <2>5, <3>1, <3>2 DEF ChannelInv, Framing!Increasing
    <3>3. CASE j = Len(done[s]) + 1
      BY <2>1, <2>4, <2>a, <3>1, <3>3
    <3> QED
      BY <2>4, <3>2, <3>3
  <2> QED
    BY <2>3, <2>5, <2>a DEF ChannelInv, Framing!Increasing
<1>3. CASE UNCHANGED Framing!vars
  <2>1. lengths' = lengths /\ done' = done
    BY <1>3 DEF Framing!vars
  <2>2. \A s \in Sessions : lengths[s] = Len(sent[s]) /\ lengths'[s] = Len(sent'[s])
    OBVIOUS
  <2>3. \A s \in Sessions : Len(sent'[s]) \in Nat
    BY <2>1, <2>2 DEF ChannelInv
  <2> QED
    BY <2>1, <2>3 DEF ChannelInv, Framing!Increasing
<1> QED
  BY <1>1, <1>2, <1>3 DEF Framing!Next

LEMMA ChannelKeepsOrder == Framing!Spec => []ChannelInv
<1>1. ASSUME Framing!Init PROVE ChannelInv
  <2>1. /\ [s \in Sessions |-> Len(sent[s])] = [s \in Sessions |-> 0]
        /\ done = [s \in Sessions |-> <<>>]
    BY <1>1 DEF Framing!Init
  <2>2. \A s \in Sessions : [t \in Sessions |-> Len(sent[t])][s] = Len(sent[s])
    OBVIOUS
  <2> QED
    BY <2>1, <2>2 DEF ChannelInv, Framing!Increasing
<1> QED
  BY ChannelStep, <1>1, PTL DEF Framing!Spec

\* As long as each head brought its text, these are all that is executed.
RanInv == \A s \in Sessions : whole[s] => ran[s] = done[s]

LEMMA RanStep ==
    ASSUME TypeOK, RanInv, [Next]_vars
    PROVE  RanInv'
<1>1. ASSUME NEW s \in Sessions, RecvCommandFun(s) PROVE RanInv'
  <2>1. PICK c \in Texts(s) :
            /\ ran' = [ran EXCEPT ![s] = Append(@, c.task)]
            /\ done' = IF HasText(s) THEN [done EXCEPT ![s] = Append(@, c.task)] ELSE done
    BY <1>1 DEF RecvCommandFun
  <2>2. whole' = [whole EXCEPT ![s] = @ /\ HasText(s)]
    BY <1>1 DEF RecvCommandFun
  <2>3. ASSUME NEW o \in Sessions, o # s PROVE whole'[o] => ran'[o] = done'[o]
    BY <2>1, <2>2, <2>3 DEF RanInv, TypeOK
  <2>4. CASE HasText(s)
    <3>1. done' = [done EXCEPT ![s] = Append(@, c.task)]
      BY <2>1, <2>4, Zenon
    <3>2. whole'[s] => whole[s]
      BY <2>2, Zenon DEF TypeOK
    <3>3. ran'[s] = Append(ran[s], c.task) /\ done'[s] = Append(done[s], c.task)
      BY <2>1, <3>1 DEF TypeOK
    <3>4. whole'[s] => ran'[s] = done'[s]
      BY <3>2, <3>3, Zenon DEF RanInv
    <3> QED
      BY <2>3, <3>4, Zenon DEF RanInv
  <2>5. CASE ~HasText(s)
    <3>1. ~whole'[s]
      BY <2>2, <2>5, Zenon DEF TypeOK
    <3> QED
      BY <2>3, <3>1, Zenon DEF RanInv
  <2> QED
    BY <2>4, <2>5
<1>2. ASSUME NEW s \in Sessions, HeadError(s) PROVE UNCHANGED <<ran, done, whole>>
  BY <1>2 DEF HeadError
<1>3. ASSUME NEW s \in Sessions,
             SendCommand(s) \/ Arrive(s) \/ EnterRead(s) \/ ReadFails(s) \/ BroadcastFails(s)
               \/ Answer(s) \/ AnswerFails(s) \/ Parse(s) \/ ParseFails(s) \/ Throw(s)
               \/ WriteStreamCmd(s)
      PROVE  UNCHANGED <<ran, done, whole>>
  BY <1>3 DEF SendCommand, Arrive, EnterRead, ReadFails, BroadcastFails, Answer, AnswerFails,
              Parse, ParseFails, Throw, Abandon, WriteStreamCmd, readVars
<1>4. CASE UNCHANGED vars
  BY <1>4 DEF vars, readVars, RanInv
<1>5. ASSUME UNCHANGED <<ran, done, whole>> PROVE RanInv'
  BY <1>5 DEF RanInv
<1> QED
  BY <1>1, <1>2, <1>3, <1>4, <1>5 DEF Next, Session

\* As long as no head came without its text, a session executes no command twice
\* and none after a later one: read off the channel that the framing implements,
\* for any commands, cutting of the stream and contents of the buffer.
THEOREM ExecutesInOrder == Spec => []ExecutedInOrder
<1>1. Init => RanInv
  BY DEF Init, RanInv
<1>2. TypeOK /\ RanInv /\ [Next]_vars => RanInv'
  BY RanStep
<1>3. ChannelInv /\ RanInv => ExecutedInOrder
  BY DEF ChannelInv, Framing!Increasing, RanInv, ExecutedInOrder
<1> QED
  BY TypeCorrect, InOrder, ChannelKeepsOrder, <1>1, <1>2, <1>3, PTL DEF Spec, InOrderOnce

(***************************************************************************)
(* The order of the answers.  All are to texts that were executed, with    *)
(* their numbers, and the text at work is the last of these.               *)
(***************************************************************************)
ReplyOK(s) ==
    /\ ran[s] # <<>> => text[s].task = ran[s][Run(s)]
    /\ \A j \in 1 .. Len(answers[s]) :
        /\ answers[s][j].run \in 1 .. Run(s)
        /\ answers[s][j].task = ran[s][answers[s][j].run]
        /\ \A i \in 1 .. j : answers[s][i].run <= answers[s][j].run

ReplyInv == \A s \in Sessions : ReplyOK(s)

LEMMA ReplyAdds ==
    ASSUME TypeOK, HistoryOK, ReplyInv, NEW s \in Sessions, Reply(s)
    PROVE  ReplyOK(s)'
<1>1. PICK a \in Answers :
          /\ At(s, a)
          /\ \/ answers' = answers
             \/ answers' = [answers EXCEPT ![s] = Append(@,
                  [run |-> Run(s), task |-> Task(s), what |-> a, kind |-> text[s].kind])]
  BY DEF Reply
<1> DEFINE new == [run |-> Run(s), task |-> Task(s), what |-> a, kind |-> text[s].kind]
           m == Len(answers[s]) + 1
<1>2. ran' = ran /\ text' = text /\ ran[s] # <<>> /\ ran[s] \in Seq(Nat)
  BY <1>1 DEF Reply, At, TypeOK
<1>3. /\ new \in AnswerType /\ new.run = Run(s) /\ new.task = ran[s][Run(s)]
      /\ Run(s) \in Nat \ {0}
  <2>1. Task(s) = ran[s][Run(s)]
    BY <1>2 DEF ReplyInv, ReplyOK, Task
  <2>2. Run(s) \in Nat \ {0}
    BY <1>2 DEF Run
  <2>3. new \in AnswerType
    BY RunType, TextValues DEF Task, AnswerType
  <2> QED
    BY <2>1, <2>2, <2>3
<1>4. ReplyOK(s) /\ answers \in [Sessions -> Seq(AnswerType)]
  BY DEF ReplyInv, HistoryOK
<1>5. Run(s)' = Run(s)
  BY <1>2 DEF Run
<1>6. CASE answers' = answers
  BY <1>2, <1>4, <1>5, <1>6 DEF ReplyOK
<1>7. CASE answers' = [answers EXCEPT ![s] = Append(@, new)]
  <2> HIDE DEF new
  <2>1. /\ Len(answers[s]) \in Nat
        /\ Len(answers'[s]) = m /\ answers'[s][m] = new
        /\ \A j \in 1 .. Len(answers[s]) : answers'[s][j] = answers[s][j]
        /\ \A j \in 1 .. m : j \in 1 .. Len(answers[s]) \/ j = m
    BY <1>3, <1>4, <1>7
  <2> HIDE DEF m
  <2>2. \A j \in 1 .. Len(answers[s]) : answers[s][j].run \in 1 .. Run(s)
    BY <1>4 DEF ReplyOK
  <2>3. ASSUME NEW j \in 1 .. m
        PROVE  /\ answers'[s][j].run \in 1 .. Run(s)
               /\ answers'[s][j].task = ran[s][answers'[s][j].run]
               /\ \A i \in 1 .. j : answers'[s][i].run <= answers'[s][j].run
    <3>1. CASE j \in 1 .. Len(answers[s])
      <4>1. \A i \in 1 .. j : i \in 1 .. Len(answers[s])
        BY <2>1, <3>1
      <4> QED
        BY <1>4, <2>1, <3>1, <4>1 DEF ReplyOK
    <3>2. CASE j = m
      <4>1. answers'[s][j].run = Run(s) /\ answers'[s][j].task = ran[s][Run(s)]
        BY <1>3, <2>1, <3>2
      <4>2. ASSUME NEW i \in 1 .. j PROVE answers'[s][i].run <= Run(s)
        BY <1>3, <2>1, <2>2, <3>2, <4>1, <4>2
      <4> QED
        BY <1>3, <4>1, <4>2
    <3> QED
      BY <2>1, <3>1, <3>2
  <2> QED
    BY <1>2, <1>4, <1>5, <2>1, <2>3 DEF ReplyOK
<1> QED
  BY <1>1, <1>6, <1>7

LEMMA ReplyStep ==
    ASSUME TypeOK, HistoryOK, ReplyInv, [Next]_vars
    PROVE  ReplyInv'
<1>1. ASSUME NEW s \in Sessions, ReplyOK(s), ran'[s] = ran[s], text'[s] = text[s],
             answers'[s] = answers[s]
      PROVE  ReplyOK(s)'
  BY <1>1 DEF ReplyOK, Run
<1>2. ASSUME NEW t \in Sessions, RecvCommandFun(t), NEW s \in Sessions PROVE ReplyOK(s)'
  <2>1. PICK c \in Texts(t) :
            /\ text' = [text EXCEPT ![t] = c]
            /\ ran' = [ran EXCEPT ![t] = Append(@, c.task)]
    BY <1>2 DEF RecvCommandFun
  <2>2. answers' = answers /\ ran \in [Sessions -> Seq(Nat)] /\ text \in [Sessions -> TextType]
    BY <1>2 DEF RecvCommandFun, Take, TypeOK
  <2>3. CASE s = t
    <3>1. ran'[s] \in Seq(Nat) /\ c.task \in Nat
      <4>1. TypeOK'
        BY NextType
      <4>2. text'[t].task \in Nat /\ text'[t] = c
        BY <2>1, <2>2, <4>1 DEF TypeOK, TextType
      <4> QED
        BY <4>1, <4>2 DEF TypeOK
    <3>2. /\ Len(ran'[s]) = Len(ran[s]) + 1 /\ Len(ran[s]) \in Nat
          /\ ran'[s][Len(ran[s]) + 1] = c.task
          /\ \A k \in 1 .. Len(ran[s]) : ran'[s][k] = ran[s][k]
      BY <2>1, <2>2, <2>3, <3>1
    <3>3. text'[s].task = ran'[s][Len(ran'[s])]
      BY <2>1, <2>2, <2>3, <3>2
    <3>4. ReplyOK(s)
      BY DEF ReplyInv
    <3>5. ASSUME NEW j \in 1 .. Len(answers[s])
          PROVE  /\ answers[s][j].run \in 1 .. Len(ran'[s])
                 /\ answers[s][j].task = ran'[s][answers[s][j].run]
                 /\ \A i \in 1 .. j : answers[s][i].run <= answers[s][j].run
      <4>1. /\ answers[s][j].run \in 1 .. Len(ran[s])
            /\ answers[s][j].task = ran[s][answers[s][j].run]
            /\ \A i \in 1 .. j : answers[s][i].run <= answers[s][j].run
        BY <3>4 DEF ReplyOK, Run
      <4>2. answers[s][j].run \in 1 .. Len(ran'[s])
        BY <3>2, <4>1
      <4>3. ran'[s][answers[s][j].run] = ran[s][answers[s][j].run]
        BY <3>2, <4>1
      <4> QED
        BY <4>1, <4>2, <4>3
    <3> QED
      BY <2>2, <3>3, <3>5 DEF ReplyOK, Run
  <2>4. CASE s # t
    BY <1>1, <2>1, <2>2, <2>4 DEF ReplyInv
  <2> QED
    BY <2>3, <2>4
<1>3. ASSUME NEW t \in Sessions, Reply(t), NEW s \in Sessions PROVE ReplyOK(s)'
  <2>1. CASE s = t
    BY <1>3, <2>1, ReplyAdds
  <2>2. CASE s # t
    <3>1. ran' = ran /\ text' = text /\ answers'[s] = answers[s]
      BY <1>3, <2>2 DEF Reply, HistoryOK
    <3> QED
      BY <1>1, <3>1 DEF ReplyInv
  <2> QED
    BY <2>1, <2>2
<1>4. ASSUME NEW t \in Sessions, Parse(t) \/ Drop(t) \/ WriteStreamCmd(t)
      PROVE  UNCHANGED <<ran, text, answers>>
  BY <1>4 DEF Parse, Drop, WriteStreamCmd, readVars
<1>5. CASE Quiet
  BY <1>1, <1>5 DEF Quiet, ReplyInv
<1> QED
  BY <1>1, <1>2, <1>3, <1>4, <1>5, StepCases DEF ReplyInv

\* Every answer carries the number of the text it answers and comes after the
\* answers to the texts before; while heads bring their texts, numbers alone tell
\* the client.  For any clients, cutting of the stream, leftovers and failures of
\* reads, writes and answers (RecvCommandFun, ControlReplay, WorkParmReplay).
THEOREM RepliesInOrder == Spec => []AnswersInOrder
<1>1. Init => SuffixInv /\ HistoryOK /\ ReplyInv
  BY SuffixInit, HistoryInit DEF Init, ReplyInv, ReplyOK
<1>2. TypeOK /\ SuffixInv /\ HistoryOK /\ ReplyInv /\ [Next]_vars
        => (SuffixInv /\ HistoryOK /\ ReplyInv)'
  BY SuffixStep, HistoryStep, ReplyStep
<1>3. HistoryOK /\ TypeOK /\ ReplyInv /\ ExecutedInOrder => AnswersInOrder
  <2> SUFFICES ASSUME HistoryOK, TypeOK, ReplyInv, ExecutedInOrder,
                      NEW s \in Sessions, NEW j \in DOMAIN answers[s]
               PROVE  /\ answers[s][j].run \in DOMAIN ran[s]
                      /\ answers[s][j].task = ran[s][answers[s][j].run]
                      /\ \A i \in 1 .. j :
                          /\ answers[s][i].run <= answers[s][j].run
                          /\ whole[s] /\ answers[s][i].run < answers[s][j].run
                               => answers[s][i].task < answers[s][j].task
    BY DEF AnswersInOrder
  <2>1. /\ answers[s] \in Seq(AnswerType) /\ DOMAIN answers[s] = 1 .. Len(answers[s])
        /\ Len(answers[s]) \in Nat
        /\ DOMAIN ran[s] = 1 .. Run(s)
    BY DEF HistoryOK, TypeOK, Run
  <2>2. ReplyOK(s) /\ j \in 1 .. Len(answers[s])
    BY <2>1 DEF ReplyInv
  <2>3. ASSUME NEW i \in 1 .. j, whole[s], answers[s][i].run < answers[s][j].run
        PROVE  answers[s][i].task < answers[s][j].task
    <3>1. i \in 1 .. Len(answers[s])
      BY <2>1, <2>2
    <3>2. /\ answers[s][i].run \in 1 .. Run(s) /\ answers[s][j].run \in 1 .. Run(s)
          /\ answers[s][i].task = ran[s][answers[s][i].run]
          /\ answers[s][j].task = ran[s][answers[s][j].run]
      BY <2>2, <3>1 DEF ReplyOK
    <3> QED
      BY <2>3, <3>2 DEF ExecutedInOrder, Run
  <2> QED
    BY <2>1, <2>2, <2>3 DEF ReplyOK
<1> QED
  BY TypeCorrect, ExecutesInOrder, <1>1, <1>2, <1>3, PTL DEF Spec
=============================================================================
