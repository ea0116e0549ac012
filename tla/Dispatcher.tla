----------------------------- MODULE Dispatcher -----------------------------
(***************************************************************************)
(* The command dispatcher: how the byte stream of a client is cut into     *)
(* commands, what a command does step by step, and how the commands of     *)
(* several sessions meet at the device.                                    *)
(*                                                                         *)
(* A command of a client is two units: the head, which is the same for all *)
(* commands, and the text behind it: the task number, the type and the     *)
(* parameters.  TCP may cut a command or join two.  One read_some is taken *)
(* for one command: what follows it in the buffer is lost, and if its text *)
(* has not arrived the text is what the buffer, which nobody initialises,  *)
(* happens to hold: the text of an earlier command, with its number.       *)
(*                                                                         *)
(* Of the parameters of a wide-band command the model keeps those that an  *)
(* inquiry reports; WBSpectrum and NarrowBand model what they do.          *)
(* TcpServer models how an answer is written and the threads that send     *)
(* data on the same socket; here they only fail.                           *)
(***************************************************************************)
EXTENDS Integers, Sequences, FiniteSets

CONSTANTS
    Sessions,
    Commands,   \* what clients send: a kind, and the parameters that are named
                \* with a value that is accepted
    Leftovers,  \* the texts an uninitialised buffer may hold, beside earlier ones
    Fields,     \* the parameters of StructWorkCommandRev that an inquiry reports
    Values,     \* their values
    WriteOf,    \* the write of a wide-band command that each of them goes with
    Nobody,     \* no session
    Junk,       \* what an uninitialised buffer, structure or device holds
    BUFFER,     \* units of the read buffer, BUFFER_LEN bytes in the code
    CMD,        \* units of a command to the device, written one or more a time
    WBWrites,   \* writes of a wide-band command, 5 in the code
    NBWrites,   \* writes of a narrow-band command, 3 in the code
    MaxSent     \* bound: commands sent, all clients together

Kinds == {"self check", "inquiry", "stop", "reset", "control", "wide",
          "narrow", "unknown", "short", "no number", "ignored"}

\* Any of the parameters may be missing.
Settings == UNION {[F -> Values] : F \in SUBSET Fields}

TextType == [task : Nat, kind : Kinds, set : Settings]

ASSUME DispatcherAssumption ==
    /\ Commands \subseteq [kind : Kinds, set : Settings]
    /\ Leftovers \subseteq TextType
    /\ WriteOf \in [Fields -> 1 .. WBWrites]
    /\ Nobody \notin Sessions
    /\ BUFFER \in Nat \ {0, 1}
    /\ CMD \in Nat \ {0}
    /\ WBWrites \in Nat \ {0}
    /\ NBWrites \in Nat
    /\ MaxSent \in Nat

Write(n) == [i \in 1 .. n |-> "write"]

\* A bug to catch: the wide-band command is answered before it is carried out.
MutantScript ==
    [k \in Kinds |->
        CASE k = "wide" -> <<"parse", "accept">> \o Write(WBWrites) \o <<"report">>
          [] k = "narrow" -> <<"parse">> \o Write(NBWrites)
          [] k = "self check" -> <<"accept", "write">>
          [] k = "inquiry" -> <<"accept", "report">>
          [] k \in {"stop", "reset"} -> <<"accept">>
          [] k \in {"control", "unknown", "short"} -> <<"deny">>
          [] k = "no number" -> <<"throw">>
          [] k = "ignored" -> <<>>]

\* What RecvCommandFun does for a kind of command, in this order.  "control" is
\* a WorkCtrl it does not know.  WorkCtrl is tested in the third token but its
\* value is read from the fourth: without one the value lies beyond the vector,
\* and the command counts as any of inquiry, stop, reset, control, no number.
Script ==
    [k \in Kinds |->
        CASE k = "wide" -> <<"parse">> \o Write(WBWrites) \o <<"accept", "report">>
          [] k = "narrow" -> <<"parse">> \o Write(NBWrites)
          [] k = "self check" -> <<"accept", "write">>
          [] k = "inquiry" -> <<"accept", "report">>
          [] k \in {"stop", "reset"} -> <<"accept">>
          [] k \in {"control", "unknown", "short"} -> <<"deny">>
          [] k = "no number" -> <<"throw">>
          [] k = "ignored" -> <<>>]

\* Does a text go to the device, and so come between the writes of others?
Writes(c) == \E i \in DOMAIN Script[c.kind] : Script[c.kind][i] = "write"

VARIABLES
    sent,           \* per client: the texts of the commands it sent
    arrived,        \* units of them the server's socket has received
    taken,          \* units of them read_some has returned
    reading,        \* is the session in read_some
    isRunning,      \* TcpSession::isRunning
    text,           \* the text executed, as the buffer has it
    steps,          \* what is left to do of it
    unit,           \* units written of the write in progress
    ReplayCommand,  \* what an inquiry reports
    wire,           \* the units written to the device
    device,         \* what the device works with
    answers,        \* what each client was answered
    ran,            \* history: the task numbers of the texts executed, the last
                    \* one is that of text
    done,           \* history: of those, the ones that came with their head
    whole,          \* history: they are all of this sort
    tidy,           \* history: every read_some returned one whole command
    alone,          \* history: since its command began no other session wrote
    author          \* history: per parameter, the session whose wide-band command
                    \* was the last to begin, if it named the parameter, was
                    \* carried out and ran alone

streamVars  == <<sent, arrived>>
readVars    == <<taken, text, ran, done, whole, tidy>>
deviceVars  == <<unit, wire, device>>
historyVars == <<alone, author>>
vars == <<streamVars, readVars, reading, isRunning, steps, ReplayCommand, deviceVars,
          answers, historyVars>>

NoText == [task |-> 0, kind |-> "short", set |-> [f \in {} |-> Junk]]

Init ==
    /\ sent = [s \in Sessions |-> <<>>]
    /\ arrived = [s \in Sessions |-> 0]
    /\ taken = [s \in Sessions |-> 0]
    /\ reading = [s \in Sessions |-> FALSE]
    /\ isRunning = [s \in Sessions |-> TRUE]
    /\ text = [s \in Sessions |-> NoText]
    /\ steps = [s \in Sessions |-> <<>>]
    /\ unit = [s \in Sessions |-> 0]
    /\ ReplayCommand = [s \in Sessions |-> [f \in Fields |-> Junk]]
    /\ wire = <<>>
    /\ device = [f \in Fields |-> Junk]
    /\ answers = [s \in Sessions |-> <<>>]
    /\ ran = [s \in Sessions |-> <<>>]
    /\ done = [s \in Sessions |-> <<>>]
    /\ whole = [s \in Sessions |-> TRUE]
    /\ tidy = [s \in Sessions |-> TRUE]
    /\ alone = [s \in Sessions |-> FALSE]
    /\ author = [f \in Fields |-> Nobody]

(***************************************************************************)
(* The client and the network.  A client numbers its commands.             *)
(***************************************************************************)
SendCommand(s) ==
    /\ Cardinality(UNION {{t} \X DOMAIN sent[t] : t \in Sessions}) < MaxSent
    /\ \E c \in Commands :
        sent' = [sent EXCEPT ![s] =
            Append(@, [task |-> Len(@) + 1, kind |-> c.kind, set |-> c.set])]
    /\ UNCHANGED <<arrived, readVars, reading, isRunning, steps, ReplayCommand>>
    /\ UNCHANGED <<deviceVars, answers, historyVars>>

Arrive(s) ==
    /\ \E n \in arrived[s] + 1 .. 2 * Len(sent[s]) : arrived' = [arrived EXCEPT ![s] = n]
    /\ UNCHANGED <<sent, readVars, reading, isRunning, steps, ReplayCommand>>
    /\ UNCHANGED <<deviceVars, answers, historyVars>>

(***************************************************************************)
(* read: one read_some into a buffer that is new, and not initialised.     *)
(***************************************************************************)
\* The loop: isRunning is looked at before each read, not while one waits.
EnterRead(s) ==
    /\ isRunning[s]
    /\ ~reading[s]
    /\ steps[s] = <<>>
    /\ reading' = [reading EXCEPT ![s] = TRUE]
    /\ UNCHANGED <<streamVars, readVars, isRunning, steps, ReplayCommand>>
    /\ UNCHANGED <<deviceVars, answers, historyVars>>

\* The last unit the next read_some returns.
ReadEnd(s) == IF taken[s] + BUFFER < arrived[s] THEN taken[s] + BUFFER ELSE arrived[s]

\* Units 1, 3, 5 ... are heads.
IsHead(u) == u % 2 = 1

CommandOf(u) == (u + 1) \div 2

\* The command that the read begins with, if it begins with a head, and whether its
\* text came with the head.
FirstCommand(s) == sent[s][CommandOf(taken[s] + 1)]

HasText(s) == ReadEnd(s) > taken[s] + 1

\* What buffers held before, and what can stand where the text has not arrived:
\* that, junk, or junk behind the number.
Earlier == UNION {{sent[t][n] : n \in 1 .. taken[t] \div 2} : t \in Sessions}

Remains(s) ==
    Earlier \cup Leftovers \cup {[l EXCEPT !.task = FirstCommand(s).task] : l \in Leftovers}

\* A bug to catch: one more unit than a command has is asked for.
MutantTexts(s) ==
    IF ReadEnd(s) > taken[s] + 2 THEN {FirstCommand(s)} ELSE Remains(s)

\* What may stand behind the head.
Texts(s) == IF HasText(s) THEN {FirstCommand(s)} ELSE Remains(s)

Take(s) ==
    /\ reading[s]
    /\ taken[s] < arrived[s]
    /\ reading' = [reading EXCEPT ![s] = FALSE]
    /\ taken' = [taken EXCEPT ![s] = ReadEnd(s)]
    /\ tidy' = [tidy EXCEPT ![s] = @ /\ IsHead(taken[s] + 1) /\ ReadEnd(s) = taken[s] + 2]
    /\ UNCHANGED <<streamVars, isRunning, ReplayCommand, deviceVars, answers>>

\* "Head Error": what was read is dropped; it is no head, or one that was cut.
HeadError(s) ==
    /\ ~IsHead(taken[s] + 1) \/ ~HasText(s)
    /\ Take(s)
    /\ UNCHANGED <<text, ran, done, whole, steps, historyVars>>

RecvCommandFun(s) ==
    /\ IsHead(taken[s] + 1)
    /\ Take(s)
    /\ whole' = [whole EXCEPT ![s] = @ /\ HasText(s)]
    /\ \E c \in Texts(s) :
        /\ text' = [text EXCEPT ![s] = c]
        /\ ran' = [ran EXCEPT ![s] = Append(@, c.task)]
        /\ done' = IF HasText(s) THEN [done EXCEPT ![s] = Append(@, c.task)] ELSE done
        /\ steps' = [steps EXCEPT ![s] = Script[c.kind]]
        /\ alone' = IF Writes(c)
                    THEN [t \in Sessions |-> t = s /\ \A o \in Sessions \ {s} :
                                                ~(Writes(text[o]) /\ steps[o] # <<>>)]
                    ELSE alone
        /\ author' = IF c.kind = "wide" THEN [f \in Fields |-> Nobody] ELSE author

\* The client closed, or the connection broke.
ReadFails(s) ==
    /\ reading[s]
    /\ reading' = [reading EXCEPT ![s] = FALSE]
    /\ isRunning' = [isRunning EXCEPT ![s] = FALSE]
    /\ UNCHANGED <<streamVars, readVars, steps, ReplayCommand, deviceVars>>
    /\ UNCHANGED <<answers, historyVars>>

\* The same seen by a data thread, whose write on the session fails: at any time.
BroadcastFails(s) ==
    /\ isRunning[s]
    /\ isRunning' = [isRunning EXCEPT ![s] = FALSE]
    /\ UNCHANGED <<streamVars, readVars, reading, steps, ReplayCommand, deviceVars>>
    /\ UNCHANGED <<answers, historyVars>>

(***************************************************************************)
(* The steps of a command.                                                 *)
(***************************************************************************)
At(s, step) == steps[s] # <<>> /\ Head(steps[s]) = step

\* Which execution of the session it is: a task number may come again.
Run(s) == Len(ran[s])

StepDone(s) == steps' = [steps EXCEPT ![s] = Tail(@)]

Answers == {"accept", "deny", "report"}

\* A bug to catch: the report is sent before its task number is set.
MutantTask(s) ==
    IF At(s, "report") /\ Run(s) > 1 THEN ran[s][Run(s) - 1] ELSE text[s].task

\* The number that an answer carries is the one in the text.
Task(s) == text[s].task

\* ControlReplay and WorkParmReplay.
Answer(s) ==
    /\ \E a \in Answers :
        /\ At(s, a)
        /\ answers' = [answers EXCEPT ![s] = Append(@,
                [run |-> Run(s), task |-> Task(s), what |-> a, kind |-> text[s].kind])]
    /\ StepDone(s)
    /\ UNCHANGED <<streamVars, readVars, reading, isRunning, ReplayCommand>>
    /\ UNCHANGED <<deviceVars, historyVars>>

\* write fails; the command goes on, and is the last one.
AnswerFails(s) ==
    /\ \E a \in Answers : At(s, a)
    /\ isRunning' = [isRunning EXCEPT ![s] = FALSE]
    /\ StepDone(s)
    /\ UNCHANGED <<streamVars, readVars, reading, ReplayCommand, deviceVars>>
    /\ UNCHANGED <<answers, historyVars>>

\* SetCmdWBParams takes over the parameters in F.
SetReplay(s, F) ==
    ReplayCommand' = [ReplayCommand EXCEPT ![s] =
        [f \in Fields |-> IF f \in F THEN text[s].set[f] ELSE @[f]]]

\* The parameters the text names; only SetCmdWBParams knows any.
Named(s) == IF text[s].kind = "wide" THEN DOMAIN text[s].set ELSE {}

Parse(s) ==
    /\ At(s, "parse")
    /\ SetReplay(s, Named(s))
    /\ StepDone(s)
    /\ UNCHANGED <<streamVars, readVars, reading, isRunning, deviceVars>>
    /\ UNCHANGED <<answers, historyVars>>

\* The rest of the command is lost; so is the session, unless it is a narrow-band
\* command that only names a channel out of range.
Abandon(s) ==
    /\ steps' = [steps EXCEPT ![s] = <<>>]
    /\ isRunning' \in {[isRunning EXCEPT ![s] = FALSE]} \cup
                      {r \in {isRunning} : At(s, "parse") /\ text[s].kind = "narrow"}
    /\ unit' = [unit EXCEPT ![s] = 0]
    /\ UNCHANGED <<streamVars, readVars, reading, wire, device, answers, historyVars>>

\* A token is none of the numbers it should be: those before it have been parsed.
ParseFails(s) ==
    /\ At(s, "parse")
    /\ \E F \in SUBSET Named(s) : SetReplay(s, F)
    /\ Abandon(s)

\* A bug to catch: a write that throws is taken for done.
MutantThrow(s) ==
    /\ At(s, "write") \/ At(s, "throw")
    /\ StepDone(s)
    /\ UNCHANGED <<streamVars, readVars, reading, isRunning, ReplayCommand, deviceVars>>
    /\ UNCHANGED <<answers, historyVars>>

\* A number that is none, or a write to the device that throws.
Throw(s) ==
    /\ At(s, "write") \/ At(s, "throw")
    /\ Abandon(s)
    /\ UNCHANGED ReplayCommand

(***************************************************************************)
(* WriteStreamCmd: no lock, and one or more units at a time.  The device   *)
(* (external) takes over a command that arrives in one piece.              *)
(***************************************************************************)
\* Every script has one step before its writes.
WriteNumber(s) == Len(Script[text[s].kind]) - Len(steps[s])

\* The next n units of the write.
Units(s, n) ==
    [i \in 1 .. n |-> [from |-> s, run |-> Run(s), write |-> WriteNumber(s),
                       unit |-> unit[s] + i]]

\* The last write is in one piece if no unit of another came in between.
InOnePiece(w) ==
    \A i \in Len(w) - CMD + 1 .. Len(w) :
        w[i] = [w[Len(w)] EXCEPT !.unit = i - (Len(w) - CMD)]

\* What it then works with: for a parameter that the text does not name, what the
\* structure on the stack happened to hold.
TakeOver(s, w) ==
    [f \in Fields |-> IF text[s].kind # "wide" \/ WriteOf[f] # WriteNumber(s) THEN device[f]
                      ELSE IF f \in Named(s) /\ InOnePiece(w) THEN text[s].set[f]
                      ELSE Junk]

WriteStreamCmd(s) ==
    /\ At(s, "write")
    /\ \E n \in 1 .. CMD - unit[s] :
        /\ wire' = wire \o Units(s, n)
        /\ IF unit[s] + n < CMD
           THEN /\ unit' = [unit EXCEPT ![s] = @ + n]
                /\ UNCHANGED <<steps, device, author>>
           ELSE /\ unit' = [unit EXCEPT ![s] = 0]
                /\ StepDone(s)
                /\ device' = TakeOver(s, wire')
                /\ author' = IF text[s].kind = "wide" /\ alone[s] /\ WriteNumber(s) = WBWrites
                             THEN [f \in Fields |-> IF f \in Named(s) THEN s ELSE Nobody]
                             ELSE author
    /\ UNCHANGED <<streamVars, readVars, reading, isRunning, ReplayCommand, answers, alone>>

-----------------------------------------------------------------------------
Session(s) ==
    \/ EnterRead(s)
    \/ HeadError(s)
    \/ RecvCommandFun(s)
    \/ ReadFails(s)
    \/ Answer(s)
    \/ AnswerFails(s)
    \/ Parse(s)
    \/ ParseFails(s)
    \/ Throw(s)
    \/ WriteStreamCmd(s)

Next ==
    \E s \in Sessions : SendCommand(s) \/ Arrive(s) \/ BroadcastFails(s) \/ Session(s)

Spec == Init /\ [][Next]_vars

-----------------------------------------------------------------------------
(***************************************************************************)
(* Correctness.                                                            *)
(***************************************************************************)
\* Units are read in the order of the stream, and a command executed with its own
\* text has been read; nothing is read while a command is executed; a write in
\* progress is less than a command, and only a command that has writes left can
\* be in one (TcpSession::read, WriteStreamCmd).
TypeOK ==
    /\ sent \in [Sessions -> Seq(TextType)]
    /\ arrived \in [Sessions -> Nat]
    /\ taken \in [Sessions -> Nat]
    /\ reading \in [Sessions -> BOOLEAN]
    /\ ran \in [Sessions -> Seq(Nat)]
    /\ done \in [Sessions -> Seq(Nat)]
    /\ whole \in [Sessions -> BOOLEAN]
    /\ text \in [Sessions -> TextType]
    /\ steps \in [Sessions -> Seq({"parse", "write", "accept", "report", "deny", "throw"})]
    /\ unit \in [Sessions -> 0 .. CMD - 1]
    /\ isRunning \in [Sessions -> BOOLEAN]
    /\ author \in [Fields -> Sessions \cup {Nobody}]
    /\ \A s \in Sessions :
        /\ \A i \in 1 .. Len(sent[s]) : sent[s][i].task = i
        /\ taken[s] <= arrived[s] /\ arrived[s] <= 2 * Len(sent[s])
        /\ \A i \in 1 .. Len(done[s]) : done[s][i] > 0 /\ 2 * done[s][i] <= taken[s]
        /\ unit[s] > 0 => At(s, "write")
        /\ steps[s] # <<>> => ~reading[s] /\ ran[s] # <<>>

\* The commands whose text came with the head are executed in the order they were
\* sent and none twice, however TCP cuts and joins them, and whatever heads
\* without a text made the session execute in between; some may be lost
\* (TcpSession::read, RecvCommandFun).
Framing == INSTANCE LossyChannel WITH
    Ends <- Sessions,
    Batch <- 1,
    sent <- [s \in Sessions |-> Len(sent[s])],
    received <- done

InOrderOnce == Framing!Spec

\* As long as no head came without its text, nothing else is executed: no command
\* comes again and none after a later one (RecvCommandFun).
ExecutedInOrder ==
    \A s \in Sessions : whole[s] =>
        \A i, j \in 1 .. Len(ran[s]) : i < j => ran[s][i] < ran[s][j]

\* Every answer carries the number of the text it answers, and comes after those
\* to the texts before.  As long as no head came without its text, the client can
\* tell from the number alone: one command, one number, and none after a later
\* one, however many answers a command has and wherever it or a write fails
\* (ControlReplay, WorkParmReplay).
AnswersInOrder ==
    \A s \in Sessions : \A j \in DOMAIN answers[s] :
        LET b == answers[s][j] IN
        /\ b.run \in DOMAIN ran[s] /\ b.task = ran[s][b.run]
        /\ \A i \in 1 .. j :
            LET a == answers[s][i] IN
            /\ a.run <= b.run
            /\ whole[s] /\ a.run < b.run => a.task < b.task

\* A client whose commands arrive one by one, each in one piece, loses none: the
\* n-th is executed with its own text, whatever other sessions did to the heap
\* and the device (TcpSession::read).
OneByOneIsSafe ==
    \A s \in Sessions : tidy[s] =>
        /\ ran[s] = [i \in 1 .. taken[s] \div 2 |-> i]
        /\ steps[s] # <<>> => text[s] = sent[s][Run(s)]

\* Has unit u of write w of the n-th execution left for the device?
Written(s, n, w, u) ==
    \E i \in DOMAIN wire : wire[i] = [from |-> s, run |-> n, write |-> w, unit |-> u]

\* Wide-band parameters are acknowledged only when all their writes have left
\* for the device, although any of them may fail (RecvCommandFun, case 0x0103).
AcceptedIsWritten ==
    \A s \in Sessions : \A i \in DOMAIN answers[s] :
        LET a == answers[s][i] IN
        a.what = "accept" /\ a.kind = "wide" =>
            \A w \in 1 .. WBWrites, u \in 1 .. CMD : Written(s, a.run, w, u)

\* When a session's wide-band command was the last, was carried out and met no
\* other on its way to the device, an inquiry of that session reports of every
\* parameter the command named what the device works with, whatever was set or
\* failed before.  Of the others it reports an older value, and the device has
\* junk: they are outside (SetCmdWBParams, ReplayCommand).
InquiryReportsDevice ==
    \A f \in Fields : author[f] # Nobody => device[f] = ReplayCommand[author[f]][f]
=============================================================================
