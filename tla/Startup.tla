------------------------------ MODULE Startup -------------------------------
(***************************************************************************)
(* The start of the server: the constructor of TinyInstance reads the      *)
(* configuration, opens the port, starts the data threads, opens the       *)
(* device, sends it a first command and serves clients, in this order.  A  *)
(* step that throws ends the process, and so may anybody at any time; the  *)
(* configuration file stays, as far as it was written.                     *)
(***************************************************************************)
EXTENDS Naturals

CONSTANTS
    Addresses, Ports,         \* what an operator may configure
    DEFAULT_LOCAL_DATA_IP,
    DEFAULT_LOCAL_DATA_PORT,
    None,                     \* nothing read, nothing open
    MAX_CONNECTIONS,          \* clients that may wait to be accepted
    MaxSessions,              \* bound: sessions of a process
    MaxStarts                 \* bound: starts of the process

ASSUME StartupAssumption ==
    /\ DEFAULT_LOCAL_DATA_IP \in Addresses
    /\ DEFAULT_LOCAL_DATA_PORT \in Ports
    /\ None \notin Addresses \cup Ports
    /\ MAX_CONNECTIONS \in Nat
    /\ MaxSessions \in Nat
    /\ MaxStarts \in Nat

VARIABLES
    file,     \* config.ini, with as many of its four lines as are there and good
    proc,     \* the process: its step and what it holds
    starts,
    spoiled   \* history: what last changed the file was a process that ended or
              \* failed while it wrote it, or an operator who left it incomplete

vars == <<file, proc, starts, spoiled>>

NoProcess ==
    [step |-> "down", LocalIP |-> None, DataPort |-> None, m_acceptor |-> None,
     dataThreads |-> FALSE, callbacks |-> FALSE, device |-> "closed",
     backlog |-> 0, sessions |-> 0]

\* The values are the ones that TinyConfig writes into a file that is not there.
NoFile ==
    [exists |-> FALSE, lines |-> 0, LocalIP |-> DEFAULT_LOCAL_DATA_IP,
     DataPort |-> DEFAULT_LOCAL_DATA_PORT]

Init ==
    /\ file = NoFile
    /\ proc = NoProcess
    /\ starts = 0
    /\ spoiled = FALSE

\* An operator writes a configuration while the server is down, or removes it.
\* What is written may be incomplete or malformed: only some of its lines are good.
Configure ==
    /\ proc.step = "down"
    /\ \/ /\ \E ip \in Addresses, port \in Ports, n \in 0 .. 4 :
             file' = [exists |-> TRUE, lines |-> n, LocalIP |-> ip, DataPort |-> port]
          /\ spoiled' = (file'.lines < 4)
       \/ /\ file.exists
          /\ file' = NoFile
          /\ spoiled' = FALSE
    /\ UNCHANGED <<proc, starts>>

\* Killed, or a step threw: main catches nothing.
Ends ==
    /\ proc.step # "down"
    /\ proc' = NoProcess
    /\ spoiled' = (spoiled \/ proc.step = "write")
    /\ UNCHANGED <<file, starts>>

(***************************************************************************)
(* The constructor of TinyConfig, and the two values it is asked for.      *)
(***************************************************************************)
TinyConfig ==
    /\ proc.step = "down"
    /\ starts < MaxStarts
    /\ starts' = starts + 1
    /\ proc' = [proc EXCEPT !.step = IF file.exists THEN "read" ELSE "create"]
    /\ UNCHANGED <<file, spoiled>>

\* The file is there from now on, and empty; or it could not be created, and the
\* stream drops all that is written to it, in silence.
CreateFile ==
    /\ proc.step = "create"
    /\ \/ /\ file' = [file EXCEPT !.exists = TRUE]
          /\ proc' = [proc EXCEPT !.step = "write"]
       \/ /\ proc' = [proc EXCEPT !.step = "read"]
          /\ UNCHANGED file
    /\ UNCHANGED <<starts, spoiled>>

\* A bug to catch: the section of the port is left without its value.
MutantLines == 3

Lines == 4

\* Every line is flushed before the next.
WriteLine ==
    /\ proc.step = "write"
    /\ file' = [file EXCEPT !.lines = @ + 1]
    /\ proc' = [proc EXCEPT !.step = IF file'.lines = Lines THEN "read" ELSE "write"]
    /\ UNCHANGED <<starts, spoiled>>

\* A write fails, as on a full disk: the stream is bad, drops the lines that follow
\* without a word, and the constructor goes on.
WriteFails ==
    /\ proc.step = "write"
    /\ proc' = [proc EXCEPT !.step = "read"]
    /\ spoiled' = TRUE
    /\ UNCHANGED <<file, starts>>

\* read_ini throws without a file or for a line it cannot parse, get_child for a
\* section without a value, get for a port that is no number: then only Ends is left.
Readable == file.lines = 4

ReadConfig ==
    /\ proc.step = "read"
    /\ Readable
    /\ proc' = [proc EXCEPT !.step = "listen", !.LocalIP = file.LocalIP,
                            !.DataPort = file.DataPort]
    /\ UNCHANGED <<file, starts, spoiled>>

(***************************************************************************)
(* TcpSocket, the data threads, InitThread, the first command and Run.     *)
(***************************************************************************)
Step(from, next) ==
    /\ proc.step = from
    /\ proc' = next
    /\ UNCHANGED <<file, starts, spoiled>>

\* The port of the configuration is passed and not used: 5021 is in the code.
Listen ==
    Step("listen", [proc EXCEPT !.step = "threads",
                                !.m_acceptor = [ip |-> proc.LocalIP, port |-> 5021]])

StartDataThreads ==
    Step("threads", [proc EXCEPT !.step = "callbacks", !.dataThreads = TRUE])

RegisterCallBack ==
    Step("callbacks", [proc EXCEPT !.step = "open", !.callbacks = TRUE])

\* A bug to catch: the device is opened before the callbacks are registered.
MutantOpenDevice ==
    \/ Step("callbacks", [proc EXCEPT !.step = "open", !.device = "open"])
    \/ Step("open", [proc EXCEPT !.step = "command", !.callbacks = TRUE])

\* That there is no device goes unnoticed.
OpenDevice ==
    \E d \in {"closed", "open"} :
        Step("open", [proc EXCEPT !.step = "command", !.device = d])

\* Without a device the write ends the process.
SendPulseDetect ==
    /\ proc.device = "open"
    /\ Step("command", [proc EXCEPT !.step = "run", !.device = "ready"])

MayWait == proc.backlog < MAX_CONNECTIONS

\* A client may connect as soon as the port is open, and waits.
Connect ==
    /\ proc.m_acceptor # None
    /\ MayWait
    /\ proc' = [proc EXCEPT !.backlog = @ + 1]
    /\ UNCHANGED <<file, starts, spoiled>>

\* Handlers run only inside of Run.
Serving == proc.step = "run"

Accept ==
    /\ Serving
    /\ proc.backlog > 0
    /\ proc.sessions < MaxSessions
    /\ proc' = [proc EXCEPT !.backlog = @ - 1, !.sessions = @ + 1]
    /\ UNCHANGED <<file, starts, spoiled>>

TinyInstance ==
    \/ TinyConfig
    \/ CreateFile
    \/ WriteLine
    \/ WriteFails
    \/ ReadConfig
    \/ Listen
    \/ StartDataThreads
    \/ RegisterCallBack
    \/ OpenDevice
    \/ SendPulseDetect

Next == Configure \/ Ends \/ TinyInstance \/ Connect \/ Accept

Spec == Init /\ [][Next]_vars

-----------------------------------------------------------------------------
(***************************************************************************)
(* Correctness.                                                            *)
(***************************************************************************)

\* The process is well formed, and no more clients wait than listen allows.
TypeOK ==
    /\ file.lines \in 0 .. 4 /\ (file.lines > 0 => file.exists)
    /\ proc.LocalIP \in Addresses \cup {None}
    /\ proc.DataPort \in Ports \cup {None}
    /\ proc.backlog \in 0 .. MAX_CONNECTIONS
    /\ proc.sessions \in 0 .. MaxSessions
    /\ starts \in 0 .. MaxStarts

\* No block of the device meets a missing callback or data thread, and no client
\* is served, and so may send commands, before the device took the first one,
\* although it can connect long before (TinyInstance, TcpSocket::Run).
StartsInOrder ==
    /\ proc.device # "closed" => proc.callbacks /\ proc.dataThreads
    /\ proc.sessions > 0 => proc.device = "ready"

\* What stops a start at its configuration is that there is none and none could be
\* written, or one that was spoiled: by a process that was killed or met an error
\* while it wrote it, or by an operator.  And a spoiled one is not repaired: every
\* start ends on it, however many there are, until an operator replaces or removes
\* it (TinyConfig, Get_LocalIP, Get_DataPort).
OnlySpoiledFails ==
    /\ proc.step = "read" /\ ~Readable => spoiled \/ ~file.exists
    /\ spoiled => proc.step \in {"down", "read"} /\ ~Readable

\* The server listens where the configuration says (config.ini, DataPort).
PortAsConfigured ==
    proc.m_acceptor # None => proc.m_acceptor.port = proc.DataPort
=============================================================================
