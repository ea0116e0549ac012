----------------------------- MODULE Acquisition -----------------------------
(***************************************************************************)
(* From the board to the data threads: the XDMA_PCIE library with a read   *)
(* thread per channel, the callbacks that push blocks into the queues, and *)
(* the test of the synchronisation word with which a data thread begins.   *)
(*                                                                         *)
(* The board sends a stream of units per channel; unit n begins a block of *)
(* the board if BLOCK divides n.  A read thread collects BLOCK units,      *)
(* wherever it starts, in as many reads as it takes.  A read that fails    *)
(* ends the block: what was collected is thrown away, and units may be     *)
(* lost.  Nothing looks for the start of a block; one that does not begin  *)
(* with the word is dropped by the data thread.                            *)
(*                                                                         *)
(* The controlling thread starts the library as TinyInstance does.         *)
(* StopCallbackFunc and CloseDevice are exported but not called by the     *)
(* server; here they may be called once it runs.  Commands to the device   *)
(* are left out, but for the first.  The queue is reduced to its promise   *)
(* (ThreadSafeQueue).                                                      *)
(***************************************************************************)
EXTENDS Naturals, Sequences

CONSTANTS
    Channels,          \* CX (wide band) and ZC (narrow band)
    BLOCK,             \* units of a block, BLOCK_LEN bytes in the code
    MAX_BUFFER_DEPTH,  \* of the queues
    MayStop,           \* is StopCallbackFunc called
    MaxUnits,          \* bound: units per channel while the library runs
    MaxFailures        \* bound: failed reads per channel

ASSUME AcquisitionAssumption ==
    /\ BLOCK \in Nat \ {0}
    /\ MAX_BUFFER_DEPTH \in Nat
    /\ MayStop \in BOOLEAN
    /\ MaxUnits \in Nat
    /\ MaxFailures \in Nat

VARIABLES
    main,       \* where the controlling thread is
    pdev,       \* the device object: "null", "open", "deleted"
    isRunning,
    Callback,   \* per channel: is CallbackCX or CallbackZC set
    rpc,        \* where a read thread is
    buffer,     \* the units it collected
    supply,     \* the number of the next unit the board delivers
    queue,      \* blocks between callback and data thread
    passed,     \* history: the blocks that passed the data thread's test
    failures,   \* failed reads so far
    lossy       \* history: a read failed, the queue was full, no callback,
                \* or a block was dropped for its head

mainVars == <<main, pdev, isRunning>>
readVars == <<rpc, buffer, supply, failures>>
dataVars == <<queue, passed>>
vars == <<mainVars, Callback, readVars, dataVars, lossy>>

Running == main # "crashed"

Init ==
    /\ main = "start"
    /\ pdev = "null"
    /\ isRunning = TRUE
    /\ Callback = [ch \in Channels |-> FALSE]
    /\ rpc = [ch \in Channels |-> "none"]
    /\ buffer = [ch \in Channels |-> <<>>]
    /\ supply = [ch \in Channels |-> 0]
    /\ queue = [ch \in Channels |-> <<>>]
    /\ passed = [ch \in Channels |-> <<>>]
    /\ failures = [ch \in Channels |-> 0]
    /\ lossy = [ch \in Channels |-> FALSE]

(***************************************************************************)
(* The controlling thread.                                                 *)
(***************************************************************************)
RegisterCallBack(ch) ==
    /\ main = "start"
    /\ ~Callback[ch]
    /\ Callback' = [Callback EXCEPT ![ch] = TRUE]
    /\ UNCHANGED <<mainVars, readVars, dataVars, lossy>>

\* Without a device OpenDevice returns -1, which InitThread ignores; if the
\* constructor of the device throws, the threads start all the same.
OpenDevice ==
    /\ main = "start"
    /\ \A ch \in Channels : Callback[ch]
    /\ main' = "command"
    /\ isRunning' = TRUE
    /\ \/ UNCHANGED <<pdev, rpc>>
       \/ /\ pdev' \in {"null", "open"}
          /\ rpc' = [ch \in Channels |-> "check"]
    /\ UNCHANGED <<Callback, buffer, supply, failures, dataVars, lossy>>

\* The first command, PulseDetect.  Without a device, or if the write throws in
\* the constructor of TinyInstance, the process ends.
FirstCommand ==
    /\ main = "command"
    /\ main' \in (IF pdev = "open" THEN {"run", "crashed"} ELSE {"crashed"})
    /\ UNCHANGED <<pdev, isRunning, Callback, readVars, dataVars, lossy>>

StopCallbackFunc ==
    /\ MayStop
    /\ main = "run"
    /\ Callback' = [ch \in Channels |-> FALSE]
    /\ UNCHANGED <<mainVars, readVars, dataVars, lossy>>

\* CloseDevice: clear isRunning, join both threads, delete the device.
CloseDevice ==
    /\ main = "run"
    /\ main' = "join"
    /\ isRunning' = FALSE
    /\ UNCHANGED <<pdev, Callback, readVars, dataVars, lossy>>

Joined == \A ch \in Channels : rpc[ch] \in {"none", "exited"}

DeleteDevice ==
    /\ main = "join"
    /\ Joined
    /\ main' = "closed"
    /\ pdev' = "deleted"
    /\ UNCHANGED <<isRunning, Callback, readVars, dataVars, lossy>>

(***************************************************************************)
(* The read thread of a channel.                                           *)
(***************************************************************************)
BeginBlock(ch) ==
    /\ Running
    /\ rpc[ch] = "check"
    /\ IF isRunning
       THEN /\ rpc' = [rpc EXCEPT ![ch] = "read"]
            /\ buffer' = [buffer EXCEPT ![ch] = <<>>]
       ELSE /\ rpc' = [rpc EXCEPT ![ch] = "exited"]
            /\ UNCHANGED buffer
    /\ UNCHANGED <<mainVars, Callback, supply, failures, dataVars, lossy>>

\* n units starting with unit k.
Units(k, n) == [i \in 1 .. n |-> k + i - 1]

\* A bug to catch: the offset into the buffer does not move.
MutantReadSome(ch) ==
    /\ Running
    /\ rpc[ch] = "read"
    /\ pdev = "open"
    /\ supply[ch] < MaxUnits \/ ~isRunning
    /\ \E n \in 1 .. BLOCK - Len(buffer[ch]) :
        /\ supply' = [supply EXCEPT ![ch] = @ + n]
        /\ buffer' = [buffer EXCEPT ![ch] = Units(supply[ch], n)]
        /\ rpc' = [rpc EXCEPT ![ch] = IF Len(buffer'[ch]) = BLOCK THEN "test" ELSE "read"]
    /\ UNCHANGED <<mainVars, Callback, failures, dataVars, lossy>>

\* A read may deliver less than is asked for.
ReadSome(ch) ==
    /\ Running
    /\ rpc[ch] = "read"
    /\ pdev = "open"
    /\ supply[ch] < MaxUnits \/ ~isRunning
    /\ \E n \in 1 .. BLOCK - Len(buffer[ch]) :
        /\ supply' = [supply EXCEPT ![ch] = @ + n]
        /\ buffer' = [buffer EXCEPT ![ch] = @ \o Units(supply[ch], n)]
        /\ rpc' = [rpc EXCEPT ![ch] = IF Len(buffer'[ch]) = BLOCK THEN "test" ELSE "read"]
    /\ UNCHANGED <<mainVars, Callback, failures, dataVars, lossy>>

\* A bug to catch: after a failed read the block goes on where it was.
MutantReadFails(ch) ==
    /\ Running
    /\ rpc[ch] = "read"
    /\ pdev = "open"
    /\ failures[ch] < MaxFailures
    /\ failures' = [failures EXCEPT ![ch] = @ + 1]
    /\ \E n \in 0 .. BLOCK : supply' = [supply EXCEPT ![ch] = @ + n]
    /\ lossy' = [lossy EXCEPT ![ch] = TRUE]
    /\ UNCHANGED <<mainVars, Callback, rpc, buffer, dataVars>>

\* A read throws and may lose units: the block is given up.
ReadFails(ch) ==
    /\ Running
    /\ rpc[ch] = "read"
    /\ pdev = "open"
    /\ failures[ch] < MaxFailures
    /\ failures' = [failures EXCEPT ![ch] = @ + 1]
    /\ \E n \in 0 .. BLOCK : supply' = [supply EXCEPT ![ch] = @ + n]
    /\ rpc' = [rpc EXCEPT ![ch] = "check"]
    /\ lossy' = [lossy EXCEPT ![ch] = TRUE]
    /\ UNCHANGED <<mainVars, Callback, buffer, dataVars>>

\* The device is a null pointer.
ReadCrashes(ch) ==
    /\ Running
    /\ rpc[ch] = "read"
    /\ pdev = "null"
    /\ main' = "crashed"
    /\ UNCHANGED <<pdev, isRunning, Callback, readVars, dataVars, lossy>>

\* A bug to catch: a block without a callback waits for one.
MutantTestCallback(ch) ==
    /\ Running
    /\ rpc[ch] = "test"
    /\ Callback[ch]
    /\ rpc' = [rpc EXCEPT ![ch] = "call"]
    /\ UNCHANGED <<mainVars, Callback, buffer, supply, failures, dataVars, lossy>>

\* Is there a callback?  The pointer may be read again for the call.
TestCallback(ch) ==
    /\ Running
    /\ rpc[ch] = "test"
    /\ rpc' = [rpc EXCEPT ![ch] = IF Callback[ch] THEN "call" ELSE "check"]
    /\ lossy' = [lossy EXCEPT ![ch] = @ \/ ~Callback[ch]]
    /\ UNCHANGED <<mainVars, Callback, buffer, supply, failures, dataVars>>

Full(ch) == Len(queue[ch]) > MAX_BUFFER_DEPTH

\* DataCX, DataZC: the block goes to the queue, or is dropped.  If the compiler
\* kept the pointer that was tested, this happens even if it is cleared now.
CallCallback(ch) ==
    /\ Running
    /\ rpc[ch] = "call"
    /\ queue' = IF Full(ch) THEN queue
                            ELSE [queue EXCEPT ![ch] = Append(@, buffer[ch])]
    /\ lossy' = [lossy EXCEPT ![ch] = @ \/ Full(ch)]
    /\ rpc' = [rpc EXCEPT ![ch] = "check"]
    /\ UNCHANGED <<mainVars, Callback, buffer, supply, failures, passed>>

\* StopCallbackFunc came between the test and the call: a null pointer is called.
CallCrashes(ch) ==
    /\ Running
    /\ rpc[ch] = "call"
    /\ ~Callback[ch]
    /\ main' = "crashed"
    /\ UNCHANGED <<pdev, isRunning, Callback, readVars, dataVars, lossy>>

(***************************************************************************)
(* The data thread: wait_and_pop and the test of the head, 0xABCD1234.     *)
(***************************************************************************)
HasHead(b) == b[1] % BLOCK = 0

\* A bug to catch: the block stays at the front of the queue.
MutantTakeBlock(ch) ==
    /\ Running
    /\ queue[ch] # <<>>
    /\ Len(passed[ch]) < MaxUnits
    /\ passed' = IF HasHead(Head(queue[ch]))
                 THEN [passed EXCEPT ![ch] = Append(@, Head(queue[ch]))]
                 ELSE passed
    /\ UNCHANGED <<mainVars, Callback, readVars, queue, lossy>>

TakeBlock(ch) ==
    LET b == Head(queue[ch]) IN
    /\ Running
    /\ queue[ch] # <<>>
    /\ queue' = [queue EXCEPT ![ch] = Tail(@)]
    /\ passed' = IF HasHead(b) THEN [passed EXCEPT ![ch] = Append(@, b)] ELSE passed
    /\ lossy' = [lossy EXCEPT ![ch] = @ \/ ~HasHead(b)]
    /\ UNCHANGED <<mainVars, Callback, readVars>>

-----------------------------------------------------------------------------
Control ==
    \/ \E ch \in Channels : RegisterCallBack(ch)
    \/ OpenDevice
    \/ FirstCommand
    \/ StopCallbackFunc
    \/ CloseDevice
    \/ DeleteDevice

ReadThread(ch) ==
    \/ BeginBlock(ch)
    \/ ReadSome(ch)
    \/ ReadFails(ch)
    \/ ReadCrashes(ch)
    \/ TestCallback(ch)
    \/ CallCallback(ch)
    \/ CallCrashes(ch)

Next ==
    \/ Control
    \/ \E ch \in Channels : ReadThread(ch) \/ TakeBlock(ch)

Spec == Init /\ [][Next]_vars

\* The threads run; nothing forces the board to deliver, or a call.
Fairness ==
    /\ WF_vars(DeleteDevice)
    /\ \A ch \in Channels :
        WF_vars(BeginBlock(ch) \/ TestCallback(ch) \/ CallCallback(ch))

FairSpec == Spec /\ Fairness

-----------------------------------------------------------------------------
(***************************************************************************)
(* Correctness.                                                            *)
(***************************************************************************)

\* Every variable has its type; no block is longer than BLOCK, and a queue
\* never holds more than MAX_BUFFER_DEPTH + 1 of them.
TypeOK ==
    /\ main \in {"start", "command", "run", "join", "closed", "crashed"}
    /\ pdev \in {"null", "open", "deleted"}
    /\ isRunning \in BOOLEAN
    /\ Callback \in [Channels -> BOOLEAN]
    /\ rpc \in [Channels -> {"none", "check", "read", "test", "call", "exited"}]
    /\ buffer \in [Channels -> Seq(Nat)]
    /\ supply \in [Channels -> Nat]
    /\ queue \in [Channels -> Seq(Seq(Nat))]
    /\ passed \in [Channels -> Seq(Seq(Nat))]
    /\ failures \in [Channels -> Nat]
    /\ lossy \in [Channels -> BOOLEAN]
    /\ \A ch \in Channels :
        /\ Len(buffer[ch]) <= BLOCK
        /\ Len(queue[ch]) <= MAX_BUFFER_DEPTH + 1

\* A block that passes the test of its first word is one the board sent: whole,
\* without a gap, although reads are partial and fail in the middle of a block,
\* and only its beginning is looked at (ReadThread and DataDealWB, DataDealNB).
PassedIsWhole ==
    \A ch \in Channels : \A i \in 1 .. Len(passed[ch]) :
        passed[ch][i] = Units(passed[ch][i][1], BLOCK) /\ HasHead(passed[ch][i])

\* Each block that passes is newer than the one before (ReadThread, push).
PassedInOrder ==
    \A ch \in Channels : \A i, j \in 1 .. Len(passed[ch]) :
        i < j => passed[ch][i][1] < passed[ch][j][1]

InHand(ch) == IF rpc[ch] \in {"read", "test", "call"} THEN Len(buffer[ch]) ELSE 0

\* Without a failed read, a full queue, a missing callback or a block that the data
\* thread dropped for its head, nothing is lost: every unit the board sent has
\* passed, is in the queue or is in the hands of the read thread (ReadThread,
\* DataCX, DataZC).
NothingLost ==
    \A ch \in Channels :
        ~lossy[ch] =>
            supply[ch] = BLOCK * (Len(passed[ch]) + Len(queue[ch])) + InHand(ch)

\* No read blocks for ever.
BoardAnswers == \A ch \in Channels : []<>(rpc[ch] # "read")

\* If the board answers, CloseDevice returns, although isRunning is looked at
\* between two blocks only (CloseDevice, ReadThread).
CloseEnds == BoardAnswers => (main = "join") ~> (main \in {"closed", "crashed"})
=============================================================================
