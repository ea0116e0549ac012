# Verification of DBXXH_Server

DBXXH_Server is a radio receiver's server. A PCIe board (XDMA) delivers
wide-band spectra and narrow-band samples; the server frames them and broadcasts
the frames over TCP to every client; clients send textual commands that set the
receiver's parameters. This directory holds TLA+ models of the server's own code
(`src/DBXXH_Server`, `src/XDMA_PCIE`; `src/DBXXH_Server/boost` is vendored), the
TLC configurations that check them and the theorems that TLAPS proves about them.

## 1. Inventory

| Component | State | Operations | Interacts with |
|---|---|---|---|
| **TcpSocket** (`TcpSocket.cpp`) | `SessionSet` (raw pointers), `SessionSetMutex`, acceptor | accept handler, `SendMsg`, `Run` | creates sessions; called by the data threads |
| **TcpSession** (`TcpSession.cpp`) | socket, `isRunning`, `SendState`, `WriteLock`, `ReplayCommand` | `StartWork`, `AddToSet`, `read`, `write`, `RemoveFromSet`, `RecvCommandFun` and the answers | two detached threads that hold `shared_ptr`s; the parameters; the device |
| **Parameters** (`PrintHelper.h`, `PARAMETER_SET`) | `WB_Params`, `m_ParamPowerWB` with its mutex, `NB_Params`, `m_NBWave` with its mutex | the two `SetParamPowerWB`, the setters of `m_NBWave`; direct writes | written by the read threads, read by the data threads |
| **Commands** (`SetCmdWBParams`, `SetCmdNBChannel`, `SelfCheck`, `StructCmd.hpp`) | local device commands, partly uninitialised | parse tokens, write the software copy, write the device | parameters, `WriteStreamCmd` |
| **DataDealWB** (`DataThreadWB.cpp`) | none of its own | filter, `ToPowerWB`, `WBDataReplay` | queue, parameters, `SendMsg` |
| **DataDealNB** (`DataThreadNB.cpp`) | per channel: `PackIndex` and a buffer; the same once for pulses | filter, `ToWaveData`, `ToPulseData` | queue, parameters, `SendMsg` |
| **threadsafe_queue** (`ThreadSafeQueue.h`) | a queue, a mutex, a condition variable | `push`, `wait_and_pop`, `try_pop`, `clear`, `notify` | device callback (producer), data thread (consumer) |
| **Device access** (`XDMA_PCIE`) | `pdev`, `isRunning`, callbacks, two read threads | `OpenDevice`, `CloseDevice`, `StopCallbackFunc`, `WriteStreamCmd`, `ReadThread` | board; callbacks `DataCX`, `DataZC` |
| **Startup** (`TinyInstance`, `TinyConfig`, `main`) | configuration file | constructor, `InitThread`, `join` | everything |
| `timeConvert`, `PrintHelper`, packet layout | none that matters | never called / console / fields | - |

Threads: the io thread (accept handler), per session a read and a print thread,
two device read threads, two data threads, a statistics thread.

What is hard here:

* *Lifetime.* `SessionSet` holds raw pointers. A session dies when the last of
  three `shared_ptr`s goes (accept handler, read thread, print thread), on any of
  those threads, while `SendMsg` may be in the middle of the list.
* *Locking.* `SessionSetMutex` is held for a whole broadcast, across blocking
  socket calls; `WriteLock` for a whole packet; `ParamPowerWBMutex` for all frames
  of a block, outside the other two.
* *Two copies of the parameters.* A command changes the software copy token by
  token while it parses and the device after that; it may be partial, fail
  anywhere, or overlap one of another session.
* *Stale data.* Blocks and packets measured with older settings are still in the
  queues when the settings change; filters compare them with the current ones.
* *Failure.* Connections stall and break, accepts fail, device writes throw,
  numbers do not parse, the queue is full, the disk is full.
* *Uninitialised memory.* A read buffer is not cleared: a head without its text is
  followed by what the memory held, perhaps an earlier command. Device commands are
  uninitialised structures on the stack: a parameter that is not named goes out as junk.

Correctness, per component: **TcpServer** - no use after destruction; packets
whole on every stream; one order of broadcasts for all, as if each were one atomic
step; nobody skipped; everything ends if the clients move. **Queue** - a bounded FIFO without lost
wakeups. **Wide band** - frames that fit the block they are cut from, under one
header; after a command software and device agree. **Narrow band** - a frame is a
run of packets of one channel, and of one setting if the settings stayed as they
were while it was collected (a frame in the middle of which they change may mix
two, for the filter only compares each packet with the settings of now); after a
complete command software and device agree, and other channels stay as they are.
**Device access** - a block that passes is whole and aligned.
**Commands** - those that come with their text executed in order and none twice;
answers that tell which text they answer; acknowledged when written; an inquiry
reports, of the parameters the last command named, what the device works with. **The whole way of a block** - in order,
lost only where a queue was full or a block made no message; no threads wait for
each other, somebody goes on as long as there is work, and locks and slow clients
stop nothing for ever. **Startup** - nobody is served before the device is ready;
only a configuration that is missing, or was left incomplete, stops a start.
`PROJECT.json` lists the hazards with their lines.

## 2. Modules

| Module | Models | State and actions against the code |
|---|---|---|
| `TcpServer` | `TcpSocket.cpp`, the connection side of `TcpSession.cpp` | `life`/`owners`: the object and its `shared_ptr`s; `isRunning`, `SendState`, `SessionSet`, both mutexes by name; a program counter per thread; `call`: the `write` a thread is in; `wire`: what a client received. One action per critical section; `write` and `SendMsg` are split at every socket call. |
| `Broadcast` | what `TcpSocket` promises its clients | packets cast one at a time, each to all who are on the list; a client misses one only by losing its connection. No threads, locks, calls or units. |
| `ThreadSafeQueue` | `ThreadSafeQueue.h` | one action per method; `wait_and_pop` is call, test, sleep and wake, because it gives up the mutex. |
| `FifoLog` | what the queue promises | the blocks offered, a log of those accepted, a cursor, the waiting consumers; only a full queue refuses; no lock, no sleeping. |
| `WBSpectrum` | `SetCmdWBParams`, `SetParamPowerWB`, `DataDealWB` | one action per token (each is one critical section), per device write, per frame; `header` is `m_ParamPowerWB`; `Junk` is an uninitialised field. |
| `NarrowBand` | `SetCmdNBChannel`, `NB_Params`, `m_NBWave`, `DataDealNB` | one action per token, three for `Freq` (`fpc`), which finds header, band and parameters one after the other by a shared `BankNum`, and one for the device write that tunes; the filter and the copy of the header one action per field, for they hold no lock; `ToWaveData`, `ToPulseData`. |
| `Acquisition` | `XDMA_PCIE` (`OpenDevice`, `CloseDevice`, `StopCallbackFunc`, `ReadThread`), `dllImport.cpp`, the start in `TinyInstance`, the test of the head in the data threads | `main`: the controlling thread; `pdev`; per channel the read thread (`rpc`), the block it collects, the queue, and what passed. One action per read; the test of a callback and its call are two. |
| `Dispatcher` | `TcpSession::read`, `RecvCommandFun`, `SelfCheck`, `WriteStreamCmd` | `sent`/`arrived`/`taken`: the byte stream, two units per command; `reading`: in `read_some`; `text`: the text executed, with its number, kind and parameters, as the buffer has it; `steps`: what is left of it, from `Script`, one list per kind; `ran`, `done`, `whole`: the numbers executed, those of them that came with their head, and whether these are all; `wire` and `device`: the pieces of the writes and what the board makes of them; `answers`. |
| `LossyChannel` | what `Dispatcher` and `Pipeline` promise | `sent`, `received`: in order, none twice, some missing. |
| `Pipeline` | the way of a block: `ReadThread`, callback, queue, data threads, `SendMsg`, sessions | `read`, `queue`, `block`/`part`, `todo`; the three locks by holder; `conn` and `command` per client; `received`. |
| `Startup` | `TinyInstance`, `TinyConfig`, `TcpSocket`'s constructor, `main` | `file`: `config.ini` with the good lines in it; `proc`: the process, its step in the constructor and what it holds; `spoiled`: who last changed the file left it incomplete. One action per step; `Ends` is a crash or an exception at any of them, `WriteFails` a write that fails in silence. |
| `MC*` | | symmetry sets and the commands that clients send in the instances |
| `*Proofs` | | theorems, section 5 |

How they fit together: `TcpServer`, `ThreadSafeQueue`, `WBSpectrum`, `NarrowBand`
and `Acquisition` take one part apart each, down to the single lock, token, field
or read. `Pipeline` puts the parts together again, each reduced to what its module
shows of it: the queue is a bounded sequence that drops (`Implementation` of the
queue), a data thread is a block, its number of messages and whether it holds the
wide-band mutex, and a `write` is one step of the thread that holds `WriteLock`
(`WholePackets`). `Dispatcher` does the same for commands. Both implement
`LossyChannel`: blocks on their way to a client, commands on their way to the
device.

Three specifications say what parts promise, and each is implemented by a
refinement mapping that is stated with the part and both model-checked and proved:

| Promise | Implemented by | The mapping |
|---|---|---|
| `Broadcast` | `TcpServer` (`ImplementsBroadcast`) | the packets a client has are the whole ones on its `wire`; the clients a broadcast still owes are those in `todo` of the data thread and the one it is writing to; those gone are the destroyed sessions |
| `FifoLog` | `ThreadSafeQueue` (`ImplementsFifo`) | the blocks offered are the calls of `push`, the log is every accepted block, the cursor how many have left; a block that is dropped is a step of the log that only a full log may take; a consumer inside `wait_and_pop`, asleep or not, waits |
| `LossyChannel` | `Dispatcher`, `Pipeline` (`InOrderOnce`) | commands: sent by a client, executed with the text that came with the head (`done`); messages: made of the blocks read from the board, received by a client |

`Broadcast` says what the two locks and the pointers are for: with the calls of `write`,
two data threads, accepts and destructors in any order, what clients see is one
atomic broadcast after the other, and the list changes only between two of them.

Abstractions, by module:

* **TcpServer.** The text of a command is reduced to what it does to the
  connection: its number of answers, whether it clears `SendState`, whether it
  throws (`Commands`). A packet is `PacketLen` units and `write_some` moves one or
  more. A failed accept gives a session with a broken connection. A client that
  does not read makes `write_some` block (`stalled`).
* **ThreadSafeQueue.** A block is the number of its `push`. `empty` and `size`
  change nothing and are left out.
* **WBSpectrum.** Frequencies are in Hz and the DDS words are left out; sample
  values, `RefStatus` and the fields nobody reads are left out. The board delivers
  blocks with the settings in force, and with any resolution before the first
  `FreqRes`.
* **NarrowBand.** A frequency is in Hz, a DDS word is the integer that the code
  computes from it (`DDSWord`, to the nearest; what a `double` cannot tell apart of it
  is left out). The integers have the code's widths as constants: `std::stoull` wraps a
  negative number, the shift of a side band wraps below zero (`% ULL`), and a word that
  an `unsigned int` cannot hold is one of its lower bits, zero or the largest value
  (`ToUInt`: the conversion is undefined). The byte swap of the word, the same each
  time it is sent, is left out; `CIC` is the 16-bit field and its swap in place is
  modelled. The two later device writes carry no parameter that returns in a packet. AM
  levels, CW, PSK and `FM_Truncate` only reach the board and are left out. A pulse
  packet is not filtered. A channel of a packet has the number that the code uses as an
  index, from 0 (see section 4).
* **Acquisition.** The board's stream is numbered; a block of the board begins at
  the multiples of `BLOCK`, and only there is the word 0xABCD1234 (that a sample
  has the same value by chance is left out). A failed read may lose up to a block
  of units. The controlling thread may call `StopCallbackFunc` and `CloseDevice`:
  the library exports them, the server never does. A null device or callback that
  is used ends the process. One thing the model makes visible: after units were
  lost nothing looks for the start of a block, so every block is dropped until a
  further loss happens to restore the alignment.
* **Dispatcher.** A command is a head, the same for all, and a text with the task
  number, the type and the parameters; TCP cuts between the two or joins commands.
  `RecvBuff` is a new, uninitialised vector for each read, so behind a head without
  its text may stand any text that was read before, of any session, with its own old
  number, a member of `Leftovers`, or junk behind a number that just arrived. It is
  executed and answered under the number it has. A cut inside of a head or between two
  tokens of a text is not modelled on its own: the first is a head error like any
  other, the second is among the leftovers. `Fields` are the parameters of a wide-band
  command that an inquiry reports, each with the write it goes with (`WriteOf`); a
  text names some of them, `ReplayCommand` takes over those and the device gets `Junk`
  for the rest; a parse that fails has taken over some. A write of an answer, or of a
  broadcast by another thread, may fail at any step: `isRunning` is cleared and the
  command at work goes on, as the last. `WorkCtrl` is tested in the third token and
  its value read from the fourth; with three tokens the value lies beyond the vector
  and the command counts as any of its kinds. A device write moves one or more units at
  a time under no lock; the board takes over a command whose units came in one piece
  (an assumption about the board).
* **Pipeline.** Blocks are numbered and the messages of block `b` are
  `FRAMES * (b - 1) + 1 .. FRAMES * b`; a data thread may end a block without a message:
  because of its head or the filter, or because `ToWaveData` and `ToPulseData` only
  collect it (a frame has the packets of `PACKS` blocks, `NarrowBand` models how, and
  belongs here to the block that completes it). All such blocks are in `lost`. A client is
  away, served, stalled, broken or gone, once.
* **Startup.** The file is four lines, each flushed on its own; a section without
  its value cannot be read. The file may not be created and a write may fail, both in
  silence, for nobody looks at the stream. An operator, while the server is down, writes
  a file of which any number of lines is good, or removes it. `OpenDevice` may fail
  unnoticed, and then the first command ends the process.

## 3. Runs

| Run | Instance | What it shows |
|---|---|---|
| `lifetime` (`TcpServer_lifetime.cfg`) | 2 sessions, 2 data threads, packets of 1 unit, 2 broadcasts, 1 command; symmetry | `NoUseAfterDestroy`, `SameOrderEverywhere`, `Registered`, `ImplementsBroadcast` (implements `Broadcast`) |
| `service` (`TcpServer_service.cfg`) | 1 client that may stall, 1 data thread, packets of 3 units, 2 broadcasts, 1 command | `WholePackets`; with fairness `StoppedIsReaped`, `BroadcastEnds` |
| `stop` (`TcpServer_stop.cfg`) | 1 client, 1 data thread, 1 broadcast, 1 command | **violated**: `StopIsObeyed` (finding 1) |
| `queue` (`ThreadSafeQueue.cfg`) | 3 consumers, depth 2, 5 pushes | the true bound (`TypeOK`), `NoLostWakeup`, `ImplementsFifo` (only a full queue refuses a block) and, with fairness, `ServesLikeFifo` |
| `spectrum` (`WBSpectrum_safety.cfg`) | 2 sessions, 3 commands out of four kinds, 1 block; symmetry | `TypeOK`, `FramesFit`, `OneHeaderPerBlock`, `AgreeAfterCommand` |
| `band` (`WBSpectrum_band.cfg`) | two complete commands that differ in the place of `SimBW` | **violated**: `BandAsDocumented` (finding 2) |
| `narrowband` (`NarrowBand.cfg`) | 2 sessions, 2 channels, frames of 2 packets, integers of 14 and 15 bits, commands out of six kinds and packets, 6 in all if a command counts twice; symmetry | `TypeOK`, `AgreeAfterCommand`, `TunedAfterCommand`, `FrameIsRun`, `UniformFrame`, `HeaderFitsSamples` |
| `acquisition` (`Acquisition.cfg`) | 2 channels, blocks of 2 units, depth 0, 5 units, 1 failed read | `PassedIsWhole`, `PassedInOrder`, `NothingLost`; with fairness `CloseEnds` |
| `dispatcher` (`Dispatcher.cfg`) | 2 clients, 2 commands out of four (wide band with both parameters or one, narrow band, inquiry), 2 leftovers, 2 parameters in 2 wide-band writes, 1 narrow-band write, a buffer of 3 units, device commands of 2 units; symmetry | `TypeOK`, `InOrderOnce` (implements `LossyChannel`), `OneByOneIsSafe`, `AnswersInOrder`, `AcceptedIsWritten`, `InquiryReportsDevice` |
| `pipeline` (`Pipeline.cfg`) | both channels, 2 clients of which 1 may stall or break, depth 0, 2 wide-band and 1 narrow-band block, 1 command | `TypeOK`, `OnlyTheQueueLoses`, `NoCircle`, `SomeoneGoesOn`, `InOrderOnce` (implements `LossyChannel`); with fairness `BacklogDrains`, `CommandEnds` |
| `startup` (`Startup.cfg`) | 2 addresses, 2 ports, 3 starts, 1 waiting client, 2 sessions | `StartsInOrder`, `OnlySpoiledFails` |
| `port` (`Startup_port.cfg`) | as above | **violated**: `PortAsConfigured` (finding 3) |

Each property has a mutant: a changed definition (`Mutant...` in the modules), such as a
missing lock, under which TLC finds the property violated. Proved and in no run:
the types of `TcpServer`, `Acquisition` and `Startup`, `QueueIsSuffix` of the queue,
`BroadcastReachesAll` of the server, which `ImplementsBroadcast` contains,
`ExecutedInOrder` of the dispatcher, and the consequences that section 5 draws from other properties.

*Bounds.* The counters (`MaxBroadcasts`, `MaxCommands`, `MaxPush`, `MaxBlocks`,
`MaxEvents`, `MaxUnits`, `MaxFailures`, `MaxSent`, `MaxStarts`, `MaxSessions`) end
the behaviours; everything else is unbounded. Two sessions and
two data threads give every pair of actors that meet at a lock; a packet of three
units (`service`) can be cut in the middle, which `lifetime` leaves to it and to the
theorems, for they hold for every `PacketLen`; two broadcasts can be in the wrong order;
a queue of depth 0 holds one block and drops the next, one of depth 2 gets full with
four; three consumers make a lost wakeup possible; a partial command before a
complete one needs two commands, an overlapping one before it three; in `narrowband`
a command counts as two events, so that two commands leave room for a frame of two
packets and three can overlap; its integers are so narrow that a frequency below the
shift wraps and has a word that does not fit (the theorems hold for every width); two
parameters in different writes are enough for a command that names one of them; a read
buffer of three units takes one and a half commands, so it cuts and joins; a
device command of two units can be interleaved; one failed read loses the
alignment of the stream; three starts allow a torn file, a start that fails on it and a
start after a repair or a removal. `CHECK_DEADLOCK FALSE` is set because the bounded
environment stops; that threads do not stop is what `NoCircle`, `SomeoneGoesOn` and the
liveness properties say.

*Fairness.* Threads run when they can (weak fairness). A thread waiting for a
mutex that is released again and again gets it at last (strong fairness on the
lock actions of `TcpServer`): `std::mutex` gives no such promise in the standard, the
scheduler of the platform does in practice. `Pipeline` has weak fairness only for its
locks, and this is enough because `MaxBlocks` and `MaxCommands` are finite: at last
nobody else comes to take a lock. A command that waits for `ParamPowerWBMutex` while
blocks arrive without end, and loses to the data thread each time, is outside what
`CommandEnds` and `BacklogDrains` show. A write to a client that is open again and
again goes on (strong fairness, also in `Pipeline`, where nothing else needs it).
No client need ever connect, send or read: the
liveness properties assume `PeersMakeProgress` (`TcpServer`) or
`NobodyStallsForEver` (`Pipeline`), that a client does not stall for
ever without breaking off. The premise matters: the code has no timeout on a write,
so one client that stops reading stops all broadcasts, accepts and destructors.
`SomeoneGoesOn` needs no premise and no fairness: while there is work, some thread can
go on or is at a write to a client that does not read. The stall ends at the queue,
which drops what does not fit; the read threads of the board take no lock but the queue's.
In `Acquisition` the read threads and `CloseDevice` run when they can, and nothing
forces the board: `CloseEnds` assumes `BoardAnswers`, that no read blocks for ever.
A read of the board has no timeout either.

## 4. Findings

1. **A stopped client gets data** (`stop`). `WorkCtrl` 1 clears `SendState` and
   prints "Work Param Stop, State: Stopped" (`TcpSession.cpp:229-232`); `SendMsg`
   (`TcpSocket.cpp:54`) never looks at it, and `StartRevDataWork` is never called.
2. **The header names another band** (`band`). `StartFreq` and `StopFreq` are
   computed at `CenterFreq` from the bandwidth of before; a `SimBW` after it
   changes the device and not the header (`TcpSession.cpp:300,307`), against
   `StructNetData.h:66-67`. Commands that name `SimBW` first are right
   (`AgreeAfterCommand`).
3. **The configured port is not used** (`port`). `TcpSocket` takes the port and
   binds its acceptor to the literal 5021 (`TcpSocket.cpp:38`), although
   `config.ini:4` offers `DataPort`, `TinyConfig.cpp:40` reads it and
   `TinyInstance.cpp:10` passes it on.

Noticed, and in no run: `ChannelNum` of the header is `2^Resolution`
(`PrintHelper.h:81`), not (stop - start) / resolution + 1 as `StructNetData.h:68` says.
`StructData.h:14` numbers the channels of a packet from 0x01 to 0x08, while the data thread
takes the number for an index from 0 to 7 (`DataThreadNB.cpp:33,95`) and a command accepts
0 to 7 (`TcpSession.cpp:446`); the model has the code's numbers, and if the board counts as
the comment says, each packet is taken for the next channel's and those of channel 8 are
dropped. `StructData.h:15` gives `Demod` a meaning for demodulated data (0x01) only; the
filter compares it in every packet, and so does the model. After a head whose text comes
late the server may execute an earlier text again (`Dispatcher`, `Remains`), and a
wide-band command that names only some parameters sends uninitialised values for the
others (`TakeOver`); no document says what should happen then.

## 5. Theorems

For every value of the constants that the modules' assumptions allow; TLAPS checks
every step, with SMT (Z3), Zenon and LS4. Each module has an inductive invariant,
one lemma per action that shows it preserved, and theorems that follow from it. An
invariant that is long to prove is split into layers, each inductive relative to
those before it.

* **`TcpServerProofs`** - every safety property. `IInv` (`Invariance`) gives
  `TypeCorrect` and `SafeLifetimes` (`NoUseAfterDestroy`), which alone is not
  inductive: that a data thread's pointers stay valid depends on who may erase.
  `IInv` adds: the state of the accept handler fits its pointer (`AcceptOK`); a
  session is live exactly while somebody owns it, and the owners fit the thread
  states (`OwnersOK`); a data thread inside `SendMsg` owns `SessionSetMutex`, hence
  it is the only one and nobody erases (`SendOK`); a read thread writes only to its
  own session, which it owns (`ReadOK`); every entry of the list exists, and what a
  loop has still to visit is on the list (`ListOK`). On top of it: `ListedOK` for
  `ListedWhenServed`; `StreamInv` for `PacketsStayWhole` - whoever moves units to a
  client holds its `WriteLock`, so a stream is whole packets and perhaps the
  beginning of the one the holder is at; `OrderInv` for
  `OneOrderForAll` and `NobodyIsSkipped` - broadcasts are numbered under
  `SessionSetMutex`, the number in progress is larger than any on a stream that
  is still to be visited, and who is listed and not to be visited has been served.
  `AtomicBroadcast`: `Spec => ImplementsBroadcast`. Of the steps of the code only a few
  show: the insertion, the destructor, the first step of `SendMsg`, the last unit of a
  packet or the failure that ends a `write`, and a break; one lemma per action says
  which, with the invariants above for what the abstract guards ask (whoever joins or
  leaves holds `SessionSetMutex`, so no broadcast is under way). `ClientsMissNothing`:
  between two broadcasts a client has got it misses none (`NoGaps`); this is proved of
  `Broadcast` alone (`RunInv`: who is listed has an unbroken run up to the last packet,
  or is owed it, or is broken) and carried over by the refinement.
* **`ThreadSafeQueueProofs`.** `TypeCorrect` (with the bound
  `MAX_BUFFER_DEPTH + 1`), `NothingLostInside`, `WakeupsSafe`: a consumer falls
  asleep only with an empty queue; each push adds one block and one ready
  consumer; a ready one that leaves takes a block with it. `Implementation`:
  `Spec => ImplementsFifo`, each action mapped to an action or a stutter of `FifoLog`; a
  `push` is always a step of it, and one that accepts unless the queue is full.
  `NoneTwice`: each block that leaves is newer than all that left before, whoever takes
  it - an action property (`NewerEachTime`), proved of `FifoLog` and carried over.
* **`AcquisitionProofs`** - every safety property. `PassedIsWhole` says
  nothing of the blocks on their way; `IInv` adds that what a read thread holds is
  the end of what the board delivered (`BufferOK`, by `UnitsConcat`: two runs that
  touch make one), that queued blocks are whole though perhaps misaligned
  (`BlocksOK`), that passed, queue and buffer follow each other in the stream
  (`OrderOK`), and the count (`CountOK`). A step of one channel leaves the others alone
  (`ChannelUnchanged`).
* **`WBSpectrumProofs`** - every invariant. `HeadersAgree`: the frames sent so
  far carry the header of now as long as the data thread holds the mutex.
  `TypeCorrect` and `FramesAlwaysFit`: whatever is sent, resolution and bandwidth
  stay in their tables, and the frames so far tile the block up to the next one.
  `AgreesAfterCommand` (`AgreeInv`): while a command runs alone, each field it has
  named is the same in its local copy and the software, and then in the device.
* **`NarrowBandProofs`** - every property. `FramesAreRuns` (`RunInv`): a
  buffer holds the last packets its stream accepted. `SteadyFramesUniform`
  (`UniformInv`): a packet that passed the comparison of a field, with the channel
  unchanged since, has that field. `AgreesAfterCommand` and `TunesAfterCommand`
  (`AgreeInv`): a command that runs alone keeps its local copy, the software and
  the header in step, token by token (`AloneOK`), and a channel that is settled is at no
  time the bank of a command that sets something, although all share one `BankNum`
  (`SettledOK`: a command that leaves it in peace has another bank before it sets anything,
  and so has every command that could change the shared one meanwhile). `NoWrap`: a
  shift stays as meant where the integers hold it. `HeadersFit` (`QuietInv`): while
  commands leave a channel that is set up in peace, the fields of the header copied so
  far are the ones of the setting.
* **`DispatcherProofs`.** `TypeCorrect`: `TypeOK` is inductive as it stands, with
  the script of each kind as a lemma; it says that a command executed with its own text
  lies before what has been read. `InOrder`: `Spec => InOrderOnce`, the refinement of
  `LossyChannel` by `done`: the next head lies behind all that was taken (`HeadIsNew`), and
  a leftover text is a stutter. `OneByOne` (`TidyInv`): as long as each read returned one
  whole command, the number taken is even and the text is the one that was sent.
  `AcknowledgedIsWritten`: the steps left are the end of the script (`SuffixInv`), so a
  command that is to be acknowledged has all its writes behind it, and these are on the
  wire (`ProgressInv`), under the number of the execution, for a task number may come
  again. `InquiryIsTrue`: while a command runs alone, its units end the wire without a gap
  and the device has, of each parameter named, what the writes behind it carried
  (`CarriedOutInv`); once it is carried out nobody changes either side of that parameter
  before another wide-band command begins (`AuthorInv`). `ExecutesInOrder`: while no head
  came without its text what was executed is `done` (`RanInv`), and its order is read off
  `LossyChannel`; with it `RepliesInOrder` (`ReplyInv`): an answer is to the newest
  execution and has the number of its text.
* **`PipelineProofs`.** `TypeCorrect` from `TypeInv` and `LockInv` (which of
  the three locks who holds at which step). `InOrder`: `Spec => InOrderOnce`, the
  refinement of `LossyChannel`: blocks in the queue are behind the one being worked
  on (`QueueInv`), and what a client has received lies before the message it is still to be
  sent (`ReceivedInv`), with the arithmetic of the numbering as lemmas. `NothingElseLoses` (`LossInv`): a
  block that was read and is neither finished, at work nor queued is in `lost`, and a
  listening client has every message that went out since its first one.
  `ArrivesInOrder` reads the order of the messages off `LossyChannel`. `NoDeadlock`:
  from `LockInv` and `HolderInv`, a thread waits only for holders that are further along
  `ParamPowerWBMutex`, `SessionSetMutex`, `WriteLock` (`WaitingDescends`), so any set of
  threads has one that waits for none of it, whatever the number of clients.
  `AlwaysGoesOn` (`SomeoneGoesOn`): with work left some thread can go on or is at a client
  that does not read. `CanGoOn` spells out the guards of the threads' actions, because `ENABLED`
  is out of the prover's reach; TLC found it equal to `ENABLED` of those actions in every
  state of the `pipeline` instance with two commands.
* **`StartupProofs`.** `TypeCorrect`, `Ordered` (`Progress`: what has been started at
  which step), `SpoiledIsTheOnlyCause` (`FileInv`: a file that is there and not complete is
  being written or spoiled, and a spoiled one is not complete and nobody past `read` has it).

Only model-checked: liveness (`StoppedIsReaped`, `BroadcastEnds`, `ServesLikeFifo`,
`CloseEnds`, `BacklogDrains`, `CommandEnds`), which is out of the prover's
reach. Nearest to it for every instance come `NoDeadlock` and `AlwaysGoesOn`: they say that
something can happen, fairness and TLC that it does.

## 6. Not modelled

* `timeConvert`: nothing calls it; `Time` of the headers is never set.
* `PrintHelper`'s display and the packet layout: console output and fields, no behaviour.
* The values of samples, `RefStatus`, and the parameters that only reach the board
  (PSK, CW, AM levels, `FM_Truncate`); among them the division by a rate that
  may be zero (`TcpSession.cpp:506`).
* Registers, events and overlapped I/O of the device, and `WriteStreamSample`,
  which nothing calls; the Unix variant of the device, which the project files do
  not build.
* `boost`, which makes up nearly all of the source tree, is vendored; what the
  server uses of it (sockets, property tree) is modelled through its use.

## 7. Plan

Open in the model: the parameters of the narrow band that only reach the board, and with
them the division by a rate that may be zero. Open in the proofs: a measure of the work
that is left, which each step of a thread lowers and no other thread raises; with
`AlwaysGoesOn` it would be the safety half of `BacklogDrains` for every instance.
