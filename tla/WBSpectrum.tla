----------------------------- MODULE WBSpectrum -----------------------------
(***************************************************************************)
(* The wide-band spectrum: sessions that set its parameters, the device    *)
(* that measures, and DataDealWB, the data thread that cuts each block of  *)
(* samples into frames and broadcasts them under a header.                 *)
(*                                                                         *)
(* A parameter lives twice.  SetCmdWBParams writes the software copy (the  *)
(* header m_ParamPowerWB, under ParamPowerWBMutex) token by token while it *)
(* parses, and the device only after that, in five writes with pauses.     *)
(* The five commands are locals whose fields are not initialised: what no  *)
(* token set is Junk.  DataDealWB drops the blocks whose resolution is not *)
(* the header's, and holds ParamPowerWBMutex for all frames of a block.    *)
(*                                                                         *)
(* TcpServer models how a frame is sent, ThreadSafeQueue how a block gets  *)
(* from the device to the data thread.  The software copies that nothing   *)
(* reads (WB_Params without Bandwitdh, ReplayCommand) are left out.        *)
(***************************************************************************)
EXTENDS Integers, Sequences

CONSTANTS
    Sessions,     \* the read threads that may run SetCmdWBParams
    Commands,     \* the commands clients send, as sequences of tokens
    NaN,          \* a value that is no number: std::stoi and the like throw
    Junk,         \* what an uninitialised field, or the device at power-on, holds
    MaxCommands,  \* bound: commands received
    MaxBlocks     \* bound: blocks the device produces

\* The parameters a token can name, and the order of the device writes.
Params == {"CenterFreq", "SimBW", "FreqRes", "SmNum", "GainMode", "Rf_MGC",
           "Digit_MGC", "Feedback"}

\* A token is a name and a value; "other" is one SetCmdWBParams does not know.
Tokens == [name : Params \cup {"other"}, value : Int \cup {NaN}]

ASSUME WBSpectrumAssumption ==
    /\ Commands \subseteq Seq(Tokens)
    /\ MaxCommands \in Nat
    /\ MaxBlocks \in Nat

CommandOf == [CenterFreq |-> "DDC", SimBW |-> "DDC", FreqRes |-> "FFT",
              SmNum |-> "FFT", GainMode |-> "Rf", Rf_MGC |-> "Rf",
              Digit_MGC |-> "Digit", Feedback |-> "Feedback"]

Writes == <<"DDC", "FFT", "Rf", "Digit", "Feedback">>

SAMPLES == 10240                \* DataWB_Data::LENGTH
Resolutions == 10 .. 14         \* 0x0A to 0x0E
Bandwidths == {2, 4, 8, 16, 32, 64}

\* A bug to catch: one resolution too many.
MutantAccepts(name, v) ==
    \/ name = "SimBW" /\ v \in Bandwidths
    \/ name = "FreqRes" /\ v \in 10 .. 15
    \/ name = "SmNum" /\ v \in {1, 2, 4, 8, 16, 32}
    \/ name = "GainMode" /\ v \in {0, 1}
    \/ name \in {"Rf_MGC", "Digit_MGC"} /\ v \in 0 .. 31
    \/ name \in {"CenterFreq", "Feedback"}

\* The values SetCmdWBParams takes; a token with another one is skipped.
Accepts(name, v) ==
    \/ name = "SimBW" /\ v \in Bandwidths
    \/ name = "FreqRes" /\ v \in Resolutions
    \/ name = "SmNum" /\ v \in {1, 2, 4, 8, 16, 32}
    \/ name = "GainMode" /\ v \in {0, 1}
    \/ name \in {"Rf_MGC", "Digit_MGC"} /\ v \in 0 .. 31
    \/ name \in {"CenterFreq", "Feedback"}

HalfBandwidth(bw) == 30000000 \div bw

\* Points of a frame; the last one repeats the one before it.
DataPoint(res) == SAMPLES \div 2^(14 - res) + 1

\* A bug to catch: linear instead of a power of two.
MutantGroups(res) == 15 - res

\* CXGroupNum: frames a block is cut into.
CXGroupNum(res) == 2^(14 - res)

VARIABLES
    Bandwitdh,  \* WB_Params.Bandwitdh, 0 before the first SimBW (sic)
    header,     \* m_ParamPowerWB
    cmd,        \* per session: the command being executed, <<>> if none
    pos,        \* the token to parse next; behind the last: all are parsed
    local,      \* the fields of its five device commands
    sent,       \* how many of them have been written
    device,     \* the parameters the device works with
    pending,    \* blocks on their way to the data thread
    dpc,        \* "wait", or "send": then it holds ParamPowerWBMutex
    block,      \* the block being sent, or sent last
    cut,        \* how ToPowerWB cuts it: [points, groups]
    frames,     \* the frames of that block sent so far
    commands,   \* commands received
    blocks,     \* blocks produced
    alone,      \* history: no other command overlapped that of the session
    settled     \* history: how the last command ended, see Finish

cmdVars  == <<cmd, pos, local, sent, commands, alone, settled>>
dataVars == <<dpc, block, cut, frames>>
vars == <<Bandwitdh, header, cmdVars, device, pending, dataVars, blocks>>

NoBlock == [valid |-> FALSE, Resolution |-> 14, CenterFreq |-> Junk,
            SimBW |-> Junk, settled |-> "no"]

Init ==
    /\ Bandwitdh = 0
    /\ header = [Resolution |-> 14, DataPoint |-> DataPoint(14), ChannelNum |-> 0,
                 StartFreq |-> 0, StopFreq |-> 30000000]
    /\ cmd = [s \in Sessions |-> <<>>]
    /\ pos = [s \in Sessions |-> 1]
    /\ local = [s \in Sessions |-> [p \in Params |-> Junk]]
    /\ sent = [s \in Sessions |-> 0]
    /\ device = [p \in Params |-> Junk]
    /\ pending = <<>>
    /\ dpc = "wait"
    /\ block = NoBlock
    /\ cut = [points |-> 0, groups |-> 0]
    /\ frames = <<>>
    /\ commands = 0
    /\ blocks = 0
    /\ alone = [s \in Sessions |-> FALSE]
    /\ settled = "no"

(***************************************************************************)
(* A command, executed by the read thread of its session.                  *)
(***************************************************************************)
Busy(s) == cmd[s] # <<>>

Receive(s) ==
    /\ ~Busy(s)
    /\ commands < MaxCommands
    /\ commands' = commands + 1
    /\ \E c \in Commands : cmd' = [cmd EXCEPT ![s] = c]
    /\ pos' = [pos EXCEPT ![s] = 1]
    /\ local' = [local EXCEPT ![s] = [p \in Params |-> Junk]]
    /\ sent' = [sent EXCEPT ![s] = 0]
    /\ alone' = [t \in Sessions |-> t = s /\ \A u \in Sessions : ~Busy(u)]
    /\ settled' = "no"
    /\ UNCHANGED <<Bandwitdh, header, device, pending, dataVars, blocks>>

\* The command is over, in whichever way.
Leave(s, how) ==
    /\ cmd' = [cmd EXCEPT ![s] = <<>>]
    /\ settled' = how
    /\ UNCHANGED <<pos, local, sent, commands, alone>>

Token(s) == cmd[s][pos[s]]

Parses(s, names) ==
    /\ Busy(s)
    /\ pos[s] <= Len(cmd[s])
    /\ Token(s).name \in names
    /\ pos' = [pos EXCEPT ![s] = @ + 1]
    /\ UNCHANGED <<cmd, sent, device, pending, dataVars, commands, blocks>>
    /\ UNCHANGED <<alone, settled>>

Accepted(s) == Token(s).value # NaN /\ Accepts(Token(s).name, Token(s).value)

ToDevice(s) == local' = [local EXCEPT ![s][Token(s).name] = Token(s).value]

\* A bug to catch: SetParamPowerWB without its lock.
MutantNoMutex == TRUE

ParamPowerWBMutexFree == dpc = "wait"

\* A token the command does not know, or with a value out of range.
SkipToken(s) ==
    /\ Parses(s, Params \cup {"other"})
    /\ Token(s).name = "other" \/ Token(s).value # NaN
    /\ ~Accepted(s)
    /\ UNCHANGED <<Bandwitdh, header, local>>

SetCenterFreq(s) ==
    LET half == HalfBandwidth(Bandwitdh) IN
    /\ Parses(s, {"CenterFreq"})
    /\ Accepted(s)
    /\ ParamPowerWBMutexFree
    /\ ToDevice(s)
    /\ header' = IF Bandwitdh \in Bandwidths
                 THEN [header EXCEPT !.StartFreq = Token(s).value - half,
                                     !.StopFreq = Token(s).value + half]
                 ELSE header
    /\ UNCHANGED Bandwitdh

SetSimBW(s) ==
    /\ Parses(s, {"SimBW"})
    /\ Accepted(s)
    /\ ToDevice(s)
    /\ Bandwitdh' = Token(s).value
    /\ UNCHANGED header

\* A bug to catch: the device command is forgotten.
MutantSetFreqRes(s) ==
    LET res == Token(s).value IN
    /\ Parses(s, {"FreqRes"})
    /\ Accepted(s)
    /\ ParamPowerWBMutexFree
    /\ header' = [header EXCEPT !.Resolution = res, !.ChannelNum = 2^res,
                                !.DataPoint = IF res \in Resolutions
                                               THEN DataPoint(res)
                                               ELSE @]
    /\ UNCHANGED <<Bandwitdh, local>>

SetFreqRes(s) ==
    LET res == Token(s).value IN
    /\ Parses(s, {"FreqRes"})
    /\ Accepted(s)
    /\ ParamPowerWBMutexFree
    /\ ToDevice(s)
    /\ header' = [header EXCEPT !.Resolution = res, !.ChannelNum = 2^res,
                                !.DataPoint = IF res \in Resolutions
                                               THEN DataPoint(res)
                                               ELSE @]
    /\ UNCHANGED Bandwitdh

\* SmNum, the gains and Feedback.
SetOther(s) ==
    /\ Parses(s, Params \ {"CenterFreq", "SimBW", "FreqRes"})
    /\ Accepted(s)
    /\ ToDevice(s)
    /\ UNCHANGED <<Bandwitdh, header>>

\* The conversion of a value throws: what was parsed stays in the software.
ParseThrows(s) ==
    /\ Busy(s)
    /\ pos[s] <= Len(cmd[s])
    /\ Token(s).name # "other"
    /\ Token(s).value = NaN
    /\ Leave(s, "no")
    /\ UNCHANGED <<Bandwitdh, header, device, pending, dataVars, blocks>>

WriteDevice(s) ==
    /\ Busy(s)
    /\ pos[s] > Len(cmd[s])
    /\ sent[s] < Len(Writes)
    /\ sent' = [sent EXCEPT ![s] = @ + 1]
    /\ device' = [p \in Params |-> IF CommandOf[p] = Writes[sent'[s]]
                                   THEN local[s][p]
                                   ELSE device[p]]
    /\ UNCHANGED <<Bandwitdh, header, cmd, pos, local, commands, alone, settled>>
    /\ UNCHANGED <<pending, dataVars, blocks>>

\* A write to the device throws: the rest of the command is lost.
WriteThrows(s) ==
    /\ Busy(s)
    /\ pos[s] > Len(cmd[s])
    /\ sent[s] < Len(Writes)
    /\ Leave(s, "no")
    /\ UNCHANGED <<Bandwitdh, header, device, pending, dataVars, blocks>>

(***************************************************************************)
(* A command that sets the frequency, the bandwidth and the resolution is  *)
(* complete; one that also names SimBW before CenterFreq is in order.      *)
(***************************************************************************)
Given(c, name) ==
    {i \in 1 .. Len(c) : c[i].name = name /\ Accepts(name, c[i].value)}

Complete(c) == \A name \in {"CenterFreq", "SimBW", "FreqRes"} : Given(c, name) # {}

InOrder(c) ==
    \E i \in Given(c, "CenterFreq") : \A j \in Given(c, "SimBW") : j < i

\* settled tells how the last command ended if it ran alone and was complete.
Finish(s) ==
    /\ Busy(s)
    /\ pos[s] > Len(cmd[s])
    /\ sent[s] = Len(Writes)
    /\ Leave(s, IF ~alone[s] \/ ~Complete(cmd[s]) THEN "no"
                ELSE IF InOrder(cmd[s]) THEN "in order" ELSE "complete")
    /\ UNCHANGED <<Bandwitdh, header, device, pending, dataVars, blocks>>

(***************************************************************************)
(* The device measures with the parameters it has.  (External: the board.) *)
(* A block that is no spectrum, or out of step, is not valid.              *)
(***************************************************************************)
Produce ==
    /\ blocks < MaxBlocks
    /\ blocks' = blocks + 1
    /\ \E v \in BOOLEAN, res \in Resolutions :
        /\ device["FreqRes"] # Junk => res = device["FreqRes"]
        /\ pending' = Append(pending,
                [valid |-> v, Resolution |-> res, CenterFreq |-> device["CenterFreq"],
                 SimBW |-> device["SimBW"], settled |-> settled])
    /\ UNCHANGED <<Bandwitdh, header, cmdVars, device, dataVars>>

(***************************************************************************)
(* DataDealWB.                                                             *)
(***************************************************************************)
Passes(b) == b.valid /\ b.Resolution = header.Resolution

DropBlock ==
    /\ dpc = "wait"
    /\ pending # <<>>
    /\ ~Passes(Head(pending))
    /\ pending' = Tail(pending)
    /\ UNCHANGED <<Bandwitdh, header, cmdVars, device, dataVars, blocks>>

BeginBlock ==
    /\ dpc = "wait"
    /\ pending # <<>>
    /\ Passes(Head(pending))
    /\ block' = Head(pending)
    /\ pending' = Tail(pending)
    /\ cut' = [points |-> header.DataPoint, groups |-> CXGroupNum(header.Resolution)]
    /\ frames' = <<>>
    /\ dpc' = "send"
    /\ UNCHANGED <<Bandwitdh, header, cmdVars, device, blocks>>

SendFrame ==
    /\ dpc = "send"
    /\ Len(frames) < cut.groups
    /\ frames' = Append(frames, [header |-> header, points |-> cut.points,
                                 from |-> Len(frames) * (cut.points - 1)])
    /\ UNCHANGED <<Bandwitdh, header, cmdVars, device, pending, blocks>>
    /\ UNCHANGED <<dpc, block, cut>>

EndBlock ==
    /\ dpc = "send"
    /\ Len(frames) = cut.groups
    /\ dpc' = "wait"
    /\ UNCHANGED <<Bandwitdh, header, cmdVars, device, pending, blocks>>
    /\ UNCHANGED <<block, cut, frames>>

Parse(s) ==
    \/ SkipToken(s)
    \/ SetCenterFreq(s)
    \/ SetSimBW(s)
    \/ SetFreqRes(s)
    \/ SetOther(s)
    \/ ParseThrows(s)

Session(s) ==
    \/ Receive(s)
    \/ Parse(s)
    \/ WriteDevice(s)
    \/ WriteThrows(s)
    \/ Finish(s)

DataDealWB == DropBlock \/ BeginBlock \/ SendFrame \/ EndBlock

Next ==
    \/ \E s \in Sessions : Session(s)
    \/ Produce
    \/ DataDealWB

Spec == Init /\ [][Next]_vars

-----------------------------------------------------------------------------
(***************************************************************************)
(* Correctness.                                                            *)
(***************************************************************************)
Headers == [Resolution : Resolutions, DataPoint : Nat, ChannelNum : Nat,
            StartFreq : Int, StopFreq : Int]

\* The header has a resolution the spectrum can be cut with, and the number of
\* points that belongs to it, whatever commands arrive (SetParamPowerWB).
TypeOK ==
    /\ Bandwitdh \in Bandwidths \cup {0}
    /\ header \in Headers
    /\ header.DataPoint = DataPoint(header.Resolution)
    /\ \A s \in Sessions : pos[s] \in 1 .. Len(cmd[s]) + 1 \/ ~Busy(s)
    /\ sent \in [Sessions -> 0 .. Len(Writes)]
    /\ dpc \in {"wait", "send"}
    /\ commands \in 0 .. MaxCommands
    /\ blocks \in 0 .. MaxBlocks
    /\ alone \in [Sessions -> BOOLEAN]
    /\ settled \in {"no", "complete", "in order"}

\* A frame is as long as its header says, lies within the samples and continues
\* where the one before it ended, and its header names the resolution of the
\* block it was cut from; when the block is done the last one ends with the
\* samples.  Sessions may change the header at any time (ToPowerWB against
\* SetParamPowerWB).
FramesFit ==
    \A i \in 1 .. Len(frames) :
        LET f   == frames[i]
            end == f.from + f.points - 1
        IN
        /\ f.points = f.header.DataPoint
        /\ f.header.Resolution = block.Resolution
        /\ f.from = IF i = 1 THEN 0 ELSE frames[i - 1].from + frames[i - 1].points - 1
        /\ IF dpc = "wait" /\ i = Len(frames) THEN end = SAMPLES ELSE end <= SAMPLES

\* All frames of one block carry the same header: a receiver that puts the
\* spectrum together sees one centre frequency (DataFilter holds the mutex).
OneHeaderPerBlock ==
    \A i, j \in 1 .. Len(frames) : frames[i].header = frames[j].header

\* Software and device agree after a command that ran alone, was complete and
\* named SimBW before CenterFreq: blocks pass the filter, and the header names
\* the band that is measured, whatever partial, failed or overlapping commands
\* came before (SetCmdWBParams).
AgreeAfterCommand ==
    settled = "in order" =>
        /\ header.Resolution = device["FreqRes"]
        /\ header.StartFreq = device["CenterFreq"] - HalfBandwidth(device["SimBW"])
        /\ header.StopFreq = device["CenterFreq"] + HalfBandwidth(device["SimBW"])

\* The documented meaning of StartFreq and StopFreq (StructNetData.h): a block
\* measured after a complete command that ran alone is sent with the band it
\* was measured in.
BandAsDocumented ==
    \A i \in 1 .. Len(frames) :
        block.settled # "no" /\ settled = block.settled =>
            /\ frames[i].header.StartFreq = block.CenterFreq - HalfBandwidth(block.SimBW)
            /\ frames[i].header.StopFreq = block.CenterFreq + HalfBandwidth(block.SimBW)
=============================================================================
