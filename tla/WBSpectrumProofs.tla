-------------------------- MODULE WBSpectrumProofs --------------------------
(***************************************************************************)
(* Proofs about WBSpectrum, for any sessions and any commands.             *)
(***************************************************************************)
EXTENDS WBSpectrum, TLAPS

\* frames is a sequence, of whatever.
FramesSeq == frames = [i \in 1 .. Len(frames) |-> frames[i]] /\ Len(frames) \in Nat

\* While a block is being sent, every frame that has left carries the header as
\* it is now: nobody else gets ParamPowerWBMutex.
FramesCarryHeader ==
    /\ FramesSeq
    /\ dpc = "send" => \A i \in 1 .. Len(frames) : frames[i].header = header

IInv == FramesCarryHeader /\ OneHeaderPerBlock

LEMMA InitOK == Init => IInv
  BY DEF Init, IInv, FramesCarryHeader, FramesSeq, OneHeaderPerBlock

\* Only the data thread sends frames, and it leaves the header alone.
LEMMA SessionStep ==
    ASSUME NEW s \in Sessions, Session(s)
    PROVE  UNCHANGED dataVars /\ (dpc = "send" => UNCHANGED header)
<1>1. CASE Receive(s)
  BY <1>1 DEF Receive
<1>2. CASE Parse(s)
  BY <1>2 DEF Parse, SkipToken, SetCenterFreq, SetSimBW, SetFreqRes, SetOther,
              ParseThrows, Parses, ParamPowerWBMutexFree
<1>3. CASE WriteDevice(s) \/ WriteThrows(s) \/ Finish(s)
  BY <1>3 DEF WriteDevice, WriteThrows, Finish
<1> QED
  BY <1>1, <1>2, <1>3 DEF Session

LEMMA Step ==
    ASSUME IInv, [Next]_vars
    PROVE  IInv'
<1> USE DEF IInv, FramesCarryHeader, FramesSeq, OneHeaderPerBlock
<1>1. ASSUME NEW s \in Sessions, Session(s) PROVE IInv'
  BY <1>1, SessionStep DEF dataVars
<1>2. CASE Produce
  BY <1>2 DEF Produce, dataVars
<1>3. CASE DropBlock
  BY <1>3 DEF DropBlock, dataVars
<1>4. CASE BeginBlock
  BY <1>4 DEF BeginBlock
<1>5. CASE SendFrame
  <2> DEFINE f == [header |-> header, points |-> cut.points,
                   from |-> Len(frames) * (cut.points - 1)]
  <2>1. frames' = Append(frames, f) /\ UNCHANGED <<dpc, header>>
    BY <1>5 DEF SendFrame
  <2>2. Len(frames') = Len(frames) + 1
    BY <2>1 DEF IInv
  <2>3. \A i \in 1 .. Len(frames) : frames'[i] = frames[i]
    BY <2>1
  <2>4. frames'[Len(frames) + 1].header = header
    BY <2>1
  <2>5. \A i \in 1 .. Len(frames') : frames'[i].header = header
    BY <1>5, <2>2, <2>3, <2>4 DEF SendFrame
  <2>6. FramesSeq'
    BY <2>1, <2>2
  <2> QED
    BY <2>1, <2>5, <2>6
<1>6. CASE EndBlock
  BY <1>6 DEF EndBlock
<1>7. CASE UNCHANGED vars
  BY <1>7 DEF vars, dataVars
<1> QED
  BY <1>1, <1>2, <1>3, <1>4, <1>5, <1>6, <1>7 DEF Next, DataDealWB

\* All frames of one block carry the same header, whatever the sessions set
\* while the block is sent: the lock spans the loop.
THEOREM HeadersAgree == Spec => []OneHeaderPerBlock
<1>1. IInv => OneHeaderPerBlock
  BY DEF IInv
<1> QED
  BY InitOK, Step, <1>1, PTL DEF Spec

-----------------------------------------------------------------------------
(***************************************************************************)
(* The tables over the resolution and the bandwidth.                       *)
(***************************************************************************)
Cut(points, groups) ==
    \/ points = 641 /\ groups = 16
    \/ points = 1281 /\ groups = 8
    \/ points = 2561 /\ groups = 4
    \/ points = 5121 /\ groups = 2
    \/ points = 10241 /\ groups = 1

LEMMA CutTable ==
    ASSUME NEW res \in Resolutions
    PROVE  /\ Cut(DataPoint(res), CXGroupNum(res))
           /\ 2^res \in Nat
<1>1. res \in {10, 11, 12, 13, 14}
  BY DEF Resolutions
<1>2. CASE res = 10
  <2>1. 14 - 10 = 4 /\ 2^4 = 16 /\ 2^10 = 1024
    OBVIOUS
  <2> QED
    BY <1>2, <2>1, SMT DEF DataPoint, CXGroupNum, SAMPLES, Cut
<1>3. CASE res = 11
  <2>1. 14 - 11 = 3 /\ 2^3 = 8 /\ 2^11 = 2048
    OBVIOUS
  <2> QED
    BY <1>3, <2>1, SMT DEF DataPoint, CXGroupNum, SAMPLES, Cut
<1>4. CASE res = 12
  <2>1. 14 - 12 = 2 /\ 2^2 = 4 /\ 2^12 = 4096
    OBVIOUS
  <2> QED
    BY <1>4, <2>1, SMT DEF DataPoint, CXGroupNum, SAMPLES, Cut
<1>5. CASE res = 13
  <2>1. 14 - 13 = 1 /\ 2^1 = 2 /\ 2^13 = 8192
    OBVIOUS
  <2> QED
    BY <1>5, <2>1, SMT DEF DataPoint, CXGroupNum, SAMPLES, Cut
<1>6. CASE res = 14
  <2>1. 14 - 14 = 0 /\ 2^0 = 1 /\ 2^14 = 16384
    OBVIOUS
  <2> QED
    BY <1>6, <2>1, SMT DEF DataPoint, CXGroupNum, SAMPLES, Cut
<1> QED
  BY <1>1, <1>2, <1>3, <1>4, <1>5, <1>6

LEMMA HalfType ==
    ASSUME NEW bw \in Bandwidths
    PROVE  HalfBandwidth(bw) \in Int
  BY SMT DEF Bandwidths, HalfBandwidth

LEMMA AcceptsType ==
    ASSUME NEW name, NEW v, Accepts(name, v)
    PROVE  /\ name \in Params
           /\ name = "SimBW" => v \in Bandwidths
           /\ name = "FreqRes" => v \in Resolutions
  BY DEF Accepts, Params

-----------------------------------------------------------------------------
(***************************************************************************)
(* Types.                                                                  *)
(***************************************************************************)
Values == Int \cup {Junk}

\* TypeOK in parts: the header, the place in the command, the rest; and what is
\* known of commands and devices.
HeaderOK ==
    /\ Bandwitdh \in Bandwidths \cup {0}
    /\ header \in Headers
    /\ header.DataPoint = DataPoint(header.Resolution)

PosOK == \A s \in Sessions : pos[s] \in 1 .. Len(cmd[s]) + 1 \/ ~Busy(s)

RestOK ==
    /\ sent \in [Sessions -> 0 .. Len(Writes)]
    /\ dpc \in {"wait", "send"}
    /\ commands \in 0 .. MaxCommands
    /\ blocks \in 0 .. MaxBlocks
    /\ alone \in [Sessions -> BOOLEAN]
    /\ settled \in {"no", "complete", "in order"}

CommandInv ==
    /\ cmd \in [Sessions -> Seq(Tokens)]
    /\ pos \in [Sessions -> Nat \ {0}]
    /\ local \in [Sessions -> [Params -> Values]]
    /\ device \in [Params -> Values]
    /\ \A s \in Sessions : Busy(s) /\ sent[s] > 0 => pos[s] > Len(cmd[s])

TypeInv == HeaderOK /\ PosOK /\ RestOK /\ CommandInv

LEMMA TypeParts == TypeOK <=> HeaderOK /\ PosOK /\ RestOK
  BY DEF TypeOK, HeaderOK, PosOK, RestOK

LEMMA TypeInit == Init => TypeInv
<1> SUFFICES ASSUME Init PROVE TypeInv
  OBVIOUS
<1>1. DataPoint(14) \in Nat
  BY CutTable, SMT DEF Resolutions, Cut
<1>2. HeaderOK
  BY <1>1, SMT DEF Init, HeaderOK, Headers, Resolutions
<1>3. PosOK
  <2>1. cmd = [s \in Sessions |-> <<>>]
    BY DEF Init
  <2>2. \A s \in Sessions : ~Busy(s)
    BY <2>1 DEF Busy
  <2> QED
    BY <2>2 DEF PosOK
<1>4. RestOK
  BY WBSpectrumAssumption, SMT DEF Init, RestOK, Writes
<1>5. CommandInv
  BY SMT DEF Init, CommandInv, Busy, Values
<1> QED
  BY <1>2, <1>3, <1>4, <1>5 DEF TypeInv

LEMMA TokenType ==
    ASSUME CommandInv, NEW s \in Sessions, Busy(s), pos[s] <= Len(cmd[s])
    PROVE  Token(s) \in Tokens
  BY DEF CommandInv, Token

\* What every token that parses has in common.
LEMMA ParseStep ==
    ASSUME NEW s \in Sessions, Parse(s), ~ParseThrows(s)
    PROVE  /\ Busy(s) /\ pos[s] <= Len(cmd[s])
           /\ pos' = [pos EXCEPT ![s] = @ + 1]
           /\ UNCHANGED <<cmd, sent, device, commands, blocks, alone, settled, dpc>>
           /\ local' = local \/ (ToDevice(s) /\ Accepted(s))
<1>1. CASE SkipToken(s)
  BY <1>1 DEF SkipToken, Parses, dataVars
<1>2. CASE SetCenterFreq(s)
  BY <1>2 DEF SetCenterFreq, Parses, dataVars
<1>3. CASE SetSimBW(s)
  BY <1>3 DEF SetSimBW, Parses, dataVars
<1>4. CASE SetFreqRes(s)
  BY <1>4 DEF SetFreqRes, Parses, dataVars
<1>5. CASE SetOther(s)
  BY <1>5 DEF SetOther, Parses, dataVars
<1> QED
  BY <1>1, <1>2, <1>3, <1>4, <1>5 DEF Parse

\* The header after a token.
LEMMA ParseHeader ==
    ASSUME TypeInv, NEW s \in Sessions, Parse(s)
    PROVE  HeaderOK'
<1> USE DEF TypeInv, HeaderOK
<1>1. CASE SetCenterFreq(s)
  <2>1. Token(s).value \in Int
    BY <1>1, TokenType DEF SetCenterFreq, Parses, Accepted, Tokens
  <2>2. CASE Bandwitdh \in Bandwidths
    <3>1. HalfBandwidth(Bandwitdh) \in Int
      BY <2>2, HalfType
    <3>2. /\ Bandwitdh' = Bandwitdh
          /\ header' = [header EXCEPT
                        !.StartFreq = Token(s).value - HalfBandwidth(Bandwitdh),
                        !.StopFreq = Token(s).value + HalfBandwidth(Bandwitdh)]
      BY <1>1, <2>2 DEF SetCenterFreq
    <3> QED
      <4>1. header \in Headers
        OBVIOUS
      <4> DEFINE a == Token(s).value - HalfBandwidth(Bandwitdh)
                 b == Token(s).value + HalfBandwidth(Bandwitdh)
      <4>2. a \in Int /\ b \in Int
        BY <2>1, <3>1
      <4>3. header' = [header EXCEPT !.StartFreq = a, !.StopFreq = b]
        BY <3>2
      <4> HIDE DEF a, b
      <4>4. header' \in Headers
        BY <4>1, <4>2, <4>3 DEF Headers
      <4>5. header'.DataPoint = header.DataPoint /\ header'.Resolution = header.Resolution
        BY <4>1, <4>3 DEF Headers
      <4> QED
        BY <3>2, <4>4, <4>5
  <2>3. CASE Bandwitdh \notin Bandwidths
    BY <1>1, <2>3 DEF SetCenterFreq
  <2> QED
    BY <2>2, <2>3
<1>2. CASE SetSimBW(s)
  BY <1>2, AcceptsType DEF SetSimBW, Parses, Accepted
<1>3. CASE SetFreqRes(s)
  <2>1. Token(s).value \in Resolutions
    BY <1>3, AcceptsType DEF SetFreqRes, Parses, Accepted
  <2>2. DataPoint(Token(s).value) \in Nat /\ 2^Token(s).value \in Nat
    BY <2>1, CutTable DEF Cut
  <2> QED
    BY <1>3, <2>1, <2>2 DEF SetFreqRes, Headers
<1>4. CASE SkipToken(s) \/ SetOther(s) \/ ParseThrows(s)
  BY <1>4 DEF SkipToken, SetOther, ParseThrows
<1> QED
  BY <1>1, <1>2, <1>3, <1>4 DEF Parse

LEMMA ParseType ==
    ASSUME TypeInv, NEW s \in Sessions, Parse(s)
    PROVE  TypeInv'
<1>1. CASE ParseThrows(s)
  <2>1. PosOK'
    BY <1>1 DEF ParseThrows, Leave, TypeInv, PosOK, CommandInv, Busy
  <2>2. RestOK'
    BY <1>1 DEF ParseThrows, Leave, TypeInv, RestOK, dataVars
  <2>3. CommandInv'
    BY <1>1 DEF ParseThrows, Leave, TypeInv, CommandInv, Busy
  <2> QED
    BY <2>1, <2>2, <2>3, ParseHeader DEF TypeInv
<1>2. CASE ~ParseThrows(s)
  <2>1. PosOK'
    BY <1>2, ParseStep DEF TypeInv, PosOK, CommandInv, Busy
  <2>2. RestOK'
    BY <1>2, ParseStep DEF TypeInv, RestOK
  <2>3. local' \in [Sessions -> [Params -> Values]]
    <3>1. CASE local' = local
      BY <3>1 DEF TypeInv, CommandInv
    <3>2. CASE ToDevice(s) /\ Accepted(s)
      <4>1. Token(s).name \in Params /\ Token(s).value \in Int
        BY <1>2, <3>2, ParseStep, TokenType, AcceptsType DEF Accepted, Tokens, TypeInv
      <4> QED
        BY <3>2, <4>1 DEF ToDevice, TypeInv, CommandInv, Values
    <3> QED
      BY <1>2, <3>1, <3>2, ParseStep
  <2>4. ~(sent[s] > 0)
    BY <1>2, ParseStep DEF TypeInv, CommandInv
  <2>5. CommandInv'
    <3>1. UNCHANGED <<cmd, sent, device>> /\ pos' = [pos EXCEPT ![s] = @ + 1]
      BY <1>2, ParseStep
    <3> QED
      BY <2>3, <2>4, <3>1, SMT DEF TypeInv, CommandInv, Busy
  <2> QED
    BY <2>1, <2>2, <2>5, ParseHeader DEF TypeInv
<1> QED
  BY <1>1, <1>2

LEMMA SessionType ==
    ASSUME TypeInv, NEW s \in Sessions, Session(s)
    PROVE  TypeInv'
<1> USE DEF TypeInv
<1>1. CASE Receive(s)
  <2>1. PICK c \in Commands : cmd' = [cmd EXCEPT ![s] = c]
    BY <1>1 DEF Receive
  <2>2. c \in Seq(Tokens) /\ Len(c) \in Nat
    BY WBSpectrumAssumption
  <2>3. HeaderOK'
    BY <1>1 DEF Receive, HeaderOK
  <2>4. PosOK'
    BY <1>1, <2>1, <2>2 DEF Receive, PosOK, CommandInv, Busy
  <2>5. alone' \in [Sessions -> BOOLEAN]
    BY <1>1, Zenon DEF Receive
  <2>6. RestOK'
    <3>1. /\ sent' = [sent EXCEPT ![s] = 0]
          /\ commands < MaxCommands /\ commands' = commands + 1
          /\ settled' = "no"
          /\ UNCHANGED <<dpc, blocks>>
      BY <1>1 DEF Receive, dataVars
    <3> QED
      <4>1. sent' \in [Sessions -> 0 .. Len(Writes)]
        <5>1. sent \in [Sessions -> 0 .. 5]
          BY DEF RestOK, Writes
        <5>2. sent' \in [Sessions -> 0 .. 5]
          BY <3>1, <5>1
        <5> QED
          BY <5>2 DEF Writes
      <4>2. commands' \in 0 .. MaxCommands
        <5>1. commands \in 0 .. MaxCommands /\ MaxCommands \in Nat
          BY WBSpectrumAssumption DEF RestOK
        <5> QED
          BY <3>1, <5>1
      <4> QED
        BY <2>5, <3>1, <4>1, <4>2 DEF RestOK
  <2>7. CommandInv'
    <3>1. /\ pos' = [pos EXCEPT ![s] = 1]
          /\ local' = [local EXCEPT ![s] = [p \in Params |-> Junk]]
          /\ sent' = [sent EXCEPT ![s] = 0]
          /\ UNCHANGED device
      BY <1>1 DEF Receive
    <3> QED
      <4>1. cmd' \in [Sessions -> Seq(Tokens)]
        BY <2>1, <2>2 DEF CommandInv
      <4>2. local' \in [Sessions -> [Params -> Values]]
        BY <3>1 DEF CommandInv, Values
      <4>3. pos' \in [Sessions -> Nat \ {0}] /\ sent'[s] = 0
        <5>1. pos \in [Sessions -> Nat \ {0}]
          BY DEF CommandInv
        <5>2. sent \in [Sessions -> 0 .. Len(Writes)]
          BY DEF RestOK
        <5> QED
          BY <3>1, <5>1, <5>2
      <4>4. ASSUME NEW t \in Sessions, Busy(t)', sent'[t] > 0
            PROVE  (pos[t] > Len(cmd[t]))'
        <5>1. t # s
          BY <4>3, <4>4
        <5>2. cmd'[t] = cmd[t] /\ pos'[t] = pos[t] /\ sent'[t] = sent[t]
          BY <2>1, <3>1, <5>1 DEF CommandInv, RestOK
        <5> QED
          BY <4>4, <5>2 DEF CommandInv, Busy
      <4> QED
        BY <3>1, <4>1, <4>2, <4>3, <4>4 DEF CommandInv
  <2> QED
    BY <2>3, <2>4, <2>6, <2>7
<1>2. CASE Parse(s)
  BY <1>2, ParseType
<1>3. CASE WriteDevice(s)
  <2>1. device' \in [Params -> Values]
    BY <1>3 DEF WriteDevice, CommandInv
  <2>2. HeaderOK' /\ PosOK'
    BY <1>3 DEF WriteDevice, HeaderOK, PosOK, Busy
  <2>3. RestOK'
    <3>1. /\ sent[s] < 5 /\ sent' = [sent EXCEPT ![s] = @ + 1]
          /\ UNCHANGED <<dpc, commands, blocks, alone, settled>>
      BY <1>3 DEF WriteDevice, Writes, dataVars
    <3>2. sent' \in [Sessions -> 0 .. Len(Writes)]
      <4>1. sent \in [Sessions -> 0 .. 5]
        BY DEF RestOK, Writes
      <4>2. sent' \in [Sessions -> 0 .. 5]
        BY <3>1, <4>1
      <4> QED
        BY <4>2 DEF Writes
    <3> QED
      BY <3>1, <3>2 DEF RestOK
  <2>4. CommandInv'
    BY <1>3, <2>1 DEF WriteDevice, CommandInv, RestOK, Busy
  <2> QED
    BY <2>2, <2>3, <2>4
<1>4. CASE WriteThrows(s) \/ Finish(s)
  <2>1. HeaderOK'
    BY <1>4 DEF WriteThrows, Finish, HeaderOK
  <2>2. PosOK'
    BY <1>4 DEF WriteThrows, Finish, Leave, PosOK, CommandInv, Busy
  <2>3. RestOK'
    BY <1>4 DEF WriteThrows, Finish, Leave, RestOK, dataVars
  <2>4. CommandInv'
    <3>1. cmd' = [cmd EXCEPT ![s] = <<>>] /\ UNCHANGED <<pos, local, sent, device>>
      BY <1>4 DEF WriteThrows, Finish, Leave
    <3> QED
      BY <3>1, SMT DEF CommandInv, Busy
  <2> QED
    BY <2>1, <2>2, <2>3, <2>4
<1> QED
  BY <1>1, <1>2, <1>3, <1>4 DEF Session

LEMMA TypeStep ==
    ASSUME TypeInv, [Next]_vars
    PROVE  TypeInv'
<1> USE DEF TypeInv
<1>1. ASSUME NEW s \in Sessions, Session(s) PROVE TypeInv'
  BY <1>1, SessionType
<1>2. CASE Produce \/ DataDealWB \/ UNCHANGED vars
  <2>1. HeaderOK' /\ PosOK' /\ CommandInv'
    BY <1>2 DEF Produce, DataDealWB, DropBlock, BeginBlock, SendFrame, EndBlock,
                vars, cmdVars, HeaderOK, PosOK, CommandInv, Busy
  <2>2. dpc' \in {"wait", "send"}
    BY <1>2 DEF Produce, DataDealWB, DropBlock, BeginBlock, SendFrame, EndBlock,
                vars, dataVars, RestOK
  <2>3. blocks' \in 0 .. MaxBlocks
    <3>1. \/ blocks < MaxBlocks /\ blocks' = blocks + 1
          \/ blocks' = blocks
      BY <1>2 DEF Produce, DataDealWB, DropBlock, BeginBlock, SendFrame, EndBlock, vars
    <3> QED
      <4>1. blocks \in 0 .. MaxBlocks /\ MaxBlocks \in Nat
        BY WBSpectrumAssumption DEF RestOK
      <4> QED
        BY <3>1, <4>1
  <2>4. UNCHANGED cmdVars
    BY <1>2 DEF Produce, DataDealWB, DropBlock, BeginBlock, SendFrame, EndBlock, vars
  <2>5. RestOK'
    BY <2>2, <2>3, <2>4 DEF cmdVars, RestOK
  <2> QED
    BY <2>1, <2>5
<1> QED
  BY <1>1, <1>2 DEF Next

-----------------------------------------------------------------------------
(***************************************************************************)
(* Frames.                                                                 *)
(***************************************************************************)

\* The frames of a cut lie one behind the other and fill the samples.
LEMMA CutArith ==
    ASSUME NEW p, NEW g, Cut(p, g), NEW i \in Nat, i <= g
    PROVE  /\ p \in Nat /\ g \in Nat
           /\ i * (p - 1) \in Nat
           /\ i * (p - 1) <= SAMPLES
           /\ i = g => i * (p - 1) = SAMPLES
           /\ i > 0 => i * (p - 1) = (i - 1) * (p - 1) + p - 1
<1>1. CASE p = 641 /\ g = 16
  BY <1>1, SMT DEF SAMPLES
<1>2. CASE p = 1281 /\ g = 8
  BY <1>2, SMT DEF SAMPLES
<1>3. CASE p = 2561 /\ g = 4
  BY <1>3, SMT DEF SAMPLES
<1>4. CASE p = 5121 /\ g = 2
  BY <1>4, SMT DEF SAMPLES
<1>5. CASE p = 10241 /\ g = 1
  BY <1>5, SMT DEF SAMPLES
<1> QED
  BY <1>1, <1>2, <1>3, <1>4, <1>5, SMT DEF Cut

FrameOK(i) ==
    /\ frames[i].points = cut.points
    /\ frames[i].from = (i - 1) * (cut.points - 1)
    /\ frames[i].header.DataPoint = cut.points
    /\ frames[i].header.Resolution = block.Resolution

\* Each frame is the next piece of the cut of its block, the header of a block
\* being sent belongs to that cut, and a block is left only when it is done.
FrameInv ==
    /\ FramesSeq
    /\ \A i \in 1 .. Len(frames) : FrameOK(i)
    /\ cut.groups \in Nat
    /\ Len(frames) <= cut.groups
    /\ dpc = "send" \/ frames # <<>> => Cut(cut.points, cut.groups)
    /\ dpc = "send" => /\ header.DataPoint = cut.points
                       /\ header.Resolution = block.Resolution
    /\ dpc = "wait" /\ frames # <<>> => Len(frames) = cut.groups

LEMMA FrameInit == Init => FrameInv
<1> SUFFICES ASSUME Init PROVE FrameInv
  OBVIOUS
<1>1. frames = <<>> /\ dpc = "wait" /\ cut.groups = 0
  BY SMT DEF Init
<1> QED
  BY <1>1, SMT DEF FrameInv, FramesSeq

LEMMA FrameStep ==
    ASSUME TypeInv, FrameInv, [Next]_vars
    PROVE  FrameInv'
<1> USE DEF FrameInv
<1>1. ASSUME NEW s \in Sessions, Session(s) PROVE FrameInv'
  <2>1. UNCHANGED <<dpc, block, cut, frames>> /\ (dpc = "send" => UNCHANGED header)
    BY <1>1, SessionStep DEF dataVars
  <2> QED
    BY <2>1 DEF FramesSeq, FrameOK
<1>2. CASE Produce \/ DropBlock \/ UNCHANGED vars
  <2>1. UNCHANGED <<dpc, block, cut, frames, header>>
    BY <1>2 DEF Produce, DropBlock, vars, dataVars
  <2> QED
    BY <2>1 DEF FramesSeq, FrameOK
<1>3. CASE BeginBlock
  <2>1. /\ frames' = <<>> /\ dpc' = "send" /\ header' = header
        /\ cut' = [points |-> header.DataPoint, groups |-> CXGroupNum(header.Resolution)]
        /\ block'.Resolution = header.Resolution
    BY <1>3 DEF BeginBlock, Passes
  <2>2. Cut(cut'.points, cut'.groups)
    <3>1. header.Resolution \in Resolutions /\ header.DataPoint = DataPoint(header.Resolution)
      BY DEF TypeInv, HeaderOK, Headers
    <3> QED
      BY <2>1, <3>1, CutTable
  <2>3. cut'.groups \in Nat
    BY <2>2, SMT DEF Cut
  <2> QED
    BY <2>1, <2>2, <2>3, SMT DEF FramesSeq
<1>4. CASE SendFrame
  <2> DEFINE f == [header |-> header, points |-> cut.points,
                   from |-> Len(frames) * (cut.points - 1)]
  <2>1. /\ frames' = Append(frames, f)
        /\ dpc = "send" /\ Len(frames) < cut.groups
        /\ UNCHANGED <<dpc, header, block, cut>>
    BY <1>4 DEF SendFrame
  <2> PICK n \in Nat : n = Len(frames)
    BY DEF FramesSeq
  <2>2. Len(frames') = n + 1
    BY <2>1 DEF FramesSeq
  <2>3. \A i \in 1 .. n : frames'[i] = frames[i]
    BY <2>1 DEF FramesSeq
  <2>4. frames'[n + 1] = f
    BY <2>1 DEF FramesSeq
  <2>5. FramesSeq'
    BY <2>1, <2>2 DEF FramesSeq
  <2>6. \A i \in 1 .. n : FrameOK(i)'
    BY <2>1, <2>3 DEF FrameOK
  <2>7. FrameOK(n + 1)'
    <3>1. (n + 1) - 1 = n
      OBVIOUS
    <3>2. /\ frames'[n + 1].points = cut'.points
          /\ frames'[n + 1].from = ((n + 1) - 1) * (cut'.points - 1)
      BY <2>1, <2>4, <3>1
    <3>3. /\ frames'[n + 1].header.DataPoint = cut'.points
          /\ frames'[n + 1].header.Resolution = block'.Resolution
      BY <2>1, <2>4
    <3> QED
      BY <3>2, <3>3 DEF FrameOK
  <2>8. \A i \in 1 .. n + 1 : FrameOK(i)'
    <3> SUFFICES ASSUME NEW i \in 1 .. n + 1 PROVE FrameOK(i)'
      OBVIOUS
    <3>1. CASE i \in 1 .. n
      BY <3>1, <2>6
    <3>2. CASE i = n + 1
      BY <3>2, <2>7
    <3> QED
      BY <3>1, <3>2
  <2>9. Len(frames') <= cut.groups
    BY <2>1, <2>2
  <2> QED
    BY <2>1, <2>2, <2>5, <2>8, <2>9
<1>5. CASE EndBlock
  BY <1>5 DEF EndBlock, FramesSeq, FrameOK
<1> QED
  BY <1>1, <1>2, <1>3, <1>4, <1>5 DEF Next, DataDealWB

LEMMA FrameInvFits == FrameInv => FramesFit
<1> SUFFICES ASSUME FrameInv, NEW i \in 1 .. Len(frames)
             PROVE  LET f   == frames[i]
                        end == f.from + f.points - 1
                    IN
                    /\ f.points = f.header.DataPoint
                    /\ f.header.Resolution = block.Resolution
                    /\ f.from = IF i = 1 THEN 0
                                ELSE frames[i - 1].from + frames[i - 1].points - 1
                    /\ IF dpc = "wait" /\ i = Len(frames) THEN end = SAMPLES
                                                          ELSE end <= SAMPLES
  BY DEF FramesFit
<1> DEFINE p == cut.points
<1>1. Len(frames) \in Nat /\ i \in Nat /\ i >= 1 /\ i <= Len(frames) /\ i <= cut.groups
  BY DEF FrameInv, FramesSeq
<1>2. Cut(p, cut.groups)
  BY <1>1 DEF FrameInv
<1>3. FrameOK(i)
  BY DEF FrameInv
<1>4. /\ p \in Nat
      /\ i * (p - 1) <= SAMPLES
      /\ i = cut.groups => i * (p - 1) = SAMPLES
      /\ i * (p - 1) = (i - 1) * (p - 1) + p - 1
  BY <1>1, <1>2, CutArith
<1>5. frames[i].from + frames[i].points - 1 = i * (p - 1)
  BY <1>3, <1>4 DEF FrameOK
<1>6. frames[i].from = IF i = 1 THEN 0
                       ELSE frames[i - 1].from + frames[i - 1].points - 1
  <2>1. CASE i = 1
    BY <2>1, <1>3, <1>4, SMT DEF FrameOK
  <2>2. CASE i # 1
    <3>1. i - 1 \in 1 .. Len(frames) /\ i - 1 \in Nat /\ i - 1 > 0 /\ i - 1 <= cut.groups
      BY <2>2, <1>1 DEF FrameInv
    <3>2. FrameOK(i - 1)
      BY <3>1 DEF FrameInv
    <3>3. (i - 1) * (p - 1) = ((i - 1) - 1) * (p - 1) + p - 1
      BY <3>1, <1>2, CutArith
    <3> QED
      BY <2>2, <1>3, <3>2, <3>3 DEF FrameOK
  <2> QED
    BY <2>1, <2>2
<1>7. dpc = "wait" /\ i = Len(frames) => i = cut.groups
  BY <1>1 DEF FrameInv
<1> QED
  BY <1>3, <1>4, <1>5, <1>6, <1>7 DEF FrameOK

\* The header always has a resolution the spectrum can be cut with and the number
\* of points that belongs to it, whatever the sessions parse (SetParamPowerWB).
THEOREM TypeCorrect == Spec => []TypeOK
<1>1. TypeInv => TypeOK
  BY TypeParts DEF TypeInv
<1> QED
  BY TypeInit, TypeStep, <1>1, PTL DEF Spec

\* Every frame has the length its header says and continues the one before; the
\* frames of a finished block end with its samples (ToPowerWB).
THEOREM FramesAlwaysFit == Spec => []FramesFit
<1>1. Init => TypeInv /\ FrameInv
  BY TypeInit, FrameInit
<1>2. TypeInv /\ FrameInv /\ [Next]_vars => (TypeInv /\ FrameInv)'
  BY TypeStep, FrameStep
<1> QED
  BY <1>1, <1>2, FrameInvFits, PTL DEF Spec

-----------------------------------------------------------------------------
(***************************************************************************)
(* Agreement of software and device.                                       *)
(***************************************************************************)
Named == {"CenterFreq", "SimBW", "FreqRes"}

\* The accepted tokens named x that session s has parsed.
Done(s, x) == {i \in Given(cmd[s], x) : i < pos[s]}

ResolutionAgrees(s) ==
    Done(s, "FreqRes") # {} => header.Resolution = local[s]["FreqRes"]

BandwidthAgrees(s) ==
    Done(s, "SimBW") # {} => /\ Bandwitdh \in Bandwidths
                             /\ Bandwitdh = local[s]["SimBW"]

\* A frequency was parsed when no bandwidth was left to come.
BandSet(s) ==
    /\ Given(cmd[s], "SimBW") # {}
    /\ \E i \in Done(s, "CenterFreq") : \A j \in Given(cmd[s], "SimBW") : j < i

BandAgrees(s) ==
    BandSet(s) =>
        /\ header.StartFreq = local[s]["CenterFreq"] - HalfBandwidth(local[s]["SimBW"])
        /\ header.StopFreq = local[s]["CenterFreq"] + HalfBandwidth(local[s]["SimBW"])

SoftwareAgrees(s) == ResolutionAgrees(s) /\ BandwidthAgrees(s) /\ BandAgrees(s)

DeviceAgrees(s) ==
    /\ sent[s] >= 1 => /\ device["CenterFreq"] = local[s]["CenterFreq"]
                       /\ device["SimBW"] = local[s]["SimBW"]
    /\ sent[s] >= 2 => device["FreqRes"] = local[s]["FreqRes"]

\* What a command that runs alone has set so far agrees with the header and,
\* once written, with the device; after it nobody disturbs that.
AgreeInv ==
    /\ \A s \in Sessions : Busy(s) /\ alone[s] =>
           /\ \A t \in Sessions : t # s => ~Busy(t)
           /\ SoftwareAgrees(s)
           /\ DeviceAgrees(s)
    /\ settled = "in order" => \A s \in Sessions : ~Busy(s)
    /\ AgreeAfterCommand

LEMMA AgreeInit == Init => AgreeInv
<1> SUFFICES ASSUME Init PROVE AgreeInv
  OBVIOUS
<1>1. cmd = [s \in Sessions |-> <<>>] /\ settled = "no"
  BY SMT DEF Init
<1>2. \A s \in Sessions : ~Busy(s)
  BY <1>1 DEF Busy
<1> QED
  BY <1>1, <1>2 DEF AgreeInv, AgreeAfterCommand

\* The tokens parsed after the next one.
LEMMA DoneNext ==
    ASSUME TypeInv, NEW s \in Sessions, Parse(s), ~ParseThrows(s), NEW x \in Named
    PROVE  /\ Done(s, x)' = IF Accepted(s) /\ Token(s).name = x
                            THEN Done(s, x) \cup {pos[s]}
                            ELSE Done(s, x)
           /\ Accepted(s) /\ Token(s).name = x => pos[s] \in Given(cmd[s], x)
<1> DEFINE k == pos[s]
<1>1. /\ Busy(s) /\ k <= Len(cmd[s]) /\ cmd' = cmd
      /\ pos' = [pos EXCEPT ![s] = @ + 1]
  BY ParseStep
<1>2. k \in Nat /\ k >= 1 /\ Len(cmd[s]) \in Nat /\ pos'[s] = k + 1
  BY <1>1 DEF TypeInv, CommandInv
<1>3. k \in 1 .. Len(cmd[s])
  BY <1>1, <1>2
<1>4. Token(s).value # NaN \/ Token(s).name = "other"
  BY DEF Parse, SkipToken, SetCenterFreq, SetSimBW, SetFreqRes, SetOther, Accepted
<1>5. Accepted(s) /\ Token(s).name = x <=> k \in Given(cmd[s], x)
  <2>1. x # "other"
    BY DEF Named
  <2> QED
    BY <1>3, <1>4, <2>1 DEF Accepted, Token, Given
<1>6. Given(cmd[s], x)' = Given(cmd[s], x) /\ Given(cmd[s], x) \subseteq Nat
  BY <1>1, <1>2 DEF Given
<1>7. \A i \in Given(cmd[s], x) : i < k + 1 <=> i < k \/ i = k
  BY <1>2, <1>6
<1>8. Done(s, x)' = {i \in Given(cmd[s], x) : i < k + 1}
  BY <1>1, <1>2 DEF Done, Given
<1>9. Done(s, x) = {i \in Given(cmd[s], x) : i < k}
  BY DEF Done
<1> HIDE DEF k
<1>10. CASE Accepted(s) /\ Token(s).name = x
  BY <1>5, <1>7, <1>8, <1>9, <1>10 DEF k
<1>11. CASE ~(Accepted(s) /\ Token(s).name = x)
  BY <1>5, <1>7, <1>8, <1>9, <1>11 DEF k
<1> QED
  BY <1>5, <1>10, <1>11 DEF k

\* ToDevice sets one field of the session's commands.
LEMMA LocalNext ==
    ASSUME TypeInv, NEW s \in Sessions, ToDevice(s), Token(s).name \in Params
    PROVE  /\ local'[s][Token(s).name] = Token(s).value
           /\ \A p \in Params : p # Token(s).name => local'[s][p] = local[s][p]
           /\ \A t \in Sessions : t # s => local'[t] = local[t]
<1>1. local \in [Sessions -> [Params -> Values]]
  BY DEF TypeInv, CommandInv
<1> QED
  BY <1>1 DEF ToDevice

LEMMA SoftwareStep ==
    ASSUME TypeInv, NEW s \in Sessions, Parse(s), ~ParseThrows(s), SoftwareAgrees(s)
    PROVE  SoftwareAgrees(s)'
<1>1. /\ \A x \in Named : Done(s, x)' = IF Accepted(s) /\ Token(s).name = x
                                       THEN Done(s, x) \cup {pos[s]}
                                       ELSE Done(s, x)
      /\ \A x \in Named : Accepted(s) /\ Token(s).name = x => pos[s] \in Given(cmd[s], x)
  BY DoneNext
<1>2. cmd' = cmd
  BY ParseStep
<1>3. Given(cmd[s], "SimBW")' = Given(cmd[s], "SimBW")
  BY <1>2 DEF Given
<1>4. {"CenterFreq", "SimBW", "FreqRes"} \subseteq Params
  BY DEF Params
<1>5. header \in Headers
  BY DEF TypeInv, HeaderOK
<1>6. CASE SkipToken(s)
  <2>1. UNCHANGED <<Bandwitdh, header, local>> /\ ~Accepted(s)
    BY <1>6 DEF SkipToken
  <2>2. \A x \in Named : Done(s, x)' = Done(s, x)
    BY <1>1, <2>1
  <2> QED
    BY <1>3, <2>1, <2>2 DEF SoftwareAgrees, ResolutionAgrees, BandwidthAgrees,
       BandAgrees, BandSet, Named
<1>7. CASE SetOther(s)
  <2>1. /\ UNCHANGED <<Bandwitdh, header>> /\ ToDevice(s)
        /\ Token(s).name \in Params \ Named
    BY <1>7 DEF SetOther, Parses, Named
  <2>2. \A x \in Named : Done(s, x)' = Done(s, x)
    BY <1>1, <2>1
  <2>3. \A x \in Named : local'[s][x] = local[s][x]
    BY <1>4, <2>1, LocalNext DEF Named
  <2> QED
    BY <1>3, <2>1, <2>2, <2>3 DEF SoftwareAgrees, ResolutionAgrees, BandwidthAgrees,
       BandAgrees, BandSet, Named
<1>8. CASE SetFreqRes(s)
  <2>1. /\ Bandwitdh' = Bandwitdh /\ ToDevice(s) /\ Token(s).name = "FreqRes"
        /\ header'.Resolution = Token(s).value
        /\ header'.StartFreq = header.StartFreq /\ header'.StopFreq = header.StopFreq
    BY <1>5, <1>8 DEF SetFreqRes, Parses, Headers
  <2>2. /\ Done(s, "SimBW")' = Done(s, "SimBW")
        /\ Done(s, "CenterFreq")' = Done(s, "CenterFreq")
    BY <1>1, <2>1 DEF Named
  <2>3. /\ local'[s]["FreqRes"] = Token(s).value
        /\ local'[s]["SimBW"] = local[s]["SimBW"]
        /\ local'[s]["CenterFreq"] = local[s]["CenterFreq"]
    BY <1>4, <2>1, LocalNext
  <2> QED
    BY <1>3, <2>1, <2>2, <2>3 DEF SoftwareAgrees, ResolutionAgrees, BandwidthAgrees,
       BandAgrees, BandSet
<1>9. CASE SetSimBW(s)
  <2>1. /\ Bandwitdh' = Token(s).value /\ header' = header /\ ToDevice(s)
        /\ Accepted(s) /\ Token(s).name = "SimBW"
    BY <1>9 DEF SetSimBW, Parses
  <2>2. /\ Done(s, "FreqRes")' = Done(s, "FreqRes")
        /\ Done(s, "CenterFreq")' = Done(s, "CenterFreq")
        /\ pos[s] \in Given(cmd[s], "SimBW")
    BY <1>1, <2>1 DEF Named
  <2>3. /\ local'[s]["SimBW"] = Token(s).value
        /\ local'[s]["FreqRes"] = local[s]["FreqRes"]
    BY <1>4, <2>1, LocalNext
  <2>4. Token(s).value \in Bandwidths
    BY <2>1, AcceptsType DEF Accepted
  <2>5. ~BandSet(s)'
    <3>1. ASSUME NEW i \in Done(s, "CenterFreq")
          PROVE  ~(\A j \in Given(cmd[s], "SimBW") : j < i)
      <4>1. i \in Nat /\ pos[s] \in Nat /\ i < pos[s]
        BY DEF Done, Given, TypeInv, CommandInv
      <4> QED
        BY <2>2, <4>1
    <3> QED
      BY <1>3, <2>2, <3>1 DEF BandSet
  <2> QED
    BY <2>1, <2>2, <2>3, <2>4, <2>5 DEF SoftwareAgrees, ResolutionAgrees,
       BandwidthAgrees, BandAgrees
<1>10. CASE SetCenterFreq(s)
  <2>1. /\ Bandwitdh' = Bandwitdh /\ ToDevice(s) /\ Token(s).name = "CenterFreq"
        /\ Accepted(s)
    BY <1>10 DEF SetCenterFreq, Parses
  <2>2. /\ Done(s, "FreqRes")' = Done(s, "FreqRes")
        /\ Done(s, "SimBW")' = Done(s, "SimBW")
        /\ Done(s, "CenterFreq")' = Done(s, "CenterFreq") \cup {pos[s]}
    BY <1>1, <2>1 DEF Named
  <2>3. /\ local'[s]["CenterFreq"] = Token(s).value
        /\ local'[s]["SimBW"] = local[s]["SimBW"]
        /\ local'[s]["FreqRes"] = local[s]["FreqRes"]
    BY <1>4, <2>1, LocalNext
  <2>4. header'.Resolution = header.Resolution
    BY <1>5, <1>10 DEF SetCenterFreq, Headers
  <2>5. BandSet(s)' => Done(s, "SimBW") # {}
    <3> SUFFICES ASSUME BandSet(s)' PROVE Done(s, "SimBW") # {}
      OBVIOUS
    <3>1. PICK i \in Done(s, "CenterFreq") \cup {pos[s]} :
                   \A j \in Given(cmd[s], "SimBW") : j < i
      BY <1>3, <2>2 DEF BandSet
    <3>2. PICK j \in Given(cmd[s], "SimBW") : TRUE
      BY <1>3 DEF BandSet
    <3>3. i \in Nat /\ pos[s] \in Nat /\ j \in Nat /\ i <= pos[s] /\ j < i
      BY <3>1, <3>2 DEF Done, Given, TypeInv, CommandInv
    <3>4. j \in Done(s, "SimBW")
      BY <3>2, <3>3 DEF Done
    <3> QED
      BY <3>4
  <2>6. Bandwitdh \in Bandwidths =>
            /\ header'.StartFreq = Token(s).value - HalfBandwidth(Bandwitdh)
            /\ header'.StopFreq = Token(s).value + HalfBandwidth(Bandwitdh)
    BY <1>5, <1>10 DEF SetCenterFreq, Headers
  <2>7. BandAgrees(s)'
    <3> SUFFICES ASSUME BandSet(s)'
                 PROVE  /\ header'.StartFreq =
                              local'[s]["CenterFreq"] - HalfBandwidth(local'[s]["SimBW"])
                        /\ header'.StopFreq =
                              local'[s]["CenterFreq"] + HalfBandwidth(local'[s]["SimBW"])
      BY DEF BandAgrees, HalfBandwidth
    <3>1. Bandwitdh \in Bandwidths /\ Bandwitdh = local[s]["SimBW"]
      BY <2>5 DEF SoftwareAgrees, BandwidthAgrees
    <3> QED
      BY <2>3, <2>6, <3>1
  <2>8. ResolutionAgrees(s)' /\ BandwidthAgrees(s)'
    BY <2>1, <2>2, <2>3, <2>4 DEF SoftwareAgrees, ResolutionAgrees, BandwidthAgrees
  <2> QED
    BY <2>7, <2>8 DEF SoftwareAgrees
<1> QED
  BY <1>6, <1>7, <1>8, <1>9, <1>10 DEF Parse

\* A session that runs alone stays alone until another one receives a command.
LEMMA NobodyElse ==
    ASSUME AgreeInv, NEW s \in Sessions, Session(s), ~Receive(s),
           NEW t \in Sessions, t # s
    PROVE  ~(Busy(t) /\ alone[t])
<1>1. Busy(s)
  BY DEF Session, Parse, SkipToken, SetCenterFreq, SetSimBW, SetFreqRes, SetOther, Parses,
         ParseThrows, WriteDevice, WriteThrows, Finish
<1> QED
  BY <1>1 DEF AgreeInv

LEMMA WrittenFields ==
    /\ CommandOf["CenterFreq"] = "DDC" /\ CommandOf["SimBW"] = "DDC"
    /\ CommandOf["FreqRes"] = "FFT"
    /\ Writes[1] = "DDC" /\ Writes[2] = "FFT" /\ Writes[3] = "Rf"
    /\ Writes[4] = "Digit" /\ Writes[5] = "Feedback" /\ Len(Writes) = 5
  BY DEF CommandOf, Writes

\* The fields a write has brought to the device stay there.
LEMMA DeviceStep ==
    ASSUME TypeInv, NEW s \in Sessions, WriteDevice(s), DeviceAgrees(s)
    PROVE  DeviceAgrees(s)'
<1>1. sent \in [Sessions -> 0 .. 5]
  BY WrittenFields DEF TypeInv, RestOK
<1>2. sent[s] \in {0, 1, 2, 3, 4} /\ sent'[s] = sent[s] + 1 /\ local' = local
  BY <1>1, WrittenFields DEF WriteDevice
<1>3. ASSUME NEW p \in {"CenterFreq", "SimBW", "FreqRes"}
      PROVE  device'[p] = IF CommandOf[p] = Writes[sent'[s]]
                          THEN local[s][p] ELSE device[p]
  BY DEF WriteDevice, Params
<1>4. /\ device'["CenterFreq"] = IF Writes[sent'[s]] = "DDC"
                                 THEN local[s]["CenterFreq"] ELSE device["CenterFreq"]
      /\ device'["SimBW"] = IF Writes[sent'[s]] = "DDC"
                            THEN local[s]["SimBW"] ELSE device["SimBW"]
      /\ device'["FreqRes"] = IF Writes[sent'[s]] = "FFT"
                              THEN local[s]["FreqRes"] ELSE device["FreqRes"]
  BY <1>3, WrittenFields
<1>5. CASE sent[s] = 0
  BY <1>2, <1>4, <1>5, WrittenFields DEF DeviceAgrees
<1>6. CASE sent[s] = 1
  BY <1>2, <1>4, <1>6, WrittenFields DEF DeviceAgrees
<1>7. CASE sent[s] \in {2, 3, 4}
  BY <1>2, <1>4, <1>7, WrittenFields DEF DeviceAgrees
<1> QED
  BY <1>2, <1>5, <1>6, <1>7

\* All tokens are parsed and all writes done: software and device agree.
LEMMA FinishAgrees ==
    ASSUME TypeInv, NEW s \in Sessions, Finish(s), SoftwareAgrees(s), DeviceAgrees(s),
           Complete(cmd[s]), InOrder(cmd[s])
    PROVE  /\ header.Resolution = device["FreqRes"]
           /\ header.StartFreq = device["CenterFreq"] - HalfBandwidth(device["SimBW"])
           /\ header.StopFreq = device["CenterFreq"] + HalfBandwidth(device["SimBW"])
<1>1. sent[s] = 5 /\ pos[s] > Len(cmd[s]) /\ Len(cmd[s]) \in Nat /\ pos[s] \in Nat
  <2>1. sent[s] = Len(Writes) /\ pos[s] > Len(cmd[s])
    BY DEF Finish
  <2>2. cmd[s] \in Seq(Tokens) /\ pos[s] \in Nat
    BY DEF TypeInv, CommandInv
  <2> QED
    BY <2>1, <2>2, WrittenFields
<1>2. \A x \in Named : Done(s, x) = Given(cmd[s], x) /\ Given(cmd[s], x) # {}
  BY <1>1 DEF Done, Given, Complete, Named
<1>3. BandSet(s)
  BY <1>2 DEF InOrder, BandSet, Named
<1>4. header.Resolution = local[s]["FreqRes"]
  BY <1>2 DEF SoftwareAgrees, ResolutionAgrees, Named
<1>5. /\ header.StartFreq = local[s]["CenterFreq"] - HalfBandwidth(local[s]["SimBW"])
      /\ header.StopFreq = local[s]["CenterFreq"] + HalfBandwidth(local[s]["SimBW"])
  BY <1>3 DEF SoftwareAgrees, BandAgrees
<1>6. /\ device["CenterFreq"] = local[s]["CenterFreq"]
      /\ device["SimBW"] = local[s]["SimBW"]
      /\ device["FreqRes"] = local[s]["FreqRes"]
  BY <1>1 DEF DeviceAgrees
<1> QED
  BY <1>4, <1>5, <1>6

LEMMA AgreeSession ==
    ASSUME TypeInv, AgreeInv, NEW s \in Sessions, Session(s)
    PROVE  AgreeInv'
<1>1. CASE Receive(s)
  <2>1. /\ settled' = "no" /\ pos' = [pos EXCEPT ![s] = 1] /\ sent' = [sent EXCEPT ![s] = 0]
        /\ \A t \in Sessions : t # s => cmd'[t] = cmd[t]
    BY <1>1 DEF Receive, TypeInv, CommandInv
  <2>2. \A t \in Sessions : alone'[t] <=> t = s /\ \A u \in Sessions : ~Busy(u)
    BY <1>1, Zenon DEF Receive
  <2>3. pos'[s] = 1 /\ sent'[s] = 0
    BY <2>1 DEF TypeInv, CommandInv, RestOK
  <2>4. \A x \in Named : Done(s, x)' = {}
    BY <2>3 DEF Done, Given
  <2>5. SoftwareAgrees(s)' /\ DeviceAgrees(s)'
    BY <2>3, <2>4 DEF SoftwareAgrees, ResolutionAgrees, BandwidthAgrees, BandAgrees,
       BandSet, DeviceAgrees, Named
  <2>6. ASSUME NEW t \in Sessions, alone'[t]
        PROVE  t = s /\ \A u \in Sessions : u # s => ~Busy(u)'
    BY <2>1, <2>2, <2>6 DEF Busy
  <2> QED
    BY <2>1, <2>5, <2>6 DEF AgreeInv, AgreeAfterCommand
<1>2. CASE Parse(s) /\ ~ParseThrows(s)
  <2>1. UNCHANGED <<cmd, sent, device, alone, settled>> /\ Busy(s)
    BY <1>2, ParseStep
  <2>2. settled # "in order"
    BY <2>1 DEF AgreeInv
  <2>3. \A t \in Sessions : Busy(t)' = Busy(t)
    BY <2>1 DEF Busy
  <2>4. ASSUME Busy(s), alone[s]
        PROVE  SoftwareAgrees(s)' /\ DeviceAgrees(s)'
    <3>1. SoftwareAgrees(s)'
      BY <1>2, <2>4, SoftwareStep DEF AgreeInv
    <3>2. sent[s] = 0
      <4>1. Busy(s) /\ pos[s] <= Len(cmd[s])
        BY <1>2, ParseStep
      <4>2. ~(sent[s] > 0)
        <5>1. cmd[s] \in Seq(Tokens) /\ pos[s] \in Nat
          BY DEF TypeInv, CommandInv
        <5>2. Busy(s) /\ sent[s] > 0 => pos[s] > Len(cmd[s])
          BY DEF TypeInv, CommandInv
        <5> QED
          BY <4>1, <5>1, <5>2
      <4>3. sent \in [Sessions -> 0 .. 5]
        BY WrittenFields DEF TypeInv, RestOK
      <4> QED
        BY <4>2, <4>3
    <3>3. DeviceAgrees(s)'
      BY <2>1, <3>2 DEF DeviceAgrees
    <3> QED
      BY <3>1, <3>3
  <2> QED
    BY <1>2, <2>1, <2>2, <2>3, <2>4, NobodyElse DEF AgreeInv, AgreeAfterCommand
<1>3. CASE WriteDevice(s)
  <2>1. UNCHANGED <<Bandwitdh, header, cmd, pos, local, alone, settled>> /\ Busy(s)
    BY <1>3 DEF WriteDevice
  <2>2. settled # "in order"
    BY <2>1 DEF AgreeInv
  <2>3. \A t \in Sessions : Busy(t)' = Busy(t)
    BY <2>1 DEF Busy
  <2>4. ASSUME Busy(s), alone[s]
        PROVE  SoftwareAgrees(s)' /\ DeviceAgrees(s)'
    <3>1. DeviceAgrees(s)'
      BY <1>3, <2>4, DeviceStep DEF AgreeInv
    <3>2. SoftwareAgrees(s)
      BY <2>4 DEF AgreeInv
    <3>3. SoftwareAgrees(s)'
      BY <2>1, <3>2 DEF SoftwareAgrees, ResolutionAgrees, BandwidthAgrees, BandAgrees,
         BandSet, Done, Given
    <3> QED
      BY <3>1, <3>3
  <2>5. ~Receive(s)
    BY <2>1 DEF Receive
  <2> QED
    BY <1>3, <2>1, <2>2, <2>3, <2>4, <2>5, NobodyElse DEF AgreeInv, AgreeAfterCommand
<1>4. CASE ParseThrows(s) \/ WriteThrows(s) \/ Finish(s)
  <2>1. /\ UNCHANGED <<header, device, pos, local, sent, alone>> /\ Busy(s)
        /\ cmd' = [cmd EXCEPT ![s] = <<>>]
    BY <1>4 DEF ParseThrows, WriteThrows, Finish, Leave
  <2>2. ~Busy(s)' /\ \A t \in Sessions : t # s => Busy(t)' = Busy(t)
    BY <2>1 DEF Busy, TypeInv, CommandInv
  <2>3. ~Receive(s)
    BY <2>1 DEF Receive
  <2>4. \A t \in Sessions : ~(Busy(t)' /\ alone'[t])
    BY <2>1, <2>2, <2>3, NobodyElse
  <2>5. ASSUME settled' = "in order"
        PROVE  Finish(s) /\ alone[s] /\ Complete(cmd[s]) /\ InOrder(cmd[s])
    BY <1>4, <2>5 DEF ParseThrows, WriteThrows, Finish, Leave
  <2>6. ASSUME settled' = "in order"
        PROVE  /\ \A t \in Sessions : ~Busy(t)'
               /\ header.Resolution = device["FreqRes"]
               /\ header.StartFreq = device["CenterFreq"] - HalfBandwidth(device["SimBW"])
               /\ header.StopFreq = device["CenterFreq"] + HalfBandwidth(device["SimBW"])
    <3>1. /\ SoftwareAgrees(s) /\ DeviceAgrees(s)
          /\ \A t \in Sessions : t # s => ~Busy(t)
      BY <2>1, <2>5, <2>6 DEF AgreeInv
    <3> QED
      BY <2>2, <2>5, <2>6, <3>1, FinishAgrees
  <2> QED
    <3>1. AgreeAfterCommand'
      BY <2>1, <2>6 DEF AgreeAfterCommand
    <3> QED
      BY <2>4, <2>6, <3>1 DEF AgreeInv
<1> QED
  BY <1>1, <1>2, <1>3, <1>4 DEF Session

LEMMA AgreeStep ==
    ASSUME TypeInv, AgreeInv, [Next]_vars
    PROVE  AgreeInv'
<1>1. ASSUME NEW s \in Sessions, Session(s) PROVE AgreeInv'
  BY <1>1, AgreeSession
<1>2. CASE Produce \/ DataDealWB \/ UNCHANGED vars
  <2>1. UNCHANGED <<Bandwitdh, header, cmd, pos, local, sent, alone, settled, device>>
    BY <1>2 DEF Produce, DataDealWB, DropBlock, BeginBlock, SendFrame, EndBlock, vars,
       cmdVars
  <2> QED
    BY <2>1 DEF AgreeInv, AgreeAfterCommand, SoftwareAgrees, ResolutionAgrees,
       BandwidthAgrees, BandAgrees, BandSet, Done, Given, DeviceAgrees, Busy
<1> QED
  BY <1>1, <1>2 DEF Next

\* A command that ran alone, was complete and named SimBW before CenterFreq leaves
\* software and device in agreement, whatever came before (SetCmdWBParams).
THEOREM AgreesAfterCommand == Spec => []AgreeAfterCommand
<1>1. Init => TypeInv /\ AgreeInv
  BY TypeInit, AgreeInit
<1>2. TypeInv /\ AgreeInv /\ [Next]_vars => (TypeInv /\ AgreeInv)'
  BY TypeStep, AgreeStep
<1>3. AgreeInv => AgreeAfterCommand
  BY DEF AgreeInv
<1> QED
  BY <1>1, <1>2, <1>3, PTL DEF Spec
=============================================================================
