-------------------------- MODULE NarrowBandProofs --------------------------
(***************************************************************************)
(* Proofs about NarrowBand, for any sessions, commands, channels and       *)
(* packets of a frame: types, and that a frame is one run of packets of    *)
(* one channel, taken with one setting.                                    *)
(***************************************************************************)
EXTENDS NarrowBand, FiniteSetTheorems, SequenceTheorems, TLAPS

-----------------------------------------------------------------------------
(***************************************************************************)
(* Types.                                                                  *)
(***************************************************************************)
Fields == Int \cup {Junk}

CICs == {0} \cup {CICOf(bw) : bw \in Bandwidths}

ParamType == [DDS : 0 .. UINT - 1, CIC : CICs, Demod : Demods]

WaveType == [Frequency : Int, BandWidth : Bandwidths, DataType : Fields]

LocalType == [Channel : Channels \cup {Junk}, DDS : Fields, CIC : Fields, Demod : Fields]

DeviceType == [DDS : Fields, CIC : Fields, Demod : Fields]

PacketType == [stream : Streams, DDS : Fields, CIC : Fields, Demod : Fields, num : Nat]

SoftwareOK ==
    /\ BankNum \in Channels
    /\ NB_Param \in [Channels -> ParamType]
    /\ m_NBWave \in [Channels -> WaveType]

CommandOK ==
    /\ cmd \in [Sessions -> Seq(Tokens)]
    /\ pos \in [Sessions -> Nat \ {0}]
    /\ local \in [Sessions -> LocalType]
    /\ device \in [Channels -> DeviceType]
    /\ sent \in [Sessions -> BOOLEAN]

\* Where a call is in a Freq token; without a command it has not begun.
CallOK ==
    /\ fpc \in [Sessions -> {"header", "find", "tune"}]
    /\ NB_ZC \in [Sessions -> Channels]
    /\ \A s \in Sessions :
        ~Busy(s) => pos[s] = 1 /\ local[s] = Unset /\ sent[s] = FALSE /\ fpc[s] = "header"

\* Once its bank is parsed, the command has a channel.
BankOK ==
    \A s \in Sessions :
        (\E i \in Given(cmd[s], "BankNum") : i < pos[s]) => local[s].Channel \in Channels

CountersOK == commands \in Nat /\ packets \in 0 .. MaxEvents - 2 * commands

HistoryOK ==
    /\ alone \in [Sessions -> BOOLEAN]
    /\ steady \in [Streams -> BOOLEAN]
    /\ quiet \in [Streams -> BOOLEAN]

PeaceOK == settled \subseteq Channels /\ inOrder \subseteq settled

Stages == {"wait", "keep", "Frequency", "BandWidth", "DDS", "CIC", "Demod"}

DataOK ==
    /\ pending \in Seq(PacketType)
    /\ npc \in Stages
    /\ packet \in PacketType
    /\ npc \in Stages \ {"wait", "keep"} => packet.stream \in Channels
    /\ PackIndex \in [Streams -> 0 .. PACKS - 1]
    /\ resAll \in [Streams -> Seq(PacketType)]
    /\ accepted \in [Streams -> Seq(Nat)]

TypeInv ==
    /\ SoftwareOK
    /\ CommandOK
    /\ CallOK
    /\ BankOK
    /\ CountersOK
    /\ HistoryOK
    /\ PeaceOK
    /\ DataOK

LEMMA ZeroIsChannel == 0 \in Channels /\ None \notin Channels /\ Pulse \notin Channels
  BY NarrowBandAssumption DEF Channels

LEMMA CICType ==
    ASSUME NEW bw \in Bandwidths
    PROVE  CICOf(bw) \in CICs /\ CICOf(bw) \in Int
  BY SMT DEF CICs, CICOf, Bandwidths

LEMMA TypeInit == Init => TypeInv
<1> SUFFICES ASSUME Init PROVE TypeInv
  OBVIOUS
<1> USE ZeroIsChannel, NarrowBandAssumption
<1>1. SoftwareOK
  <2>1. /\ 15000000 \in Int /\ 150000 \in Bandwidths /\ 0 \in Demods /\ 0 \in CICs
        /\ 0 \in 0 .. UINT - 1
    BY SMT DEF Bandwidths, Demods, CICs
  <2> QED
    BY <2>1, SMT DEF Init, SoftwareOK, ParamType, WaveType, Fields
<1>2. CommandOK
  BY SMT DEF Init, CommandOK, LocalType, DeviceType, Fields, Unset
<1>3. BankOK
  <2>1. \A s \in Sessions : pos[s] = 1
    BY SMT DEF Init
  <2> QED
    BY <2>1, SMT DEF BankOK, Given
<1>4. CountersOK
  BY SMT DEF Init, CountersOK
<1>5. HistoryOK
  <2>1. alone = [s \in Sessions |-> FALSE] /\ steady = [st \in Streams |-> TRUE]
        /\ quiet = [st \in Streams |-> FALSE]
    BY SMT DEF Init
  <2> QED
    BY <2>1, Zenon DEF HistoryOK
<1>6. DataOK
  BY SMT DEF Init, DataOK, Stages, NoPacket, PacketType, Streams, Fields
<1>7. CallOK
  BY SMT DEF Init, CallOK
<1>8. PeaceOK
  BY DEF Init, PeaceOK
<1> QED
  BY <1>1, <1>2, <1>3, <1>4, <1>5, <1>6, <1>7, <1>8 DEF TypeInv

-----------------------------------------------------------------------------
(***************************************************************************)
(* Types: one lemma for the actions of a session, one for the others.      *)
(***************************************************************************)
LEMMA SetParamType ==
    ASSUME TypeInv, NEW f \in {"DDS", "CIC", "Demod"}, NEW v,
           SetParam(f, v),
           f = "DDS" => v \in 0 .. UINT - 1, f = "CIC" => v \in CICs, f = "Demod" => v \in Demods
    PROVE  /\ NB_Param' \in [Channels -> ParamType]
           /\ steady' \in [Streams -> BOOLEAN]
<1>1. NB_Param' \in [Channels -> ParamType]
  BY SMT DEF TypeInv, SoftwareOK, SetParam, ParamType
<1>2. steady' \in [Streams -> BOOLEAN]
  <2>1. /\ steady \in [Streams -> BOOLEAN]
        /\ steady' = [steady EXCEPT ![BankNum] = @ /\ NB_Param[BankNum][f] = v]
    BY DEF TypeInv, HistoryOK, SetParam
  <2>2. (steady[BankNum] /\ NB_Param[BankNum][f] = v) \in BOOLEAN
    OBVIOUS
  <2> QED
    BY <2>1, <2>2, Zenon
<1> QED
  BY <1>1, <1>2

LEMMA SetWaveType ==
    ASSUME TypeInv, NEW s \in Sessions, NEW f \in {"Frequency", "BandWidth"}, NEW v,
           SetWave(s, f, v),
           f = "Frequency" => v \in Int, f = "BandWidth" => v \in Bandwidths
    PROVE  m_NBWave' \in [Channels -> WaveType]
  BY SMT DEF TypeInv, SoftwareOK, SetWave, WaveType, Fields

LEMMA TokenType ==
    ASSUME TypeInv, NEW s \in Sessions, NEW n, AtToken(s, n)
    PROVE  /\ pos[s] \in 1 .. Len(cmd[s])
           /\ Token(s) \in Tokens
           /\ Token(s).value \in Int
           /\ Token(s).name = n
<1>1. cmd[s] \in Seq(Tokens) /\ pos[s] \in Nat \ {0}
  BY DEF TypeInv, CommandOK
<1>2. pos[s] \in 1 .. Len(cmd[s])
  BY <1>1, SMT DEF AtToken
<1>3. Token(s) \in Tokens
  BY <1>1, <1>2, SMT DEF Token
<1> QED
  BY <1>2, <1>3, SMT DEF Tokens, AtToken

LEMMA WordType ==
    ASSUME NEW f \in Int, NEW v \in ToUInt(DDSWord(f)), f >= 0
    PROVE  v \in 0 .. UINT - 1
<1>1. DDSWord(f) \in Nat
  BY SMT DEF DDSWord
<1> HIDE DEF DDSWord
<1> QED
  BY <1>1, NarrowBandAssumption, SMT DEF ToUInt

LEMMA ShiftType ==
    ASSUME NEW d \in Int, NEW bw \in Bandwidths
    PROVE  Shift(d, bw) \in Int
  BY SMT DEF Shift, Bandwidths

LEMMA SwapType ==
    ASSUME NEW n \in Fields
    PROVE  SwapField(n) \in Fields
  BY SMT DEF SwapField, Swap, Fields

\* What a parsed token leaves: the rest of the call, and its channel.
LEMMA ParsedType ==
    ASSUME TypeInv, NEW s \in Sessions, Busy(s), Parsed(s), NEW n, AtToken(s, n),
           local' \in [Sessions -> LocalType],
           \A t \in Sessions \ {s} : local'[t] = local[t],
           n # "BankNum" => local'[s].Channel = local[s].Channel,
           n = "BankNum" => local'[s].Channel \in Channels
    PROVE  CommandOK' /\ BankOK' /\ CallOK' /\ PeaceOK'
<1>1. CommandOK'
  <2>1. pos' \in [Sessions -> Nat \ {0}]
    BY SMT DEF TypeInv, CommandOK, Parsed
  <2>2. cmd' = cmd /\ device' = device /\ sent' = sent
    BY DEF Parsed, Parsing
  <2> QED
    BY <2>1, <2>2, Zenon DEF TypeInv, CommandOK
<1>2. BankOK'
  <2> SUFFICES ASSUME NEW t \in Sessions, NEW i \in Given(cmd[t], "BankNum"), i < pos'[t]
               PROVE  local'[t].Channel \in Channels
    BY SMT DEF BankOK, Parsed, Parsing
  <2>1. i \in 1 .. Len(cmd[t]) /\ cmd[t][i].name = "BankNum" /\ pos \in [Sessions -> Nat \ {0}]
    BY SMT DEF Given, TypeInv, CommandOK
  <2>2. CASE t # s
    <3>1. i < pos[t]
      BY <2>2, SMT DEF Parsed
    <3> QED
      BY <2>2, <3>1, SMT DEF TypeInv, BankOK
  <2>3. CASE t = s
    <3>1. pos'[s] = pos[s] + 1
      BY <2>1, SMT DEF Parsed
    <3>2. CASE i < pos[s]
      <4>1. local[s].Channel \in Channels
        BY <2>3, <3>2, SMT DEF TypeInv, BankOK
      <4> QED
        BY <2>3, <4>1, SMT
    <3>3. CASE i = pos[s]
      BY <2>1, <2>3, <3>3, SMT DEF AtToken, Token
    <3> QED
      BY <2>1, <2>3, <3>1, <3>2, <3>3, SMT
  <2> QED
    BY <2>2, <2>3
<1>3. CallOK'
  <2>1. /\ fpc \in [Sessions -> {"header", "find", "tune"}] /\ NB_ZC \in [Sessions -> Channels]
        /\ fpc' = [fpc EXCEPT ![s] = "header"] /\ NB_ZC' = [NB_ZC EXCEPT ![s] = 0]
        /\ pos' = [pos EXCEPT ![s] = @ + 1] /\ UNCHANGED <<cmd, sent>>
    BY DEF TypeInv, CallOK, Parsed, Parsing
  <2>2. /\ fpc' \in [Sessions -> {"header", "find", "tune"}]
        /\ NB_ZC' \in [Sessions -> Channels]
    BY <2>1, ZeroIsChannel, Zenon
  <2>3. ASSUME NEW t \in Sessions, ~Busy(t)'
        PROVE  pos'[t] = 1 /\ local'[t] = Unset /\ sent'[t] = FALSE /\ fpc'[t] = "header"
    <3>1. ~Busy(t) /\ t # s
      BY <2>1, <2>3, Zenon DEF Busy
    <3>2. pos[t] = 1 /\ local[t] = Unset /\ sent[t] = FALSE /\ fpc[t] = "header"
      BY <3>1, Zenon DEF TypeInv, CallOK
    <3>3. pos'[t] = pos[t] /\ fpc'[t] = fpc[t] /\ local'[t] = local[t]
      BY <2>1, <3>1, SMT DEF TypeInv, CommandOK
    <3> QED
      BY <2>1, <3>2, <3>3
  <2> QED
    BY <2>2, <2>3 DEF CallOK
<1>4. PeaceOK'
  BY DEF TypeInv, PeaceOK, Parsed, Parsing
<1> QED
  BY <1>1, <1>2, <1>3, <1>4

LEMMA ParseType ==
    ASSUME TypeInv, NEW s \in Sessions, NEW n, AtToken(s, n), Parsed(s)
    PROVE  CountersOK' /\ DataOK' /\ pos' = [pos EXCEPT ![s] = @ + 1]
           /\ quiet' \in [Streams -> BOOLEAN] /\ alone' \in [Sessions -> BOOLEAN] /\ Busy(s)
<1> USE DEF TypeInv, Parsed, Parsing
<1>1. CountersOK'
  BY DEF CountersOK
<1>2. DataOK'
  BY DEF DataOK, dataVars
<1>3. quiet' \in [Streams -> BOOLEAN] /\ alone' \in [Sessions -> BOOLEAN]
  BY DEF HistoryOK
<1> QED
  BY <1>1, <1>2, <1>3 DEF AtToken

LEMMA LeaveType ==
    ASSUME TypeInv, NEW s \in Sessions, Leave(s), PeaceOK'
    PROVE  TypeInv'
<1> USE DEF TypeInv, Leave
<1>1. SoftwareOK' /\ CountersOK'
  BY DEF SoftwareOK, CountersOK, swVars
<1>2. CommandOK'
  <2>1. cmd' \in [Sessions -> Seq(Tokens)] /\ pos' \in [Sessions -> Nat \ {0}]
    BY SMT DEF CommandOK
  <2>2. Unset \in LocalType
    BY SMT DEF Unset, LocalType, Fields
  <2>3. local' \in [Sessions -> LocalType] /\ sent' \in [Sessions -> BOOLEAN]
    BY <2>2, Zenon DEF CommandOK
  <2> QED
    BY <2>1, <2>3, Zenon DEF CommandOK
<1>3. BankOK'
  <2> SUFFICES ASSUME NEW t \in Sessions, NEW i \in Given(cmd'[t], "BankNum"), i < pos'[t]
               PROVE  local'[t].Channel \in Channels
    BY DEF BankOK
  <2>1. i \in Nat \ {0}
    BY <1>2, SMT DEF Given, CommandOK
  <2>2. t # s
    BY <2>1, SMT DEF CommandOK
  <2>3. cmd'[t] = cmd[t] /\ pos'[t] = pos[t] /\ local'[t] = local[t]
    BY <2>2, SMT DEF CommandOK
  <2> QED
    BY <2>3, SMT DEF BankOK
<1>4. HistoryOK' /\ DataOK'
  BY Zenon DEF HistoryOK, DataOK, dataVars
<1>5. CallOK'
  <2>1. /\ fpc' \in [Sessions -> {"header", "find", "tune"}]
        /\ NB_ZC' \in [Sessions -> Channels]
    BY ZeroIsChannel, Zenon DEF CallOK
  <2>2. ASSUME NEW t \in Sessions, ~Busy(t)'
        PROVE  pos'[t] = 1 /\ local'[t] = Unset /\ sent'[t] = FALSE /\ fpc'[t] = "header"
    <3>1. CASE t = s
      BY <3>1, SMT DEF CommandOK, CallOK
    <3>2. CASE t # s
      <4>1. /\ cmd'[t] = cmd[t] /\ pos'[t] = pos[t] /\ fpc'[t] = fpc[t] /\ local'[t] = local[t]
            /\ sent'[t] = sent[t]
        BY <3>2, Zenon DEF CommandOK, CallOK
      <4>2. pos[t] = 1 /\ local[t] = Unset /\ sent[t] = FALSE /\ fpc[t] = "header"
        BY <2>2, <4>1, Zenon DEF CallOK, Busy
      <4> QED
        BY <4>1, <4>2
    <3> QED
      BY <3>1, <3>2
  <2> QED
    BY <2>1, <2>2 DEF CallOK
<1> QED
  BY <1>1, <1>2, <1>3, <1>4, <1>5

LEMMA AbandonType ==
    ASSUME TypeInv, NEW s \in Sessions, Abandon(s)
    PROVE  TypeInv'
  BY LeaveType DEF Abandon, TypeInv, PeaceOK

LEMMA SetterType ==
    ASSUME TypeInv, NEW s \in Sessions, NEW n, n # "BankNum", AtToken(s, n), Parsed(s),
           BankNum' = BankNum,
           NB_Param' \in [Channels -> ParamType], m_NBWave' \in [Channels -> WaveType],
           steady' \in [Streams -> BOOLEAN],
           NEW f \in {"DDS", "CIC", "Demod"}, NEW v \in Fields,
           local' = [local EXCEPT ![s][f] = v]
    PROVE  TypeInv'
<1>1. SoftwareOK'
  BY DEF TypeInv, SoftwareOK
<1>2. CountersOK' /\ DataOK' /\ Busy(s) /\ HistoryOK'
  BY ParseType DEF HistoryOK
<1>3. local' \in [Sessions -> LocalType]
  <2>1. local \in [Sessions -> LocalType] /\ local[s] \in LocalType
    BY DEF TypeInv, CommandOK
  <2>2. CASE f = "DDS"
    <3>1. local' = [local EXCEPT ![s]["DDS"] = v]
      BY <2>2
    <3> QED
      BY <2>1, <3>1, SMT DEF LocalType
  <2>3. CASE f = "CIC"
    <3>1. local' = [local EXCEPT ![s]["CIC"] = v]
      BY <2>3
    <3> QED
      BY <2>1, <3>1, SMT DEF LocalType
  <2>4. CASE f = "Demod"
    <3>1. local' = [local EXCEPT ![s]["Demod"] = v]
      BY <2>4
    <3> QED
      BY <2>1, <3>1, SMT DEF LocalType
  <2> QED
    BY <2>2, <2>3, <2>4
<1>4. local'[s].Channel = local[s].Channel /\ \A t \in Sessions \ {s} : local'[t] = local[t]
  BY SMT DEF TypeInv, CommandOK, LocalType
<1>5. CommandOK' /\ BankOK' /\ CallOK' /\ PeaceOK'
  BY <1>2, <1>3, <1>4, ParsedType
<1> QED
  BY <1>1, <1>2, <1>5 DEF TypeInv

\* The first two steps of a Freq token.
LEMMA MidFreqType ==
    ASSUME TypeInv, NEW s \in Sessions, SetNBWaveResultFrequency(s) \/ FindWave(s)
    PROVE  TypeInv'
<1>1. /\ AtToken(s, "Freq") /\ Parsing /\ UNCHANGED <<BankNum, NB_Param, pos, local, steady>>
      /\ \E x \in {"find", "tune"} : fpc' = [fpc EXCEPT ![s] = x]
      /\ \/ NB_ZC' = NB_ZC
         \/ NB_ZC' = [NB_ZC EXCEPT ![s] = BankNum]
  BY Zenon DEF SetNBWaveResultFrequency, FindWave, swVars
<1>2. SoftwareOK'
  <2>1. CASE SetNBWaveResultFrequency(s)
    <3>1. Token(s).value \in Int
      BY <1>1, TokenType
    <3>2. Token(s).value % ULL \in Int
      BY <3>1, NarrowBandAssumption, SMT
    <3>3. m_NBWave' \in [Channels -> WaveType]
      BY <2>1, <3>2, SetWaveType DEF SetNBWaveResultFrequency
    <3> QED
      BY <1>1, <3>3 DEF TypeInv, SoftwareOK
  <2>2. CASE FindWave(s)
    BY <2>2 DEF FindWave, swVars, TypeInv, SoftwareOK
  <2> QED
    BY <2>1, <2>2
<1>3. CommandOK' /\ BankOK' /\ CountersOK' /\ PeaceOK'
  BY <1>1, Zenon DEF Parsing, TypeInv, CommandOK, BankOK, CountersOK, PeaceOK
<1>4. HistoryOK' /\ DataOK'
  BY <1>1, Zenon DEF Parsing, TypeInv, HistoryOK, DataOK, dataVars
<1>5. CallOK'
  <2>1. BankNum \in Channels
    BY DEF TypeInv, SoftwareOK
  <2>2. fpc' \in [Sessions -> {"header", "find", "tune"}]
        /\ NB_ZC' \in [Sessions -> Channels]
    BY <1>1, <2>1, Zenon DEF TypeInv, CallOK
  <2>3. ASSUME NEW t \in Sessions, ~Busy(t)'
        PROVE  pos'[t] = 1 /\ local'[t] = Unset /\ sent'[t] = FALSE /\ fpc'[t] = "header"
    <3>1. ~Busy(t) /\ t # s
      BY <1>1, <2>3, Zenon DEF Busy, Parsing, AtToken
    <3>2. fpc'[t] = fpc[t]
      BY <1>1, <3>1, Zenon DEF TypeInv, CallOK
    <3> QED
      BY <1>1, <3>1, <3>2, Zenon DEF TypeInv, CallOK, Parsing
  <2> QED
    BY <2>2, <2>3 DEF CallOK
<1> QED
  BY <1>2, <1>3, <1>4, <1>5 DEF TypeInv

LEMMA TypeParse ==
    ASSUME TypeInv, NEW s \in Sessions, Parse(s)
    PROVE  TypeInv'
<1>1. CASE SkipToken(s)
  <2>1. CountersOK' /\ DataOK' /\ Busy(s) /\ SoftwareOK' /\ HistoryOK'
    BY <1>1, ParseType DEF HistoryOK, TypeInv, SkipToken, swVars, SoftwareOK
  <2>2. CommandOK' /\ BankOK' /\ CallOK' /\ PeaceOK'
    BY <1>1, <2>1, ParsedType DEF SkipToken, TypeInv, CommandOK
  <2> QED
    BY <2>1, <2>2 DEF TypeInv
<1>2. CASE SelectBank(s)
  <2>1. CountersOK' /\ DataOK' /\ Busy(s) /\ SoftwareOK' /\ HistoryOK'
    BY <1>2, ParseType DEF HistoryOK, TypeInv, SelectBank, SoftwareOK
  <2>2. /\ local' \in [Sessions -> LocalType]
        /\ local'[s].Channel \in Channels
        /\ \A t \in Sessions \ {s} : local'[t] = local[t]
    <3> DEFINE ch == Token(s).value
    <3>1. local' = [local EXCEPT ![s].Channel = ch] /\ ch \in Channels
      BY <1>2 DEF SelectBank
    <3> HIDE DEF ch
    <3>2. local \in [Sessions -> LocalType] /\ local[s] \in LocalType
      BY DEF TypeInv, CommandOK
    <3> QED
      BY <3>1, <3>2, SMT DEF LocalType
  <2>3. CommandOK' /\ BankOK' /\ CallOK' /\ PeaceOK'
    BY <1>2, <2>1, <2>2, ParsedType DEF SelectBank
  <2> QED
    BY <2>1, <2>3 DEF TypeInv
<1>3. CASE RejectBank(s) \/ ParseThrows(s)
  <2>1. Abandon(s)
    BY <1>3, Zenon DEF RejectBank, ParseThrows
  <2> QED
    BY <2>1, AbandonType
<1>4. CASE SetFreq(s)
  <2> DEFINE shift == Shift(NB_Param[BankNum].Demod, m_NBWave[NB_ZC[s]].BandWidth)
             freq == (Token(s).value + shift) % ULL
  <2>1. /\ AtToken(s, "Freq") /\ Parsed(s) /\ BankNum' = BankNum /\ m_NBWave' = m_NBWave
        /\ \E dds \in ToUInt(DDSWord(freq)) :
             SetParam("DDS", dds) /\ local' = [local EXCEPT ![s]["DDS"] = dds]
    BY <1>4 DEF SetFreq
  <2>2. Token(s).value \in Int
    BY <2>1, TokenType
  <2>3. NB_Param[BankNum].Demod \in Int /\ m_NBWave[NB_ZC[s]].BandWidth \in Bandwidths
    <3>1. NB_Param[BankNum] \in ParamType /\ m_NBWave[NB_ZC[s]] \in WaveType
      BY Zenon DEF TypeInv, SoftwareOK, CallOK
    <3> QED
      BY <3>1, SMT DEF ParamType, WaveType, Demods
  <2>4. shift \in Int
    BY <2>3, ShiftType
  <2> HIDE DEF shift
  <2>5. freq \in Int /\ freq >= 0
    BY <2>2, <2>4, NarrowBandAssumption, SMT
  <2> HIDE DEF freq
  <2>6. PICK dds \in ToUInt(DDSWord(freq)) :
             SetParam("DDS", dds) /\ local' = [local EXCEPT ![s]["DDS"] = dds]
    BY <2>1
  <2>7. dds \in 0 .. UINT - 1
    BY <2>5, WordType
  <2>8. dds \in Fields
    BY <2>7, SMT DEF Fields
  <2>9. NB_Param' \in [Channels -> ParamType] /\ steady' \in [Streams -> BOOLEAN]
    BY <2>6, <2>7, SetParamType
  <2> QED
    BY <2>1, <2>6, <2>8, <2>9, SetterType DEF TypeInv, SoftwareOK
<1>5. CASE SetDDCBW(s)
  <2> DEFINE bw == Token(s).value
  <2>1. AtToken(s, "DDCBW") /\ Parsed(s) /\ BankNum' = BankNum
    BY <1>5 DEF SetDDCBW
  <2>2. CASE bw \in Bandwidths
    <3>1. /\ SetParam("CIC", CICOf(bw)) /\ SetWave(s, "BandWidth", bw)
          /\ local' = [local EXCEPT ![s]["CIC"] = SwapField(CICOf(bw))]
      BY <1>5, <2>2 DEF SetDDCBW
    <3>2. CICOf(bw) \in CICs /\ CICOf(bw) \in Fields
      BY <2>2, CICType DEF Fields
    <3>3. SwapField(CICOf(bw)) \in Fields
      BY <3>2, SwapType
    <3> HIDE DEF bw
    <3>4. NB_Param' \in [Channels -> ParamType] /\ steady' \in [Streams -> BOOLEAN]
      BY <3>1, <3>2, SetParamType
    <3>5. m_NBWave' \in [Channels -> WaveType]
      BY <2>2, <3>1, SetWaveType
    <3> QED
      BY <2>1, <3>1, <3>3, <3>4, <3>5, SetterType
  <2>3. CASE bw \notin Bandwidths
    <3>1. /\ local' = [local EXCEPT ![s]["CIC"] = SwapField(local[s]["CIC"])]
          /\ NB_Param' = NB_Param /\ m_NBWave' = m_NBWave /\ steady' = steady
      BY <1>5, <2>3, SMT DEF SetDDCBW, TypeInv, CommandOK, LocalType
    <3>2. local[s]["CIC"] \in Fields
      BY SMT DEF TypeInv, CommandOK, LocalType
    <3>3. SwapField(local[s]["CIC"]) \in Fields
      BY <3>2, SwapType
    <3> QED
      BY <2>1, <3>1, <3>3, SetterType DEF TypeInv, SoftwareOK, HistoryOK
  <2> QED
    BY <2>2, <2>3
<1>6. CASE SetDemodType(s)
  <2> DEFINE demod == Token(s).value % 256
  <2>1. AtToken(s, "DemodType") /\ Parsed(s) /\ SetParam("Demod", demod)
        /\ local' = [local EXCEPT ![s]["Demod"] = demod]
        /\ BankNum' = BankNum /\ m_NBWave' = m_NBWave
    BY <1>6 DEF SetDemodType
  <2>2. demod \in Demods /\ demod \in Fields
    <3>1. Token(s).value \in Int
      BY <2>1, TokenType
    <3> QED
      BY <3>1, SMT DEF Demods, Fields
  <2> HIDE DEF demod
  <2>3. NB_Param' \in [Channels -> ParamType] /\ steady' \in [Streams -> BOOLEAN]
    BY <2>1, <2>2, SetParamType
  <2> QED
    BY <2>1, <2>2, <2>3, SetterType DEF TypeInv, SoftwareOK
<1>7. CASE SetNBWaveResultFrequency(s) \/ FindWave(s)
  BY <1>7, MidFreqType
<1> QED
  BY <1>1, <1>2, <1>3, <1>4, <1>5, <1>6, <1>7 DEF Parse

LEMMA CompleteHasBank ==
    ASSUME NEW c, Complete(c)
    PROVE  Given(c, "BankNum") # {}
<1>1. Cardinality(Given(c, "BankNum")) = 1
  BY DEF Complete
<1>2. Cardinality({}) # 1
  BY FS_EmptySet, SMT
<1> QED
  BY <1>1, <1>2, Zenon

\* A command that is complete has its channel when it ends.
LEMMA CompleteHasChannel ==
    ASSUME TypeInv, NEW s \in Sessions, pos[s] > Len(cmd[s]), Complete(cmd[s])
    PROVE  local[s].Channel \in Channels
<1>1. Given(cmd[s], "BankNum") # {}
  BY CompleteHasBank
<1>2. PICK i \in Given(cmd[s], "BankNum") : TRUE
  BY <1>1
<1>3. i \in 1 .. Len(cmd[s]) /\ pos[s] \in Nat \ {0} /\ Len(cmd[s]) \in Nat
  BY <1>2, SMT DEF Given, TypeInv, CommandOK
<1> QED
  BY <1>2, <1>3, SMT DEF TypeInv, BankOK

LEMMA TypeReceive ==
    ASSUME TypeInv, NEW s \in Sessions, Receive(s)
    PROVE  TypeInv'
<1> USE DEF Receive
<1>1. SoftwareOK' /\ DataOK'
  BY Zenon DEF TypeInv, SoftwareOK, DataOK, swVars, dataVars
<1>2. CountersOK'
  BY NarrowBandAssumption, SMT DEF TypeInv, CountersOK
<1>3. PICK c \in Commands :
          /\ cmd' = [cmd EXCEPT ![s] = c]
          /\ settled' = settled \cap {ch \in Channels : Elsewhere(c, ch)}
          /\ inOrder' = inOrder \cap {ch \in Channels : Elsewhere(c, ch)}
          /\ quiet' = [st \in Streams |-> quiet[st] /\ st \in {ch \in Channels : Elsewhere(c, ch)}]
  OBVIOUS
<1>4. c \in Seq(Tokens)
  BY NarrowBandAssumption
<1>5. CommandOK'
  <2>1. cmd' \in [Sessions -> Seq(Tokens)]
    BY <1>3, <1>4, SMT DEF TypeInv, CommandOK
  <2> QED
    BY <2>1, Zenon DEF TypeInv, CommandOK
<1>6. \A t \in Sessions : t # s => cmd'[t] = cmd[t]
  BY <1>3, SMT DEF TypeInv, CommandOK
<1>7. BankOK'
  <2> SUFFICES ASSUME NEW t \in Sessions, NEW i \in Given(cmd'[t], "BankNum"), i < pos'[t]
               PROVE  local'[t].Channel \in Channels
    BY DEF BankOK
  <2>1. i \in Nat \ {0}
    BY <1>5, SMT DEF Given, CommandOK
  <2>2. t # s
    BY <2>1, SMT DEF TypeInv, CallOK
  <2> QED
    BY <1>6, <2>2, SMT DEF TypeInv, BankOK
<1>8. CallOK'
  BY <1>6, Zenon DEF TypeInv, CallOK, Busy
<1>9. HistoryOK'
  <2>1. /\ alone' = [t \in Sessions |-> t = s /\ \A u \in Sessions : ~Busy(u)]
        /\ steady' = steady
    OBVIOUS
  <2> QED
    BY <1>3, <2>1, Zenon DEF TypeInv, HistoryOK
<1>10. PeaceOK'
  BY <1>3, Zenon DEF TypeInv, PeaceOK
<1> QED
  BY <1>1, <1>2, <1>5, <1>7, <1>8, <1>9, <1>10 DEF TypeInv

LEMMA TypeFinish ==
    ASSUME TypeInv, NEW s \in Sessions, Finish(s)
    PROVE  TypeInv'
<1>1. alone[s] /\ Complete(cmd[s]) => local[s].Channel \in Channels
  BY CompleteHasChannel DEF Finish
<1>2. PeaceOK'
  BY <1>1, Zenon DEF Finish, TypeInv, PeaceOK
<1> QED
  BY <1>2, LeaveType DEF Finish

LEMMA TypeSession ==
    ASSUME TypeInv, NEW s \in Sessions, Session(s)
    PROVE  TypeInv'
<1>1. CASE Receive(s)
  BY <1>1, TypeReceive
<1>2. CASE Parse(s)
  BY <1>2, TypeParse
<1>3. CASE WriteDevice(s)
  <2> USE DEF WriteDevice
  <2>1. SoftwareOK' /\ DataOK' /\ CountersOK' /\ HistoryOK' /\ BankOK' /\ PeaceOK'
    BY <1>3, Zenon DEF TypeInv, SoftwareOK, DataOK, CountersOK, HistoryOK, BankOK, PeaceOK,
       swVars, dataVars
  <2>2. local[s] \in LocalType
    BY DEF TypeInv, CommandOK
  <2>3. [DDS |-> local[s].DDS, Demod |-> local[s].Demod,
         CIC |-> IF local[s].CIC = Junk THEN Junk ELSE Swap(local[s].CIC)] \in DeviceType
    BY <2>2, SMT DEF LocalType, DeviceType, Fields, Swap
  <2>4. device' \in [Channels -> DeviceType]
    BY <1>3, <2>3, SMT DEF TypeInv, CommandOK
  <2>5. cmd' = cmd /\ pos' = pos /\ local' = local
    BY <1>3
  <2>6. CommandOK'
    <3>1. sent' \in [Sessions -> BOOLEAN]
      BY <1>3, SMT DEF TypeInv, CommandOK
    <3> QED
      BY <2>4, <2>5, <3>1, Zenon DEF TypeInv, CommandOK
  <2>7. CallOK'
    <3>1. \A t \in Sessions : ~Busy(t)' => t # s /\ ~Busy(t) /\ sent'[t] = sent[t]
      BY <1>3, Zenon DEF Busy, TypeInv, CommandOK
    <3> QED
      BY <1>3, <3>1, Zenon DEF TypeInv, CallOK
  <2> QED
    BY <2>1, <2>6, <2>7 DEF TypeInv
<1>4. CASE WriteThrows(s)
  BY <1>4, AbandonType DEF WriteThrows
<1>5. CASE Finish(s)
  BY <1>5, TypeFinish
<1> QED
  BY <1>1, <1>2, <1>3, <1>4, <1>5 DEF Session

LEMMA CollectType ==
    ASSUME TypeInv, Collect
    PROVE  /\ PackIndex' \in [Streams -> 0 .. PACKS - 1]
           /\ resAll' \in [Streams -> Seq(PacketType)]
           /\ accepted' \in [Streams -> Seq(Nat)]
<1>1. packet \in PacketType /\ packet.stream \in Streams /\ packet.num \in Nat
  BY SMT DEF TypeInv, DataOK, PacketType
<1>2. PackIndex[packet.stream] \in 0 .. PACKS - 1 /\ PACKS \in Nat \ {0}
  BY <1>1, NarrowBandAssumption DEF TypeInv, DataOK
<1>3. PackIndex' \in [Streams -> 0 .. PACKS - 1]
  <2> DEFINE st == packet.stream
             n == IF PackIndex[st] + 1 = PACKS THEN 0 ELSE PackIndex[st] + 1
  <2>1. n \in 0 .. PACKS - 1
    BY <1>2, SMT
  <2>2. PackIndex \in [Streams -> 0 .. PACKS - 1]
    BY DEF TypeInv, DataOK
  <2>3. PackIndex' = [PackIndex EXCEPT ![st] = n]
    BY <1>1, <2>2, SMT DEF Collect
  <2> HIDE DEF n, st
  <2> QED
    BY <2>1, <2>2, <2>3, Zenon
<1>4. resAll' \in [Streams -> Seq(PacketType)]
  BY <1>1, SMT DEF TypeInv, DataOK, Collect
<1>5. accepted' \in [Streams -> Seq(Nat)]
  BY <1>1, SMT DEF TypeInv, DataOK, Collect
<1> QED
  BY <1>3, <1>4, <1>5

LEMMA TypeData ==
    ASSUME TypeInv, Produce \/ DataDealNB
    PROVE  TypeInv'
<1>1. CASE Produce
  <2> USE DEF Produce
  <2>1. SoftwareOK' /\ CommandOK' /\ CallOK' /\ BankOK' /\ PeaceOK'
    BY <1>1, Zenon DEF TypeInv, SoftwareOK, CommandOK, CallOK, Busy, BankOK, PeaceOK,
       swVars, cmdVars
  <2>2. HistoryOK'
    BY <1>1, Zenon DEF TypeInv, HistoryOK, cmdVars
  <2>3. CountersOK'
    <3>1. commands \in Nat /\ packets \in Nat /\ MaxEvents \in Nat
      BY NarrowBandAssumption DEF TypeInv, CountersOK
    <3>2. commands' = commands /\ packets' = packets + 1 /\ 2 * commands + packets < MaxEvents
      BY <1>1 DEF cmdVars
    <3>3. packets' \in 0 .. MaxEvents - 2 * commands
      BY <3>1, <3>2, SMT
    <3> QED
      BY <3>2, <3>3 DEF TypeInv, CountersOK
  <2>4. pending' \in Seq(PacketType)
    <3>1. packets' \in Nat
      BY <1>1, <2>3 DEF CountersOK
    <3>2. PICK st \in Streams : pending' = Append(pending,
            IF st = Pulse
            THEN [NoPacket EXCEPT !.num = packets']
            ELSE [stream |-> st, DDS |-> device[st].DDS, CIC |-> device[st].CIC,
                  Demod |-> device[st].Demod, num |-> packets'])
      BY <1>1
    <3>3. [NoPacket EXCEPT !.num = packets'] \in PacketType
      BY <3>1, SMT DEF NoPacket, PacketType, Streams, Fields
    <3>4. ASSUME st # Pulse
          PROVE  [stream |-> st, DDS |-> device[st].DDS, CIC |-> device[st].CIC,
                  Demod |-> device[st].Demod, num |-> packets'] \in PacketType
      <4>1. device[st] \in DeviceType
        BY <3>2, <3>4 DEF Streams, TypeInv, CommandOK
      <4> QED
        BY <3>1, <3>2, <4>1, SMT DEF DeviceType, PacketType
    <3>5. PICK p \in PacketType : pending' = Append(pending, p)
      <4>1. CASE st = Pulse
        BY <3>2, <3>3, <4>1
      <4>2. CASE st # Pulse
        BY <3>2, <3>4, <4>2
      <4> QED
        BY <4>1, <4>2
    <3> QED
      BY <3>5, SMT DEF TypeInv, DataOK
  <2>5. DataOK'
    BY <1>1, <2>4, Zenon DEF TypeInv, DataOK, dataVars
  <2> QED
    BY <2>1, <2>2, <2>3, <2>5 DEF TypeInv
<1>2. CASE TakePacket
  <2> USE DEF TakePacket
  <2>1. SoftwareOK' /\ CommandOK' /\ CallOK' /\ BankOK' /\ PeaceOK' /\ CountersOK'
    BY <1>2, Zenon DEF TypeInv, SoftwareOK, CommandOK, CallOK, Busy, BankOK, PeaceOK, CountersOK,
       swVars, cmdVars
  <2>2. packet' \in PacketType /\ pending' \in Seq(PacketType)
    BY <1>2, SMT DEF TypeInv, DataOK
  <2>3. packet'.stream \in Streams
    BY <2>2, SMT DEF PacketType
  <2>4. npc' \in Stages /\ (npc' \in Stages \ {"wait", "keep"} => packet'.stream \in Channels)
    BY <1>2, <2>3, SMT DEF Stages, Streams
  <2>5. DataOK'
    BY <1>2, <2>2, <2>4, Zenon DEF TypeInv, DataOK
  <2>6. HistoryOK'
    <3> DEFINE st == Head(pending).stream
               first == PackIndex[st] = 0
    <3>1. /\ steady' = [steady EXCEPT ![st] = @ \/ first]
          /\ quiet' = [quiet EXCEPT ![st] = IF first THEN st \in inOrder
                                              ELSE @]
          /\ alone' = alone
      BY <1>2 DEF cmdVars
    <3>2. quiet[st] \in BOOLEAN /\ (st \in inOrder) \in BOOLEAN
          /\ (steady[st] \/ first) \in BOOLEAN
      <4>1. st \in Streams
        BY <1>2, <2>3
      <4>2. quiet[st] \in BOOLEAN
        BY <4>1, Zenon DEF TypeInv, HistoryOK
      <4> HIDE DEF st, first
      <4>3. (st \in inOrder) \in BOOLEAN
        OBVIOUS
      <4>4. (steady[st] \/ first) \in BOOLEAN
        BY Zenon
      <4> QED
        BY <4>2, <4>3, <4>4, Zenon
    <3> HIDE DEF st, first
    <3>3. quiet' \in [Streams -> BOOLEAN]
      BY <3>1, <3>2, Zenon DEF TypeInv, HistoryOK
    <3>4. steady' \in [Streams -> BOOLEAN]
      BY <3>1, <3>2, Zenon DEF TypeInv, HistoryOK
    <3> QED
      BY <3>1, <3>3, <3>4 DEF TypeInv, HistoryOK
  <2> QED
    BY <2>1, <2>5, <2>6 DEF TypeInv
<1>3. CASE Compare
  <2> USE DEF Compare
  <2>1. SoftwareOK' /\ CommandOK' /\ CallOK' /\ BankOK' /\ PeaceOK' /\ CountersOK'
    BY <1>3, Zenon DEF TypeInv, SoftwareOK, CommandOK, CallOK, Busy, BankOK, PeaceOK, CountersOK,
       swVars, cmdVars
  <2>2. HistoryOK'
    BY <1>3, Zenon DEF TypeInv, HistoryOK, cmdVars
  <2>3. npc' \in Stages /\ packet.stream \in Channels
    BY <1>3, SMT DEF After, Stages, TypeInv, DataOK
  <2>4. DataOK'
    BY <1>3, <2>3, Zenon DEF TypeInv, DataOK
  <2> QED
    BY <2>1, <2>2, <2>4 DEF TypeInv
<1>4. CASE ToPulseData
  <2> USE DEF ToPulseData
  <2>1. SoftwareOK' /\ CommandOK' /\ CallOK' /\ BankOK' /\ PeaceOK' /\ CountersOK'
    BY <1>4, Zenon DEF TypeInv, SoftwareOK, CommandOK, CallOK, Busy, BankOK, PeaceOK, CountersOK,
       swVars, cmdVars
  <2>2. HistoryOK'
    BY <1>4, Zenon DEF TypeInv, HistoryOK, cmdVars
  <2>3. DataOK'
    BY <1>4, CollectType, Zenon DEF TypeInv, DataOK, Stages
  <2> QED
    BY <2>1, <2>2, <2>3 DEF TypeInv
<1>5. CASE ToWaveData
  <2> USE DEF ToWaveData
  <2>1. CommandOK' /\ CallOK' /\ BankOK' /\ PeaceOK' /\ CountersOK'
    BY <1>5, Zenon DEF TypeInv, CommandOK, CallOK, Busy, BankOK, PeaceOK,
       CountersOK, cmdVars
  <2>2. HistoryOK'
    BY <1>5, Zenon DEF TypeInv, HistoryOK, cmdVars
  <2>3. npc' \in Stages /\ packet' = packet /\ pending' = pending /\ packet.stream \in Channels
    BY <1>5, SMT DEF Stages
  <2>4. DataOK'
    BY <1>5, <2>3, CollectType, Zenon DEF TypeInv, DataOK
  <2>5. packet.Demod \in Fields
    BY SMT DEF TypeInv, DataOK, PacketType
  <2>6. SoftwareOK'
    BY <1>5, <2>5, SMT DEF TypeInv, SoftwareOK, WaveType
  <2> QED
    BY <2>1, <2>2, <2>4, <2>6 DEF TypeInv
<1>6. CASE NBDataReplay
  <2> USE DEF NBDataReplay
  <2>1. SoftwareOK' /\ CommandOK' /\ CallOK' /\ BankOK' /\ PeaceOK' /\ CountersOK'
    BY <1>6, Zenon DEF TypeInv, SoftwareOK, CommandOK, CallOK, Busy, BankOK, PeaceOK, CountersOK,
       swVars, cmdVars
  <2>2. HistoryOK'
    BY <1>6, Zenon DEF TypeInv, HistoryOK, cmdVars
  <2>3. npc' \in Stages /\ packet.stream \in Channels
    BY <1>6, SMT DEF Stages, TypeInv, DataOK
  <2>4. DataOK'
    BY <1>6, <2>3, Zenon DEF TypeInv, DataOK
  <2> QED
    BY <2>1, <2>2, <2>4 DEF TypeInv
<1> QED
  BY <1>1, <1>2, <1>3, <1>4, <1>5, <1>6 DEF DataDealNB

LEMMA TypeStep == TypeInv /\ [Next]_vars => TypeInv'
<1>1. ASSUME TypeInv, UNCHANGED vars PROVE TypeInv'
  BY <1>1, Zenon DEF vars, swVars, cmdVars, dataVars, TypeInv, SoftwareOK, CommandOK, CallOK,
     Busy, BankOK, CountersOK, HistoryOK, PeaceOK, DataOK
<1> QED
  BY <1>1, TypeSession, TypeData DEF Next

\* The state is well formed: a channel keeps a band and a decimation of the table
\* whatever the commands are, and the index of a frame stays below its length.
THEOREM TypeCorrect == Spec => []TypeOK
<1>1. TypeInv => TypeOK
  <2> SUFFICES ASSUME TypeInv PROVE TypeOK
    OBVIOUS
  <2> USE DEF TypeInv
  <2>1. BankNum \in Channels /\ DOMAIN NB_Param = Channels
    BY DEF SoftwareOK
  <2>2. \A ch \in Channels :
          /\ NB_Param[ch].DDS \in 0 .. UINT - 1
          /\ NB_Param[ch].CIC \in {0} \cup {CICOf(bw) : bw \in Bandwidths}
          /\ NB_Param[ch].Demod \in Demods
          /\ m_NBWave[ch].BandWidth \in Bandwidths
    BY SMT DEF SoftwareOK, ParamType, WaveType, CICs
  <2>3. \A s \in Sessions : local[s].Channel \in Channels \cup {Junk}
    BY SMT DEF CommandOK, LocalType
  <2>4. npc \in {"wait", "keep", "Frequency", "BandWidth"} \cup DOMAIN After
    BY SMT DEF DataOK, Stages, After
  <2>5. packet.stream \in Streams
    BY SMT DEF DataOK, PacketType
  <2> QED
    BY <2>1, <2>2, <2>3, <2>4, <2>5, Zenon DEF TypeOK, DataOK, CountersOK, HistoryOK, CommandOK,
       CallOK, PeaceOK
<1> QED
  BY <1>1, TypeInit, TypeStep, PTL DEF Spec

-----------------------------------------------------------------------------
(***************************************************************************)
(* A frame is a run of packets.  The buffer of a stream holds the last     *)
(* PackIndex packets that passed, the frames before it all the others:     *)
(* their number is a multiple of PACKS.                                    *)
(***************************************************************************)
Multiple(n) == \E k \in Nat : n = k * PACKS

\* The first n of packets data, of stream st, are those that passed after the
\* first m.
Holds(data, st, n, m) ==
    /\ Len(data) = n
    /\ \A i \in 1 .. n : data[i].stream = st /\ data[i].num = accepted[st][m + i]

InFrames(st) == Len(accepted[st]) - PackIndex[st]

BufferOK ==
    \A st \in Streams :
        /\ Multiple(InFrames(st))
        /\ InFrames(st) \in Nat
        /\ PackIndex[st] > 0 => Holds(resAll[st], st, PackIndex[st], InFrames(st))

FrameShape ==
    /\ DOMAIN frame = {"stream", "header", "data", "steady", "quiet"}
    /\ frame.stream \in Streams \cup {None}
    /\ frame.data \in Seq(PacketType)

FrameOK ==
    frame.stream \in Streams =>
        /\ InFrames(frame.stream) >= PACKS
        /\ Holds(frame.data, frame.stream, PACKS, InFrames(frame.stream) - PACKS)

RunInv == BufferOK /\ FrameShape /\ FrameOK

LEMMA RunInit == Init => RunInv
<1> SUFFICES ASSUME Init PROVE RunInv
  OBVIOUS
<1>1. \A st \in Streams : accepted[st] = <<>> /\ PackIndex[st] = 0
  BY SMT DEF Init
<1>2. Multiple(0)
  BY NarrowBandAssumption, SMT DEF Multiple
<1>3. BufferOK
  BY <1>1, <1>2, SMT DEF BufferOK, InFrames
<1>4. frame.stream = None /\ frame.data = <<>>
      /\ DOMAIN frame = {"stream", "header", "data", "steady", "quiet"}
  BY SMT DEF Init, NoFrame
<1>5. None \notin Streams
  BY NarrowBandAssumption DEF Streams, Channels
<1> QED
  BY <1>3, <1>4, <1>5, SMT DEF RunInv, FrameShape, FrameOK

LEMMA MultipleNext ==
    ASSUME NEW n \in Nat, Multiple(n) PROVE Multiple(n + PACKS)
<1>1. PICK k \in Nat : n = k * PACKS
  BY DEF Multiple
<1>2. k + 1 \in Nat /\ n + PACKS = (k + 1) * PACKS
  BY <1>1, NarrowBandAssumption, SMT
<1> QED
  BY <1>2 DEF Multiple

LEMMA MultipleDiv ==
    ASSUME NEW n \in Nat, Multiple(n), NEW r \in 0 .. PACKS - 1
    PROVE  ((n + r) \div PACKS) * PACKS = n
<1>1. PICK k \in Nat : n = k * PACKS
  BY DEF Multiple
<1>2. PACKS \in Nat \ {0}
  BY NarrowBandAssumption
<1>3. (n + r) \div PACKS = k
  BY <1>1, <1>2, SMTT(60)
<1> QED
  BY <1>1, <1>3

LEMMA CollectRun ==
    ASSUME TypeInv, RunInv, Collect, NEW st \in Streams, st = packet.stream
    PROVE  RunInv'
<1> DEFINE old == IF PackIndex[st] = 0 THEN <<>> ELSE resAll[st]
           res == Append(old, packet)
           full == PackIndex[st] + 1 = PACKS
           n == PackIndex[st]
           m == InFrames(st)
<1>1. /\ resAll' = [resAll EXCEPT ![st] = res]
      /\ accepted' = [accepted EXCEPT ![st] = Append(accepted[st], packet.num)]
      /\ PackIndex' = [PackIndex EXCEPT ![st] = IF full THEN 0 ELSE n + 1]
      /\ frame' = IF full
                  THEN [NoFrame EXCEPT !.stream = st, !.data = res, !.steady = steady[st]]
                  ELSE frame
  BY SMT DEF Collect, TypeInv, DataOK
<1>2. /\ packet \in PacketType /\ packet.num \in Nat
      /\ n \in 0 .. PACKS - 1 /\ PACKS \in Nat \ {0}
      /\ accepted \in [Streams -> Seq(Nat)] /\ resAll \in [Streams -> Seq(PacketType)]
      /\ PackIndex \in [Streams -> 0 .. PACKS - 1]
  <2>1. packet \in PacketType /\ packet.num \in Nat
    BY SMT DEF TypeInv, DataOK, PacketType
  <2>2. PACKS \in Nat \ {0}
    BY NarrowBandAssumption
  <2> QED
    BY <2>1, <2>2 DEF TypeInv, DataOK
<1>3. m \in Nat /\ Multiple(m) /\ Len(accepted[st]) = m + n /\ Len(accepted[st]) \in Nat
  BY <1>2, SMT DEF RunInv, BufferOK, InFrames
<1>4. /\ old \in Seq(PacketType) /\ Len(old) = n
      /\ \A i \in 1 .. n : old[i].stream = st /\ old[i].num = accepted[st][m + i]
  <2>1. CASE n = 0
    <3>1. old = <<>>
      BY <2>1
    <3> QED
      BY <2>1, <3>1
  <2>2. CASE n > 0
    <3>1. Holds(resAll[st], st, n, m) /\ old = resAll[st]
      BY <2>2, SMT DEF RunInv, BufferOK
    <3> QED
      BY <1>2, <3>1, Zenon DEF Holds
  <2>3. n = 0 \/ n > 0
    BY <1>2
  <2> QED
    BY <2>1, <2>2, <2>3, Zenon
<1>5. /\ accepted'[st] = Append(accepted[st], packet.num)
      /\ PackIndex'[st] = IF full THEN 0 ELSE n + 1
      /\ resAll'[st] = res
      /\ \A t \in Streams \ {st} : /\ accepted'[t] = accepted[t] /\ PackIndex'[t] = PackIndex[t]
                                   /\ resAll'[t] = resAll[t]
  <2> HIDE DEF res, full
  <2> QED
    BY <1>1, <1>2, SMT
<1>6. res \in Seq(PacketType) /\ Len(res) = n + 1
      /\ \A i \in 1 .. n + 1 : res[i].stream = st /\ res[i].num = accepted'[st][m + i]
  <2>1. res \in Seq(PacketType) /\ Len(res) = n + 1 /\ res[n + 1] = packet
        /\ \A i \in 1 .. n : res[i] = old[i]
    <3> HIDE DEF old
    <3> QED
      BY <1>2, <1>4, SMT
  <2>2. /\ accepted'[st][m + n + 1] = packet.num
        /\ \A i \in 1 .. m + n : accepted'[st][i] = accepted[st][i]
    BY <1>2, <1>3, <1>5, SMT
  <2> HIDE DEF res, old, m, n
  <2>3. ASSUME NEW i \in 1 .. n + 1
        PROVE  res[i].stream = st /\ res[i].num = accepted'[st][m + i]
    <3>1. CASE i = n + 1
      BY <1>2, <1>3, <2>1, <2>2, <3>1, SMT
    <3>2. CASE i \in 1 .. n
      <4>1. m + i \in 1 .. m + n
        BY <1>2, <1>3, <3>2, SMT
      <4> QED
        BY <1>4, <2>1, <2>2, <3>2, <4>1
    <3> QED
      BY <1>2, <3>1, <3>2, SMT
  <2> QED
    BY <2>1, <2>3
<1>7. Len(accepted'[st]) = m + n + 1
  BY <1>2, <1>3, <1>5, SMT
<1> HIDE DEF res, old
<1>8. InFrames(st)' = IF full THEN m + PACKS ELSE m
  <2> SUFFICES Len(accepted'[st]) - PackIndex'[st] = IF full THEN m + PACKS ELSE m
    BY DEF InFrames
  <2>1. CASE full
    <3>1. PackIndex'[st] = 0 /\ n + 1 = PACKS
      BY <1>5, <2>1
    <3> HIDE DEF m, n
    <3> QED
      BY <1>2, <1>3, <1>7, <2>1, <3>1, SMT
  <2>2. CASE ~full
    <3>1. PackIndex'[st] = n + 1
      BY <1>5, <2>2
    <3> HIDE DEF m, n, full
    <3> QED
      BY <1>2, <1>3, <1>7, <2>2, <3>1, SMT
  <2> QED
    BY <2>1, <2>2
<1>9. BufferOK'
  <2>1. ASSUME NEW t \in Streams \ {st}
        PROVE  /\ Multiple(InFrames(t))' /\ InFrames(t)' \in Nat
               /\ PackIndex'[t] > 0 => Holds(resAll[t], t, PackIndex[t], InFrames(t))'
    <3>1. InFrames(t)' = InFrames(t) /\ accepted'[t] = accepted[t] /\ PackIndex'[t] = PackIndex[t]
          /\ resAll'[t] = resAll[t]
      BY <1>5, Zenon DEF InFrames
    <3>2. Multiple(InFrames(t)) /\ InFrames(t) \in Nat
          /\ (PackIndex[t] > 0 => Holds(resAll[t], t, PackIndex[t], InFrames(t)))
      BY DEF RunInv, BufferOK
    <3>3. Multiple(InFrames(t))'
      BY <3>1, <3>2, Zenon DEF Multiple
    <3>4. PackIndex'[t] > 0 => Holds(resAll[t], t, PackIndex[t], InFrames(t))'
      BY <3>1, <3>2, Zenon DEF Holds
    <3> QED
      BY <3>1, <3>2, <3>3, <3>4
  <2>2. Multiple(m + PACKS)
    BY <1>3, MultipleNext
  <2>3. Multiple(InFrames(st))' /\ InFrames(st)' \in Nat
    <3> HIDE DEF m, full
    <3>1. Multiple(m) /\ Multiple(m + PACKS) /\ m + PACKS \in Nat /\ m \in Nat
      BY <1>2, <1>3, <2>2, SMT
    <3> QED
      BY <1>8, <3>1, Zenon DEF Multiple
  <2>4. PackIndex'[st] > 0 => Holds(resAll[st], st, PackIndex[st], InFrames(st))'
    <3> SUFFICES ASSUME PackIndex'[st] > 0
                 PROVE  Holds(resAll[st], st, PackIndex[st], InFrames(st))'
      OBVIOUS
    <3>1. ~full /\ PackIndex'[st] = n + 1
      BY <1>2, <1>5, SMT
    <3>2. InFrames(st)' = m
      BY <1>8, <3>1
    <3> HIDE DEF m, n, full
    <3> QED
      BY <1>5, <1>6, <3>1, <3>2, Zenon DEF Holds
  <2> QED
    BY <2>1, <2>3, <2>4, Zenon DEF BufferOK
<1>10. FrameShape'
  <2>1. CASE full
    <3>1. frame' = [NoFrame EXCEPT !.stream = st, !.data = res, !.steady = steady[st]]
      BY <1>1, <2>1
    <3> QED
      BY <1>6, <3>1, SMT DEF FrameShape, NoFrame
  <2>2. CASE ~full
    BY <1>1, <2>2 DEF RunInv, FrameShape
  <2> QED
    BY <2>1, <2>2
<1>11. FrameOK'
  <2>1. CASE full
    <3>1. frame'.stream = st /\ frame'.data = res
      BY <1>1, <2>1, SMT DEF NoFrame
    <3>2. n + 1 = PACKS /\ InFrames(st)' = m + PACKS
      BY <1>8, <2>1
    <3> HIDE DEF m, n, full
    <3>3. InFrames(st)' >= PACKS /\ InFrames(st)' - PACKS = m
      BY <1>2, <1>3, <3>2, SMT
    <3>4. Holds(frame.data, st, PACKS, InFrames(st) - PACKS)'
      BY <1>6, <3>1, <3>2, <3>3, Zenon DEF Holds
    <3> QED
      BY <3>1, <3>3, <3>4, Zenon DEF FrameOK
  <2>2. CASE ~full
    <3>1. frame' = frame
      BY <1>1, <2>2
    <3> SUFFICES ASSUME NEW fs \in Streams, fs = frame.stream
                 PROVE  /\ InFrames(fs)' >= PACKS
                        /\ Holds(frame.data, fs, PACKS, InFrames(fs) - PACKS)'
      BY <3>1, Zenon DEF FrameOK
    <3>2. InFrames(fs)' = InFrames(fs)
      <4>1. CASE fs = st
        BY <1>8, <2>2, <4>1
      <4>2. CASE fs # st
        BY <1>5, <4>2, SMT DEF InFrames
      <4> QED
        BY <4>1, <4>2
    <3>3. InFrames(fs) >= PACKS /\ Holds(frame.data, fs, PACKS, InFrames(fs) - PACKS)
      BY DEF RunInv, FrameOK
    <3>4. \A i \in 1 .. PACKS : accepted'[fs][InFrames(fs) - PACKS + i]
                                 = accepted[fs][InFrames(fs) - PACKS + i]
      <4>1. CASE fs # st
        BY <1>5, <4>1
      <4>2. CASE fs = st
        <5> SUFFICES ASSUME NEW i \in 1 .. PACKS
                     PROVE  accepted'[st][m - PACKS + i] = accepted[st][m - PACKS + i]
          BY <4>2
        <5>1. m >= PACKS
          BY <3>3, <4>2
        <5>2. m - PACKS + i \in 1 .. m + n
          <6> HIDE DEF m, n
          <6> QED
            BY <1>2, <1>3, <5>1, SMT
        <5> QED
          BY <1>2, <1>3, <1>5, <5>2, SMT
      <4> QED
        BY <4>1, <4>2
    <3>5. Holds(frame.data, fs, PACKS, InFrames(fs) - PACKS)'
      BY <3>1, <3>2, <3>3, <3>4, Zenon DEF Holds
    <3> QED
      BY <3>2, <3>3, <3>5, Zenon
  <2> QED
    BY <2>1, <2>2
<1> QED
  BY <1>9, <1>10, <1>11 DEF RunInv

\* NBDataReplay fills the header only.
LEMMA ReplayFrame ==
    ASSUME FrameShape, NBDataReplay
    PROVE  FrameShape' /\ frame'.stream = frame.stream /\ frame'.data = frame.data
           /\ frame'.steady = frame.steady
  BY SMT DEF FrameShape, NBDataReplay

\* A step that leaves the buffers and the packets of the frame alone.
LEMMA RunStays ==
    ASSUME RunInv, FrameShape', UNCHANGED <<PackIndex, resAll, accepted>>,
           frame'.stream = frame.stream, frame'.data = frame.data
    PROVE  RunInv'
<1>1. \A st : InFrames(st)' = InFrames(st)
  BY Zenon DEF InFrames
<1>2. BufferOK'
  BY <1>1, Zenon DEF RunInv, BufferOK, Multiple, Holds
<1>3. FrameOK'
  BY <1>1, Zenon DEF RunInv, FrameOK, Holds
<1> QED
  BY <1>2, <1>3, Zenon DEF RunInv

LEMMA RunStep == TypeInv /\ RunInv /\ [Next]_vars => RunInv'
<1> SUFFICES ASSUME TypeInv, RunInv, [Next]_vars PROVE RunInv'
  OBVIOUS
<1>1. ASSUME UNCHANGED <<PackIndex, resAll, accepted, frame>> PROVE RunInv'
  <2>1. FrameShape'
    BY <1>1, Zenon DEF RunInv, FrameShape
  <2> QED
    BY <1>1, <2>1, RunStays, Zenon
<1>2. ASSUME NEW s \in Sessions, Session(s) PROVE UNCHANGED dataVars
  <2>1. CASE Receive(s) \/ WriteDevice(s) \/ WriteThrows(s) \/ Finish(s)
    BY <2>1, Zenon DEF Receive, WriteDevice, WriteThrows, Finish, Abandon, Leave
  <2>2. CASE Parse(s)
    BY <2>2, Zenon DEF Parse, SkipToken, SelectBank, RejectBank, SetNBWaveResultFrequency, FindWave,
       SetFreq, SetDDCBW, SetDemodType, ParseThrows, Parsed, Parsing, Abandon, Leave
  <2> QED
    BY <1>2, <2>1, <2>2, Zenon DEF Session
<1>3. ASSUME ToPulseData \/ ToWaveData PROVE RunInv'
  <2>1. PICK st \in Streams : st = packet.stream
    BY SMT DEF TypeInv, DataOK, PacketType
  <2>2. Collect
    BY <1>3 DEF ToPulseData, ToWaveData
  <2> QED
    BY <2>1, <2>2, CollectRun
<1>4. ASSUME NBDataReplay PROVE RunInv'
  <2>1. FrameShape' /\ frame'.stream = frame.stream /\ frame'.data = frame.data
    BY <1>4, ReplayFrame DEF RunInv
  <2>2. UNCHANGED <<PackIndex, resAll, accepted>>
    BY <1>4 DEF NBDataReplay
  <2> QED
    BY <2>1, <2>2, RunStays, Zenon
<1>5. ASSUME TakePacket \/ Compare PROVE UNCHANGED <<PackIndex, resAll, accepted, frame>>
  BY <1>5 DEF TakePacket, Compare
<1> QED
  BY <1>1, <1>2, <1>3, <1>4, <1>5 DEF Next, DataDealNB, Produce, dataVars, vars

\* A frame is a run of PACKS packets of one stream, all that passed the filter and
\* none twice, however the packets of the streams are mixed (ToWaveData,
\* ToPulseData).
THEOREM FramesAreRuns == Spec => []FrameIsRun
<1>1. TypeInv /\ RunInv => FrameIsRun
  <2> SUFFICES ASSUME TypeInv, RunInv, NEW st \in Streams, st = frame.stream
               PROVE  LET passed == accepted[st]
                          last   == (Len(passed) \div PACKS) * PACKS
                      IN
                      /\ last > 0
                      /\ \A i \in 1 .. Len(frame.data) : frame.data[i].stream = st
                      /\ [i \in 1 .. Len(frame.data) |-> frame.data[i].num]
                           = SubSeq(passed, last - PACKS + 1, last)
    BY Zenon DEF FrameIsRun
  <2> DEFINE passed == accepted[st]
             last   == (Len(passed) \div PACKS) * PACKS
             m == InFrames(st)
             nums == [i \in 1 .. PACKS |-> frame.data[i].num]
             run == SubSeq(passed, last - PACKS + 1, last)
  <2>1. /\ PackIndex[st] \in 0 .. PACKS - 1 /\ PACKS \in Nat \ {0}
        /\ passed \in Seq(Nat) /\ frame.data \in Seq(PacketType)
    BY NarrowBandAssumption DEF TypeInv, DataOK, RunInv, FrameShape
  <2>2. m \in Nat /\ Multiple(m) /\ m >= PACKS /\ Holds(frame.data, st, PACKS, m - PACKS)
    BY DEF RunInv, BufferOK, FrameOK
  <2>3. Len(passed) \in Nat /\ Len(passed) = m + PackIndex[st]
    BY <2>1, <2>2, SMT DEF InFrames
  <2>4. last = m
    BY <2>1, <2>2, <2>3, MultipleDiv
  <2>5. /\ Len(frame.data) = PACKS
        /\ \A i \in 1 .. PACKS : frame.data[i].stream = st /\ frame.data[i].num = passed[m - PACKS + i]
    BY <2>2 DEF Holds
  <2> HIDE DEF last, m
  <2>6. \A i \in m - PACKS + 1 .. m : passed[i] \in Nat
    <3> HIDE DEF passed
    <3>1. ASSUME NEW i \in m - PACKS + 1 .. m PROVE i \in 1 .. Len(passed)
      BY <2>1, <2>2, <2>3, <3>1
    <3>2. \A i \in 1 .. Len(passed) : passed[i] \in Nat
      BY <2>1
    <3> QED
      BY <3>1, <3>2
  <2>7. /\ run \in Seq(Nat) /\ Len(run) = PACKS
        /\ \A i \in 1 .. PACKS : run[i] = passed[m - PACKS + i]
    <3> DEFINE a == m - PACKS + 1
    <3>1. a \in Int /\ m \in Int /\ run = SubSeq(passed, a, m)
      BY <2>1, <2>2, <2>4, SMT
    <3>2. \A i \in a .. m : passed[i] \in Nat
      BY <2>6
    <3> HIDE DEF passed, run, a
    <3>3. /\ run \in Seq(Nat)
          /\ Len(run) = IF a <= m THEN m - a + 1 ELSE 0
          /\ \A i \in 1 .. m - a + 1 : run[i] = passed[a + i - 1]
      <4>1. a \in Int /\ m \in Int
        BY <3>1
      <4>2. /\ SubSeq(passed, a, m) \in Seq(Nat)
            /\ Len(SubSeq(passed, a, m)) = IF a <= m THEN m - a + 1 ELSE 0
            /\ \A i \in 1 .. m - a + 1 : SubSeq(passed, a, m)[i] = passed[a + i - 1]
        BY <3>2, <4>1, SubSeqProperties
      <4>3. run = SubSeq(passed, a, m)
        BY <3>1
      <4> QED
        BY <4>2, <4>3
    <3>4. m - a + 1 = PACKS /\ a <= m
      BY <2>1, <2>2, SMT DEF a
    <3>5. ASSUME NEW i \in 1 .. PACKS PROVE a + i - 1 = m - PACKS + i
      BY <2>1, <2>2, SMT DEF a
    <3> QED
      BY <3>3, <3>4, <3>5
  <2> HIDE DEF run
  <2>8. nums \in Seq(Nat) /\ Len(nums) = PACKS
    <3>1. \A i \in 1 .. PACKS : frame.data[i].num \in Nat
      <4>1. ASSUME NEW i \in 1 .. PACKS PROVE frame.data[i] \in PacketType
        BY <2>1, <2>5, SMT
      <4> QED
        BY <4>1, SMT DEF PacketType
    <3> QED
      BY <2>1, <3>1, SMT
  <2>9. \A i \in 1 .. PACKS : nums[i] = run[i]
    BY <2>5, <2>7
  <2> HIDE DEF nums
  <2>10. nums = run
    BY <2>7, <2>8, <2>9, SeqEqual, Zenon
  <2>11. last > 0
    BY <2>1, <2>2, <2>4, SMT
  <2> QED
    BY <2>5, <2>10, <2>11 DEF nums, run, last
<1> QED
  BY <1>1, TypeInit, TypeStep, RunInit, RunStep, PTL DEF Spec

-----------------------------------------------------------------------------
(***************************************************************************)
(* A steady frame is uniform.  While the settings of a channel stay, what  *)
(* has been compared of a packet, and the packets in the buffer, agree     *)
(* with them.  A pulse has no settings.                                    *)
(***************************************************************************)
Plain(p) == p.stream = Pulse => p.DDS = Junk /\ p.CIC = Junk /\ p.Demod = Junk

Settings == {"DDS", "CIC", "Demod"}

Compared(stage) ==
    {f \in Settings : \/ stage = "keep"
                      \/ stage = "CIC" /\ f = "DDS"
                      \/ stage = "Demod" /\ f \in {"DDS", "CIC"}}

PlainOK == Plain(packet) /\ \A i \in 1 .. Len(pending) : Plain(pending[i])

FilterOK ==
    \A ch \in Channels :
        packet.stream = ch /\ steady[ch] =>
            \A f \in Compared(npc) : packet[f] = NB_Param[ch][f]

Suits(p, q) == \A f \in Settings : p[f] = q[f]

Want(st) == IF st = Pulse THEN Unset ELSE NB_Param[st]

SteadyOK ==
    \A st \in Streams :
        steady[st] =>
            \A i \in 1 .. PackIndex[st] : Suits(resAll[st][i], Want(st))

\* The settings of the frame, which may not be those of the channel any more.
FrameSteady ==
    frame.steady = TRUE => \E q : \A i \in 1 .. Len(frame.data) : Suits(frame.data[i], q)

UniformInv == PlainOK /\ FilterOK /\ SteadyOK /\ FrameSteady

LEMMA UniformInit == Init => UniformInv
<1> SUFFICES ASSUME Init PROVE UniformInv
  OBVIOUS
<1>1. packet = NoPacket /\ pending = <<>> /\ npc = "wait" /\ frame = NoFrame
      /\ \A st \in Streams : PackIndex[st] = 0
  BY SMT DEF Init
<1>2. PlainOK
  BY <1>1, SMT DEF PlainOK, Plain, NoPacket
<1>3. FilterOK
  BY <1>1, SMT DEF FilterOK, Compared
<1>4. SteadyOK
  BY <1>1, SMT DEF SteadyOK
<1>5. FrameSteady
  BY <1>1, SMT DEF FrameSteady, NoFrame
<1> QED
  BY <1>2, <1>3, <1>4, <1>5 DEF UniformInv

\* What a session does to the settings of a channel that stays steady.
StaysSteady ==
    \A st \in Streams :
        steady'[st] => /\ steady[st]
                       /\ st \in Channels => \A f \in Settings : NB_Param'[st][f] = NB_Param[st][f]

LEMMA SetParamSteady ==
    ASSUME TypeInv, NEW f \in Settings, NEW v, SetParam(f, v)
    PROVE  StaysSteady
<1> SUFFICES ASSUME NEW st \in Streams, steady'[st]
             PROVE  /\ steady[st]
                    /\ st \in Channels => \A g \in Settings : NB_Param'[st][g] = NB_Param[st][g]
  BY DEF StaysSteady
<1>1. /\ NB_Param' = [NB_Param EXCEPT ![BankNum][f] = v]
      /\ steady' = [steady EXCEPT ![BankNum] = @ /\ NB_Param[BankNum][f] = v]
      /\ steady \in [Streams -> BOOLEAN] /\ NB_Param \in [Channels -> ParamType]
      /\ BankNum \in Channels
  BY DEF SetParam, TypeInv, HistoryOK, SoftwareOK
<1>2. CASE st # BankNum
  <2>1. steady[st]
    BY <1>1, <1>2, Zenon
  <2>2. st \in Channels => NB_Param'[st] = NB_Param[st]
    BY <1>1, <1>2, SMT
  <2> QED
    BY <2>1, <2>2
<1>3. CASE st = BankNum
  <2>1. steady'[st] = (steady[st] /\ NB_Param[st][f] = v)
    BY <1>1, <1>3, Zenon
  <2>2. steady[st] /\ NB_Param[st][f] = v
    BY <2>1
  <2>3. NB_Param[st] \in ParamType /\ NB_Param' = [NB_Param EXCEPT ![st][f] = v]
    BY <1>1, <1>3
  <2>4. \A g \in Settings : NB_Param'[st][g] = NB_Param[st][g]
    BY <1>1, <1>3, <2>2, <2>3, SMT DEF Settings, ParamType
  <2> QED
    BY <2>2, <2>4
<1> QED
  BY <1>2, <1>3

LEMMA SessionSteady ==
    ASSUME TypeInv, NEW s \in Sessions, Session(s)
    PROVE  StaysSteady /\ UNCHANGED <<pending, dataVars>>
<1>1. UNCHANGED <<pending, dataVars>>
  BY Zenon DEF Session, Receive, Parse, SkipToken, SelectBank, RejectBank,
     SetNBWaveResultFrequency, FindWave, SetFreq, SetDDCBW, SetDemodType, ParseThrows, Parsed,
     Parsing, WriteDevice, WriteThrows, Finish, Abandon, Leave
<1>2. NB_Param' = NB_Param /\ steady' = steady => StaysSteady
  BY Zenon DEF StaysSteady
<1>3. CASE SetFreq(s) \/ SetDDCBW(s) \/ SetDemodType(s)
  <2>1. \/ \E f \in Settings : \E v : SetParam(f, v)
        \/ NB_Param' = NB_Param /\ steady' = steady
    <3>1. "DDS" \in Settings /\ "CIC" \in Settings /\ "Demod" \in Settings
      BY DEF Settings
    <3> QED
      BY <1>3, <3>1, Zenon DEF SetFreq, SetDDCBW, SetDemodType
  <2> QED
    BY <1>1, <1>2, <2>1, SetParamSteady
<1>4. CASE Receive(s) \/ SkipToken(s) \/ SelectBank(s) \/ RejectBank(s) \/ ParseThrows(s)
           \/ SetNBWaveResultFrequency(s) \/ FindWave(s)
           \/ WriteDevice(s) \/ WriteThrows(s) \/ Finish(s)
  <2>1. NB_Param' = NB_Param /\ steady' = steady
    BY <1>4, Zenon DEF Receive, SkipToken, SelectBank, RejectBank, ParseThrows,
       SetNBWaveResultFrequency, FindWave, WriteDevice, WriteThrows, Finish, Abandon, Leave, swVars
  <2> QED
    BY <1>1, <1>2, <2>1
<1> QED
  BY <1>1, <1>3, <1>4 DEF Session, Parse

LEMMA CollectUniform ==
    ASSUME TypeInv, RunInv, UniformInv, Collect, NEW st \in Streams, st = packet.stream,
           npc = "keep", npc' # "keep", Compared(npc') = {},
           UNCHANGED <<pending, packet, steady, NB_Param>>
    PROVE  UniformInv'
<1> DEFINE old == IF PackIndex[st] = 0 THEN <<>> ELSE resAll[st]
           res == Append(old, packet)
           full == PackIndex[st] + 1 = PACKS
           n == PackIndex[st]
<1>1. /\ resAll' = [resAll EXCEPT ![st] = res]
      /\ PackIndex' = [PackIndex EXCEPT ![st] = IF full THEN 0 ELSE n + 1]
      /\ frame' = IF full
                  THEN [NoFrame EXCEPT !.stream = st, !.data = res, !.steady = steady[st]]
                  ELSE frame
  BY SMT DEF Collect, TypeInv, DataOK
<1>2. /\ n \in 0 .. PACKS - 1 /\ PACKS \in Nat \ {0}
      /\ resAll \in [Streams -> Seq(PacketType)] /\ packet \in PacketType
      /\ PackIndex \in [Streams -> 0 .. PACKS - 1]
  BY NarrowBandAssumption DEF TypeInv, DataOK
<1>3. /\ PackIndex'[st] = IF full THEN 0 ELSE n + 1
      /\ resAll'[st] = res
      /\ \A t \in Streams \ {st} : PackIndex'[t] = PackIndex[t] /\ resAll'[t] = resAll[t]
  <2> HIDE DEF res, full
  <2> QED
    BY <1>1, <1>2, SMT
<1>4. old \in Seq(PacketType) /\ Len(old) = n
  BY <1>2, SMT DEF RunInv, BufferOK, Holds
<1>5. steady[st] => \A i \in 1 .. n : Suits(old[i], Want(st))
  <2>1. CASE n = 0
    BY <2>1, SMT
  <2>2. CASE n > 0
    <3>1. old = resAll[st]
      BY <2>2, SMT
    <3> HIDE DEF old
    <3> QED
      BY <3>1, Zenon DEF UniformInv, SteadyOK
  <2> QED
    BY <1>2, <2>1, <2>2, SMT
<1>6. steady[st] => Suits(packet, Want(st))
  <2>1. CASE st = Pulse
    BY <2>1, SMT DEF UniformInv, PlainOK, Plain, Settings, Suits, Want, Unset
  <2>2. CASE st # Pulse
    <3>1. st \in Channels /\ Compared(npc) = Settings
      BY <2>2, SMT DEF Streams, Compared
    <3> QED
      BY <2>2, <3>1, Zenon DEF UniformInv, FilterOK, Suits, Want
  <2> QED
    BY <2>1, <2>2
<1>7. Len(res) = n + 1 /\ res[n + 1] = packet /\ \A i \in 1 .. n : res[i] = old[i]
  <2> HIDE DEF old
  <2> QED
    BY <1>2, <1>4, SMT
<1> HIDE DEF res, old
<1>8. steady[st] => \A i \in 1 .. n + 1 : Suits(res[i], Want(st))
  <2> HIDE DEF n
  <2>1. \A i \in 1 .. n + 1 : i = n + 1 \/ i \in 1 .. n
    BY <1>2, SMT
  <2> QED
    BY <1>5, <1>6, <1>7, <2>1, Zenon
<1>9. PlainOK'
  BY Zenon DEF UniformInv, PlainOK, Plain
<1>10. FilterOK'
  BY Zenon DEF FilterOK
<1>11. SteadyOK'
  <2>1. \A t \in Streams : steady'[t] = steady[t] /\ Want(t)' = Want(t)
    BY Zenon DEF Want
  <2>2. ASSUME NEW t \in Streams, steady[t], NEW i \in 1 .. PackIndex'[t]
        PROVE  Suits(resAll'[t][i], Want(t))
    <3>1. CASE t # st
      BY <1>3, <2>2, <3>1 DEF UniformInv, SteadyOK
    <3>2. CASE t = st
      <4>1. i \in 1 .. n + 1
        BY <1>2, <1>3, <2>2, <3>2, SMT
      <4> QED
        BY <1>3, <1>8, <2>2, <3>2, <4>1
    <3> QED
      BY <3>1, <3>2
  <2> QED
    BY <2>1, <2>2, Zenon DEF SteadyOK
<1>12. FrameSteady'
  <2>1. CASE full
    <3>1. frame'.data = res /\ frame'.steady = steady[st]
      BY <1>1, <2>1, SMT DEF NoFrame
    <3>2. Len(frame'.data) = n + 1
      BY <1>7, <3>1
    <3> QED
      BY <1>8, <3>1, <3>2, Zenon DEF FrameSteady
  <2>2. CASE ~full
    <3>1. frame' = frame
      BY <1>1, <2>2
    <3> QED
      BY <3>1, Zenon DEF UniformInv, FrameSteady
  <2> QED
    BY <2>1, <2>2
<1> QED
  BY <1>9, <1>10, <1>11, <1>12 DEF UniformInv

LEMMA UniformSession ==
    ASSUME UniformInv, StaysSteady, UNCHANGED <<pending, dataVars>>, TypeInv
    PROVE  UniformInv'
<1>1. PlainOK' /\ FrameSteady'
  BY Zenon DEF UniformInv, PlainOK, Plain, FrameSteady, dataVars
<1>2. FilterOK'
  <2> SUFFICES ASSUME NEW ch \in Channels, packet.stream = ch, steady'[ch],
                      NEW f \in Compared(npc)
               PROVE  packet[f] = NB_Param'[ch][f]
    BY Zenon DEF FilterOK, dataVars
  <2>1. ch \in Streams /\ f \in Settings
    BY Zenon DEF Streams, Compared
  <2>2. steady[ch] /\ NB_Param'[ch][f] = NB_Param[ch][f]
    BY <2>1 DEF StaysSteady
  <2> QED
    BY <2>2, Zenon DEF UniformInv, FilterOK
<1>3. SteadyOK'
  <2>1. ASSUME NEW st \in Streams, steady'[st], NEW i \in 1 .. PackIndex[st]
        PROVE  Suits(resAll[st][i], Want(st)')
    <3>1. steady[st] /\ Suits(resAll[st][i], Want(st))
      BY <2>1, Zenon DEF UniformInv, SteadyOK, StaysSteady
    <3>2. st \in Channels \/ st = Pulse
      BY DEF Streams
    <3>3. ASSUME NEW f \in Settings PROVE Want(st)'[f] = Want(st)[f]
      BY <2>1, <3>2, Zenon DEF Want, StaysSteady
    <3> QED
      BY <3>1, <3>3, Zenon DEF Suits
  <2> QED
    BY <2>1, Zenon DEF SteadyOK, dataVars
<1> QED
  BY <1>1, <1>2, <1>3 DEF UniformInv

LEMMA UniformTake ==
    ASSUME UniformInv, TypeInv, TakePacket
    PROVE  UniformInv'
<1> PICK st \in Streams : st = Head(pending).stream
  <2>1. Head(pending) \in PacketType
    BY SMT DEF TakePacket, TypeInv, DataOK
  <2> QED
    BY <2>1, SMT DEF PacketType
<1>1. /\ pending \in Seq(PacketType) /\ pending # <<>>
      /\ packet' = Head(pending) /\ pending' = Tail(pending)
      /\ npc' = IF st = Pulse THEN "keep" ELSE "DDS"
      /\ steady' = [steady EXCEPT ![st] = @ \/ PackIndex[st] = 0]
      /\ UNCHANGED <<PackIndex, resAll, frame, NB_Param>>
      /\ steady \in [Streams -> BOOLEAN]
  BY Zenon DEF TakePacket, TypeInv, DataOK, HistoryOK, swVars
<1>2. PlainOK'
  <2>1. Head(pending) = pending[1] /\ 1 \in 1 .. Len(pending)
        /\ \A i \in 1 .. Len(Tail(pending)) : /\ Tail(pending)[i] = pending[i + 1]
                                              /\ i + 1 \in 1 .. Len(pending)
    BY <1>1, SMT
  <2>2. Plain(Head(pending)) /\ \A i \in 1 .. Len(Tail(pending)) : Plain(Tail(pending)[i])
    BY <2>1 DEF UniformInv, PlainOK
  <2> QED
    BY <1>1, <2>2, Zenon DEF PlainOK, Plain
<1>3. FilterOK'
  <2>1. ASSUME NEW ch \in Channels, packet'.stream = ch PROVE Compared(npc') = {}
    <3>1. npc' = "DDS"
      BY <1>1, <2>1, ZeroIsChannel
    <3> QED
      BY <3>1, SMT DEF Compared
  <2> QED
    BY <2>1, Zenon DEF FilterOK
<1>4. SteadyOK'
  <2>1. ASSUME NEW t \in Streams, steady'[t], NEW i \in 1 .. PackIndex[t]
        PROVE  Suits(resAll[t][i], Want(t))
    <3>1. PackIndex[t] # 0
      BY <2>1, SMT
    <3>2. steady[t]
      <4>1. CASE t = st
        <5>1. steady'[st] = (steady[st] \/ PackIndex[st] = 0)
          BY <1>1, Zenon
        <5> QED
          BY <2>1, <3>1, <4>1, <5>1
      <4>2. CASE t # st
        BY <1>1, <2>1, <4>2, Zenon
      <4> QED
        BY <4>1, <4>2
    <3> QED
      BY <2>1, <3>2 DEF UniformInv, SteadyOK
  <2>2. \A t \in Streams : Want(t)' = Want(t)
    BY <1>1, Zenon DEF Want
  <2> QED
    BY <1>1, <2>1, <2>2, Zenon DEF SteadyOK
<1>5. FrameSteady'
  BY <1>1, Zenon DEF UniformInv, FrameSteady
<1> QED
  BY <1>2, <1>3, <1>4, <1>5 DEF UniformInv

LEMMA UniformCompare ==
    ASSUME UniformInv, TypeInv, Compare
    PROVE  UniformInv'
<1>1. /\ npc \in Settings
      /\ UNCHANGED <<pending, packet, PackIndex, resAll, frame, steady, NB_Param>>
      /\ npc' = IF NB_Param[packet.stream][npc] = packet[npc] THEN After[npc] ELSE "wait"
  BY SMT DEF Compare, After, Settings, swVars
<1>2. PlainOK' /\ FrameSteady' /\ SteadyOK'
  BY <1>1, Zenon DEF UniformInv, PlainOK, Plain, FrameSteady, SteadyOK, Want
<1>3. FilterOK'
  <2> SUFFICES ASSUME NEW ch \in Channels, packet.stream = ch, steady[ch],
                      NEW f \in Compared(npc')
               PROVE  packet[f] = NB_Param[ch][f]
    BY <1>1, Zenon DEF FilterOK
  <2>1. NB_Param[ch][npc] = packet[npc] /\ npc' = After[npc]
    BY <1>1, SMT DEF Compared
  <2>2. f = npc \/ f \in Compared(npc)
    BY <1>1, <2>1, SMT DEF Compared, Settings, After
  <2> QED
    BY <2>1, <2>2, Zenon DEF UniformInv, FilterOK
<1> QED
  BY <1>2, <1>3 DEF UniformInv

LEMMA UniformStep == TypeInv /\ RunInv /\ UniformInv /\ [Next]_vars => UniformInv'
<1> SUFFICES ASSUME TypeInv, RunInv, UniformInv, [Next]_vars PROVE UniformInv'
  OBVIOUS
<1>1. ASSUME NEW s \in Sessions, Session(s) PROVE UniformInv'
  BY <1>1, SessionSteady, UniformSession
<1>2. ASSUME Produce PROVE UniformInv'
  <2>1. PlainOK'
    <3>1. PICK st \in Streams : pending' = Append(pending,
            IF st = Pulse
            THEN [NoPacket EXCEPT !.num = packets']
            ELSE [stream |-> st, DDS |-> device[st].DDS, CIC |-> device[st].CIC,
                  Demod |-> device[st].Demod, num |-> packets'])
      BY <1>2 DEF Produce
    <3>2. PICK p : pending' = Append(pending, p) /\ Plain(p)
      <4>1. CASE st = Pulse
        <5>1. Plain([NoPacket EXCEPT !.num = packets'])
          BY SMT DEF Plain, NoPacket
        <5> QED
          BY <3>1, <4>1, <5>1
      <4>2. CASE st # Pulse
        <5>1. Plain([stream |-> st, DDS |-> device[st].DDS, CIC |-> device[st].CIC,
                     Demod |-> device[st].Demod, num |-> packets'])
          BY <4>2, SMT DEF Plain
        <5> QED
          BY <3>1, <4>2, <5>1
      <4> QED
        BY <4>1, <4>2
    <3>3. pending \in Seq(PacketType) /\ packet' = packet
      BY <1>2 DEF TypeInv, DataOK, Produce, dataVars
    <3>4. ASSUME NEW i \in 1 .. Len(pending')
          PROVE  pending'[i] = p \/ (i \in 1 .. Len(pending) /\ pending'[i] = pending[i])
      BY <3>2, <3>3, SMT
    <3> QED
      BY <3>2, <3>3, <3>4, Zenon DEF UniformInv, PlainOK, Plain
  <2>2. UNCHANGED <<dataVars, steady, NB_Param>>
    BY <1>2 DEF Produce, swVars
  <2> QED
    BY <2>1, <2>2, Zenon DEF UniformInv, FilterOK, SteadyOK, Want, FrameSteady, dataVars
<1>3. ASSUME ToPulseData \/ ToWaveData PROVE UniformInv'
  <2>1. PICK st \in Streams : st = packet.stream
    BY SMT DEF TypeInv, DataOK, PacketType
  <2>2. /\ Collect /\ npc = "keep" /\ npc' \in {"wait", "Frequency"}
        /\ UNCHANGED <<pending, packet, steady, NB_Param>>
    BY <1>3, SMT DEF ToPulseData, ToWaveData, swVars
  <2>3. Compared(npc') = {} /\ npc' # "keep"
    BY <2>2, SMT DEF Compared
  <2> QED
    BY <2>1, <2>2, <2>3, CollectUniform
<1>4. ASSUME NBDataReplay PROVE UniformInv'
  <2>1. frame'.data = frame.data /\ frame'.steady = frame.steady
    BY <1>4, ReplayFrame DEF RunInv
  <2>2. UNCHANGED <<pending, packet, PackIndex, resAll, steady, NB_Param>>
    BY <1>4 DEF NBDataReplay, swVars
  <2>3. Compared(npc') = {}
    BY <1>4, SMT DEF NBDataReplay, Compared
  <2>4. PlainOK' /\ FilterOK'
    BY <2>2, <2>3, Zenon DEF UniformInv, PlainOK, Plain, FilterOK
  <2>5. SteadyOK' /\ FrameSteady'
    BY <2>1, <2>2, Zenon DEF UniformInv, SteadyOK, Want, FrameSteady
  <2> QED
    BY <2>4, <2>5 DEF UniformInv
<1>5. ASSUME UNCHANGED vars PROVE UniformInv'
  BY <1>5, Zenon DEF vars, swVars, dataVars, UniformInv, PlainOK, Plain, FilterOK, SteadyOK, Want,
     FrameSteady
<1> QED
  BY <1>1, <1>2, <1>3, <1>4, <1>5, UniformTake, UniformCompare DEF Next, DataDealNB

\* If the settings of a channel did not change while a frame of it was collected,
\* all its packets were taken with one setting: none of an older setting that was
\* still on its way got in (DataFilter reads the settings without a lock, one
\* field after the other).
THEOREM SteadyFramesUniform == Spec => []UniformFrame
<1>1. TypeInv /\ RunInv /\ UniformInv => UniformFrame
  <2> SUFFICES ASSUME TypeInv, RunInv, UniformInv, frame.steady = TRUE,
                      NEW i \in 1 .. Len(frame.data), NEW f \in Settings
               PROVE  frame.data[i][f] = frame.data[1][f]
    BY Zenon DEF UniformFrame, Settings
  <2>1. PICK q : \A j \in 1 .. Len(frame.data) : Suits(frame.data[j], q)
    BY Zenon DEF UniformInv, FrameSteady
  <2>2. 1 \in 1 .. Len(frame.data)
    BY SMT DEF RunInv, FrameShape
  <2> QED
    BY <2>1, <2>2, Zenon DEF Suits
<1> QED
  BY <1>1, TypeInit, TypeStep, RunInit, RunStep, UniformInit, UniformStep, PTL DEF Spec

-----------------------------------------------------------------------------
(***************************************************************************)
(* After a complete command that ran alone, software and device agree.     *)
(* While it runs, nobody else is busy, and once the parameter for it has   *)
(* been parsed, a field of the call agrees with the software copy of the   *)
(* channel.                                                                *)
(***************************************************************************)
Seen(s, name) == \E i \in Given(cmd[s], name) : i < pos[s]

\* The frequency has come after the band and the demodulation.
SeenLast(s) ==
    \E i \in Given(cmd[s], "Freq") :
        /\ i < pos[s]
        /\ \A j \in Given(cmd[s], "DDCBW") \cup Given(cmd[s], "DemodType") : j < i

Aim(ch) == m_NBWave[ch].Frequency + Shift(NB_Param[ch].Demod, m_NBWave[ch].BandWidth)

Tuned(ch) == Tunable(Aim(ch)) => NB_Param[ch].DDS = DDSWord(Aim(ch))

Decimated(ch) == NB_Param[ch].CIC = CICOf(m_NBWave[ch].BandWidth)

Steps(s) ==
    /\ Seen(s, "BankNum") => BankNum = local[s].Channel
    /\ Seen(s, "Freq") => local[s].DDS = NB_Param[BankNum].DDS
    /\ Seen(s, "DemodType") => local[s].Demod = NB_Param[BankNum].Demod
    /\ Seen(s, "DDCBW") => Decimated(BankNum) /\ local[s].CIC = Swap(NB_Param[BankNum].CIC)
    /\ SeenLast(s) /\ fpc[s] = "header" => Tuned(BankNum)
    /\ fpc[s] # "header" => /\ AtToken(s, "Freq")
                            /\ m_NBWave[BankNum].Frequency = Token(s).value % ULL
    /\ fpc[s] = "tune" => NB_ZC[s] = BankNum
    /\ sent[s] => device[BankNum] = NB_Param[BankNum]

AloneOK ==
    \A s \in Sessions :
        Busy(s) /\ alone[s] =>
            /\ \A t \in Sessions \ {s} : ~Busy(t)
            /\ sent[s] => pos[s] > Len(cmd[s])
            /\ Complete(cmd[s]) => Steps(s)

\* A command leaves channel ch in peace.
Peace(s, ch) ==
    Busy(s) =>
        /\ Elsewhere(cmd[s], ch)
        /\ local[s].Channel # ch
        /\ Seen(s, "BankNum") => BankNum # ch

SettledOK ==
    /\ \A ch \in settled :
        /\ device[ch] = NB_Param[ch]
        /\ Decimated(ch)
        /\ \A s \in Sessions : Peace(s, ch)
    /\ \A ch \in inOrder : Tuned(ch)

AgreeInv == AloneOK /\ SettledOK

LEMMA AgreeInit == Init => AgreeInv
<1> SUFFICES ASSUME Init PROVE AgreeInv
  OBVIOUS
<1>1. \A s \in Sessions : ~Busy(s)
  BY SMT DEF Init, Busy
<1>2. settled = {} /\ inOrder = {}
  BY DEF Init
<1> QED
  BY <1>1, <1>2, Zenon DEF AgreeInv, AloneOK, SettledOK

\* A token of a complete command is preceded by its bank, and its band is known.
LEMMA CompleteTokens ==
    ASSUME TypeInv, NEW s \in Sessions, NEW n, AtToken(s, n), Complete(cmd[s])
    PROVE  /\ pos[s] \in Given(cmd[s], n)
           /\ n \in {"Freq", "DDCBW", "DemodType"} => Seen(s, "BankNum")
           /\ n = "BankNum" => /\ ~Seen(s, "Freq") /\ ~Seen(s, "DDCBW")
                               /\ ~Seen(s, "DemodType") /\ ~SeenLast(s)
           /\ n = "DDCBW" => Token(s).value \in Bandwidths
<1>1. /\ pos[s] \in 1 .. Len(cmd[s]) /\ cmd[s][pos[s]].name = n
      /\ Len(cmd[s]) \in Nat
  BY TokenType, SMT DEF Token, TypeInv, CommandOK
<1>2. pos[s] \in Given(cmd[s], n)
  BY <1>1 DEF Given
<1>3. \A i \in Given(cmd[s], "BankNum") : \A j \in 1 .. i : cmd[s][j].name \in {"BankNum", "other"}
  BY Zenon DEF Complete
<1>4. ASSUME n \in {"Freq", "DDCBW", "DemodType"} PROVE Seen(s, "BankNum")
  <2>1. PICK i \in Given(cmd[s], "BankNum") : TRUE
    <3>1. Given(cmd[s], "BankNum") # {}
      BY CompleteHasBank
    <3> QED
      BY <3>1
  <2>2. i \in 1 .. Len(cmd[s])
    BY <2>1 DEF Given
  <2>3. pos[s] \notin 1 .. i
    BY <1>1, <1>3, <1>4, <2>1, SMT
  <2>4. i < pos[s]
    BY <1>1, <2>2, <2>3, SMT
  <2> QED
    BY <2>1, <2>4 DEF Seen
<1>5. ASSUME n = "BankNum"
      PROVE  ~Seen(s, "Freq") /\ ~Seen(s, "DDCBW") /\ ~Seen(s, "DemodType") /\ ~SeenLast(s)
  <2>1. ASSUME NEW m \in {"Freq", "DDCBW", "DemodType"}, NEW i \in Given(cmd[s], m), i < pos[s]
        PROVE  FALSE
    <3>1. i \in 1 .. pos[s] /\ cmd[s][i].name = m
      BY <1>1, <2>1, SMT DEF Given
    <3>2. cmd[s][i].name \in {"BankNum", "other"}
      BY <1>2, <1>3, <1>5, <3>1
    <3> QED
      BY <3>1, <3>2
  <2> QED
    BY <2>1, Zenon DEF Seen, SeenLast
<1>6. ASSUME n = "DDCBW" PROVE Token(s).value \in Bandwidths
  <2>1. PICK i \in Given(cmd[s], "DDCBW") : cmd[s][i].value \in Bandwidths
    BY Zenon DEF Complete
  <2>2. Cardinality(Given(cmd[s], "DDCBW")) = 1
    BY DEF Complete
  <2>3. IsFiniteSet(Given(cmd[s], "DDCBW"))
    <3>1. IsFiniteSet(1 .. Len(cmd[s]))
      BY <1>1, FS_Interval
    <3>2. Given(cmd[s], "DDCBW") \subseteq 1 .. Len(cmd[s])
      BY DEF Given
    <3> QED
      BY <3>1, <3>2, FS_Subset
  <2>4. PICK x : Given(cmd[s], "DDCBW") = {x}
    BY <2>2, <2>3, FS_Singleton
  <2>5. pos[s] = i
    BY <1>2, <1>6, <2>1, <2>4
  <2> QED
    BY <2>1, <2>5 DEF Token
<1> QED
  BY <1>2, <1>4, <1>5, <1>6

\* Parsing a token adds its name to the ones seen, and no other.
LEMMA SeenNext ==
    ASSUME TypeInv, NEW s \in Sessions, NEW n, AtToken(s, n), Parsed(s)
    PROVE  /\ \A m : m # n /\ Seen(s, m)' => Seen(s, m)
           /\ n # "Freq" /\ SeenLast(s)' => SeenLast(s)
           /\ n \in {"DDCBW", "DemodType"} => ~SeenLast(s)
<1>1. /\ pos[s] \in 1 .. Len(cmd[s]) /\ cmd[s][pos[s]].name = n
      /\ pos'[s] = pos[s] + 1 /\ cmd' = cmd
  BY TokenType, SMT DEF Token, TypeInv, CommandOK, Parsed, Parsing
<1>2. ASSUME NEW m, m # n, NEW i \in Given(cmd[s], m), i < pos'[s]
      PROVE  i < pos[s]
  <2>1. i \in 1 .. Len(cmd[s]) /\ cmd[s][i].name = m
    BY <1>2 DEF Given
  <2>2. i # pos[s]
    BY <1>1, <1>2, <2>1
  <2> QED
    BY <1>1, <1>2, <2>1, <2>2, SMT
<1>3. \A m : m # n /\ Seen(s, m)' => Seen(s, m)
  BY <1>1, <1>2, Zenon DEF Seen, Given
<1>4. n # "Freq" /\ SeenLast(s)' => SeenLast(s)
  BY <1>1, <1>2, Zenon DEF SeenLast, Given
<1>5. ASSUME n \in {"DDCBW", "DemodType"}, NEW i \in Given(cmd[s], "Freq"), i < pos[s],
             \A j \in Given(cmd[s], "DDCBW") \cup Given(cmd[s], "DemodType") : j < i
      PROVE  FALSE
  <2>1. pos[s] \in Given(cmd[s], n)
    BY <1>1 DEF Given
  <2>2. pos[s] < i /\ i \in Int
    BY <1>5, <2>1, SMT DEF Given
  <2> QED
    BY <1>1, <1>5, <2>2, SMT
<1> QED
  BY <1>3, <1>4, <1>5, Zenon DEF SeenLast

\* A setter of a frequency, a band or a demodulation meets the selected channel.
LEMMA OwnChannel ==
    ASSUME TypeInv, NEW s \in Sessions, Steps(s), Complete(cmd[s]),
           NEW n \in {"Freq", "DDCBW", "DemodType"}, AtToken(s, n)
    PROVE  /\ BankNum \in Channels
           /\ WaveChannels(s) = {BankNum}
           /\ local[s] \in LocalType
           /\ NB_Param[BankNum] \in ParamType
           /\ m_NBWave[BankNum] \in WaveType
<1>1. Seen(s, "BankNum")
  BY CompleteTokens
<1>2. BankNum = local[s].Channel /\ BankNum \in Channels
  BY <1>1, Zenon DEF Steps, TypeInv, SoftwareOK
<1>3. Channels \subseteq Int /\ Junk \notin Int
  BY NarrowBandAssumption, SMT DEF Channels
<1>4. local[s].Channel # Junk
  BY <1>2, <1>3
<1> QED
  BY <1>2, <1>4 DEF WaveChannels, TypeInv, SoftwareOK, CommandOK

\* A sum that the integers hold is not wrapped.
LEMMA NoWrap ==
    ASSUME NEW v \in Int, NEW n \in Int, NEW u \in Nat \ {0}, (v % u) + n \in 0 .. u - 1
    PROVE  (v + n) % u = (v % u) + n
<1> DEFINE r == v % u
           q == v \div u
<1>1. r \in 0 .. u - 1 /\ q \in Int /\ v = u * q + r
  BY SMT
<1> HIDE DEF r, q
<1>2. v + n = u * q + (r + n)
  BY <1>1, SMT
<1>3. r + n \in 0 .. u - 1 /\ r + n \in Int
  BY <1>1 DEF r
<1>4. \A m \in 0 .. u - 1 : (u * q + m) % u = m
  BY <1>1, SMTT(60)
<1> QED
  BY <1>2, <1>3, <1>4 DEF r

\* The first two steps: header and bank are those of the selected channel.
LEMMA StepsMidFreq ==
    ASSUME TypeInv, NEW s \in Sessions, Steps(s), Complete(cmd[s]), ~sent[s],
           SetNBWaveResultFrequency(s) \/ FindWave(s)
    PROVE  Steps(s)'
<1> DEFINE b == BankNum
<1>1. /\ AtToken(s, "Freq") /\ AtToken(s, "Freq")' /\ Token(s)' = Token(s)
      /\ UNCHANGED <<BankNum, NB_Param, cmd, pos, local, sent>>
  BY Zenon DEF SetNBWaveResultFrequency, FindWave, Parsing, swVars, AtToken, Token, Busy
<1>2. b \in Channels /\ WaveChannels(s) = {b} /\ m_NBWave[b] \in WaveType
  BY <1>1, OwnChannel
<1>3. /\ \A m : Seen(s, m)' => Seen(s, m)
      /\ SeenLast(s)' => SeenLast(s)
  BY <1>1, Zenon DEF Seen, SeenLast, Given
<1>4. /\ m_NBWave'[b].BandWidth = m_NBWave[b].BandWidth
      /\ m_NBWave'[b].Frequency = Token(s).value % ULL
      /\ fpc'[s] # "header"
      /\ fpc'[s] = "tune" => NB_ZC'[s] = b
  <2>1. CASE SetNBWaveResultFrequency(s)
    <3> DEFINE v == Token(s).value % ULL
    <3>1. m_NBWave' = [m_NBWave EXCEPT ![b]["Frequency"] = v] /\ fpc' = [fpc EXCEPT ![s] = "find"]
      BY <1>2, <2>1, Zenon DEF SetNBWaveResultFrequency, SetWave
    <3>2. m_NBWave \in [Channels -> WaveType] /\ fpc'[s] = "find"
      BY <3>1, Zenon DEF TypeInv, SoftwareOK, CallOK
    <3> HIDE DEF v, b
    <3>3. m_NBWave'[b].BandWidth = m_NBWave[b].BandWidth /\ m_NBWave'[b].Frequency = v
      BY <1>2, <3>1, <3>2, SMT DEF WaveType
    <3> QED
      BY <3>2, <3>3 DEF v
  <2>2. CASE FindWave(s)
    <3>1. /\ m_NBWave' = m_NBWave /\ fpc[s] = "find"
          /\ fpc' = [fpc EXCEPT ![s] = "tune"] /\ NB_ZC' = [NB_ZC EXCEPT ![s] = b]
      BY <2>2 DEF FindWave, swVars
    <3>2. fpc'[s] = "tune" /\ NB_ZC'[s] = b
      BY <3>1, Zenon DEF TypeInv, CallOK
    <3>3. m_NBWave[b].Frequency = Token(s).value % ULL
      BY <3>1 DEF Steps
    <3> QED
      BY <3>1, <3>2, <3>3
  <2> QED
    BY <2>1, <2>2
<1>5. Decimated(b) => Decimated(BankNum)'
  BY <1>1, <1>4 DEF Decimated
<1>6. /\ Seen(s, "BankNum")' => BankNum' = local'[s].Channel
      /\ Seen(s, "Freq")' => local'[s].DDS = NB_Param'[BankNum'].DDS
      /\ Seen(s, "DemodType")' => local'[s].Demod = NB_Param'[BankNum'].Demod
      /\ Seen(s, "DDCBW")' => Decimated(BankNum)' /\ local'[s].CIC = Swap(NB_Param'[BankNum'].CIC)
      /\ ~sent'[s]
  BY <1>1, <1>3, <1>5, Zenon DEF Steps
<1>7. m_NBWave'[BankNum'].Frequency = Token(s)'.value % ULL /\ (fpc'[s] = "tune" => NB_ZC'[s] = BankNum')
  BY <1>1, <1>4
<1> QED
  BY <1>1, <1>4, <1>6, <1>7, Zenon DEF Steps

LEMMA StepsFreq ==
    ASSUME TypeInv, NEW s \in Sessions, Steps(s), Complete(cmd[s]), SetFreq(s), ~sent[s]
    PROVE  Steps(s)'
<1> DEFINE b == BankNum
           shift == Shift(NB_Param[b].Demod, m_NBWave[b].BandWidth)
           freq == (Token(s).value + shift) % ULL
<1>1. /\ AtToken(s, "Freq") /\ Parsed(s) /\ BankNum' = b /\ m_NBWave' = m_NBWave
      /\ fpc[s] = "tune" /\ NB_ZC[s] = b
      /\ m_NBWave[b].Frequency = Token(s).value % ULL
  BY DEF SetFreq, Steps
<1>2. PICK dds \in ToUInt(DDSWord(freq)) :
          /\ NB_Param' = [NB_Param EXCEPT ![b]["DDS"] = dds]
          /\ local' = [local EXCEPT ![s].DDS = dds]
  BY <1>1 DEF SetFreq, SetParam
<1>3. /\ b \in Channels
      /\ local[s] \in LocalType /\ NB_Param[b] \in ParamType /\ m_NBWave[b] \in WaveType
  BY <1>1, OwnChannel
<1>4. /\ NB_Param \in [Channels -> ParamType] /\ local \in [Sessions -> LocalType]
      /\ fpc \in [Sessions -> {"header", "find", "tune"}]
  BY DEF TypeInv, SoftwareOK, CommandOK, CallOK
<1>5. Tunable(m_NBWave[b].Frequency + shift) => dds = DDSWord(m_NBWave[b].Frequency + shift)
  <2> SUFFICES ASSUME Tunable(m_NBWave[b].Frequency + shift)
               PROVE  dds = DDSWord(m_NBWave[b].Frequency + shift)
    OBVIOUS
  <2>1. NB_Param[b].Demod \in Int /\ m_NBWave[b].BandWidth \in Bandwidths
    BY <1>3, SMT DEF ParamType, WaveType, Demods
  <2>2. shift \in Int
    BY <2>1, ShiftType
  <2>3. Token(s).value \in Int
    BY <1>1, TokenType
  <2> HIDE DEF shift
  <2>4. freq = m_NBWave[b].Frequency + shift
    BY <1>1, <2>2, <2>3, NoWrap, NarrowBandAssumption DEF Tunable
  <2> HIDE DEF freq
  <2>5. ToUInt(DDSWord(freq)) = {DDSWord(freq)}
    BY <2>4 DEF Tunable, ToUInt
  <2> QED
    BY <2>4, <2>5
<1> HIDE DEF freq
<1>6. /\ NB_Param'[b].DDS = dds /\ NB_Param'[b].CIC = NB_Param[b].CIC
      /\ NB_Param'[b].Demod = NB_Param[b].Demod
  <2> HIDE DEF b
  <2> QED
    BY <1>2, <1>3, <1>4, SMT DEF ParamType
<1>7. /\ local'[s].DDS = dds /\ local'[s].CIC = local[s].CIC
      /\ local'[s].Demod = local[s].Demod /\ local'[s].Channel = local[s].Channel
  <2> HIDE DEF b
  <2> QED
    BY <1>2, <1>3, <1>4, SMT DEF LocalType
<1>8. sent' = sent /\ fpc'[s] = "header" /\ \A m : m # "Freq" /\ Seen(s, m)' => Seen(s, m)
  BY <1>1, <1>4, SeenNext DEF Parsed, Parsing
<1>9. Tuned(BankNum)'
  <2>1. Aim(BankNum)' = m_NBWave[b].Frequency + shift
    BY <1>1, <1>6 DEF Aim
  <2>2. Tunable(Aim(BankNum)') => NB_Param'[BankNum'].DDS = DDSWord(Aim(BankNum)')
    BY <1>1, <1>5, <1>6, <2>1
  <2> QED
    BY <2>2, Zenon DEF Tuned
<1>10. Decimated(b) => Decimated(BankNum)'
  BY <1>1, <1>6 DEF Decimated
<1>11. Seen(s, "BankNum")' => BankNum' = local'[s].Channel
  BY <1>1, <1>7, <1>8, Zenon DEF Steps
<1>12. Seen(s, "DemodType")' => local'[s].Demod = NB_Param'[BankNum'].Demod
  BY <1>1, <1>6, <1>7, <1>8, Zenon DEF Steps
<1>13. Seen(s, "DDCBW")' => Decimated(BankNum)' /\ local'[s].CIC = Swap(NB_Param'[BankNum'].CIC)
  BY <1>1, <1>6, <1>7, <1>8, <1>10, Zenon DEF Steps
<1>14. local'[s].DDS = NB_Param'[BankNum'].DDS
  BY <1>1, <1>6, <1>7
<1>15. ~sent'[s]
  BY <1>8
<1>16. fpc'[s] # "tune"
  BY <1>8
<1> QED
  BY <1>8, <1>9, <1>11, <1>12, <1>13, <1>14, <1>15, <1>16, Zenon DEF Steps

LEMMA ParsedHeader ==
    ASSUME TypeInv, NEW s \in Sessions, Parsed(s)
    PROVE  fpc'[s] = "header" /\ fpc'[s] # "tune"
  BY SMT DEF TypeInv, CallOK, Parsed

LEMMA StepsBand ==
    ASSUME TypeInv, NEW s \in Sessions, Steps(s), Complete(cmd[s]), SetDDCBW(s), ~sent[s]
    PROVE  Steps(s)'
<1> DEFINE b == BankNum
           bw == Token(s).value
<1>1. AtToken(s, "DDCBW") /\ bw \in Bandwidths
  BY CompleteTokens DEF SetDDCBW
<1>2. /\ Parsed(s) /\ BankNum' = b
      /\ SetWave(s, "BandWidth", bw)
      /\ NB_Param' = [NB_Param EXCEPT ![b]["CIC"] = CICOf(bw)]
      /\ local' = [local EXCEPT ![s].CIC = SwapField(CICOf(bw))]
  BY <1>1, Zenon DEF SetDDCBW, SetParam
<1>3. /\ b \in Channels /\ WaveChannels(s) = {b}
      /\ local[s] \in LocalType /\ NB_Param[b] \in ParamType /\ m_NBWave[b] \in WaveType
  BY <1>1, OwnChannel
<1>4. m_NBWave' = [m_NBWave EXCEPT ![b]["BandWidth"] = bw]
  BY <1>2, <1>3, Zenon DEF SetWave
<1>5. /\ NB_Param \in [Channels -> ParamType] /\ m_NBWave \in [Channels -> WaveType]
      /\ local \in [Sessions -> LocalType]
  BY DEF TypeInv, SoftwareOK, CommandOK
<1>6. SwapField(CICOf(bw)) = Swap(CICOf(bw))
  <2>1. CICOf(bw) \in Int
    BY <1>1, CICType
  <2> QED
    BY <2>1, NarrowBandAssumption, Zenon DEF SwapField
<1> HIDE DEF bw, b
<1>7. /\ NB_Param'[b].CIC = CICOf(bw) /\ NB_Param'[b].DDS = NB_Param[b].DDS
      /\ NB_Param'[b].Demod = NB_Param[b].Demod
  BY <1>2, <1>3, <1>5, SMT DEF ParamType
<1>8. m_NBWave'[b].BandWidth = bw
  BY <1>3, <1>4, <1>5, SMT DEF WaveType
<1>9. /\ local'[s].CIC = SwapField(CICOf(bw)) /\ local'[s].DDS = local[s].DDS
      /\ local'[s].Demod = local[s].Demod /\ local'[s].Channel = local[s].Channel
  BY <1>2, <1>3, <1>5, SMT DEF LocalType
<1>10. /\ sent' = sent /\ ~SeenLast(s)'
       /\ \A m : m # "DDCBW" /\ Seen(s, m)' => Seen(s, m)
  <2>1. /\ \A m : m # "DDCBW" /\ Seen(s, m)' => Seen(s, m)
        /\ "DDCBW" # "Freq" /\ SeenLast(s)' => SeenLast(s)
        /\ "DDCBW" \in {"DDCBW", "DemodType"} => ~SeenLast(s)
    BY <1>1, <1>2, SeenNext, Zenon
  <2>2. "DDCBW" # "Freq" /\ "DDCBW" \in {"DDCBW", "DemodType"} /\ sent' = sent
    BY <1>1, <1>2 DEF Parsed, Parsing
  <2> QED
    BY <2>1, <2>2, Zenon
<1>11. Decimated(BankNum)'
  BY <1>2, <1>7, <1>8 DEF Decimated
<1>12. Seen(s, "BankNum")' => BankNum' = local'[s].Channel
  BY <1>2, <1>9, <1>10, Zenon DEF Steps, b
<1>13. Seen(s, "DemodType")' => local'[s].Demod = NB_Param'[BankNum'].Demod
  BY <1>2, <1>7, <1>9, <1>10, Zenon DEF Steps, b
<1>14. Seen(s, "Freq")' => local'[s].DDS = NB_Param'[BankNum'].DDS
  BY <1>2, <1>7, <1>9, <1>10, Zenon DEF Steps, b
<1>15. local'[s].CIC = Swap(NB_Param'[BankNum'].CIC)
  BY <1>2, <1>6, <1>7, <1>9
<1>16. ~sent'[s]
  BY <1>10
<1>17. fpc'[s] = "header" /\ fpc'[s] # "tune"
  BY <1>2, ParsedHeader
<1> QED
  BY <1>10, <1>11, <1>12, <1>13, <1>14, <1>15, <1>16, <1>17, Zenon DEF Steps

LEMMA StepsDemod ==
    ASSUME TypeInv, NEW s \in Sessions, Steps(s), Complete(cmd[s]), SetDemodType(s), ~sent[s]
    PROVE  Steps(s)'
<1> DEFINE b == BankNum
           demod == Token(s).value % 256
<1>1. /\ AtToken(s, "DemodType") /\ Parsed(s) /\ BankNum' = b /\ m_NBWave' = m_NBWave
      /\ NB_Param' = [NB_Param EXCEPT ![b]["Demod"] = demod]
      /\ local' = [local EXCEPT ![s].Demod = demod]
  BY DEF SetDemodType, SetParam
<1>2. b \in Channels /\ local[s] \in LocalType /\ NB_Param[b] \in ParamType
  BY <1>1, OwnChannel
<1>3. NB_Param \in [Channels -> ParamType] /\ local \in [Sessions -> LocalType]
  BY DEF TypeInv, SoftwareOK, CommandOK
<1> HIDE DEF demod, b
<1>4. /\ NB_Param'[b].Demod = demod /\ NB_Param'[b].DDS = NB_Param[b].DDS
      /\ NB_Param'[b].CIC = NB_Param[b].CIC
  BY <1>1, <1>2, <1>3, SMT DEF ParamType
<1>5. /\ local'[s].Demod = demod /\ local'[s].DDS = local[s].DDS
      /\ local'[s].CIC = local[s].CIC /\ local'[s].Channel = local[s].Channel
  BY <1>1, <1>2, <1>3, SMT DEF LocalType
<1>6. /\ sent' = sent /\ ~SeenLast(s)'
      /\ \A m : m # "DemodType" /\ Seen(s, m)' => Seen(s, m)
  <2>1. /\ \A m : m # "DemodType" /\ Seen(s, m)' => Seen(s, m)
        /\ "DemodType" # "Freq" /\ SeenLast(s)' => SeenLast(s)
        /\ "DemodType" \in {"DDCBW", "DemodType"} => ~SeenLast(s)
    BY <1>1, SeenNext, Zenon
  <2>2. "DemodType" # "Freq" /\ "DemodType" \in {"DDCBW", "DemodType"} /\ sent' = sent
    BY <1>1 DEF Parsed, Parsing
  <2> QED
    BY <2>1, <2>2, Zenon
<1>7. Decimated(b) => Decimated(BankNum)'
  BY <1>1, <1>4 DEF Decimated
<1>8. Seen(s, "BankNum")' => BankNum' = local'[s].Channel
  BY <1>1, <1>5, <1>6, Zenon DEF Steps, b
<1>9. local'[s].Demod = NB_Param'[BankNum'].Demod
  BY <1>1, <1>4, <1>5
<1>10. Seen(s, "Freq")' => local'[s].DDS = NB_Param'[BankNum'].DDS
  BY <1>1, <1>4, <1>5, <1>6, Zenon DEF Steps, b
<1>11. Seen(s, "DDCBW")' => Decimated(BankNum)' /\ local'[s].CIC = Swap(NB_Param'[BankNum'].CIC)
  BY <1>1, <1>4, <1>5, <1>6, <1>7, Zenon DEF Steps, b
<1>12. ~sent'[s]
  BY <1>6
<1>13. fpc'[s] = "header" /\ fpc'[s] # "tune"
  BY <1>1, ParsedHeader
<1> QED
  BY <1>6, <1>8, <1>9, <1>10, <1>11, <1>12, <1>13, Zenon DEF Steps

\* Whoever has parsed all of a complete command has seen its parameters.
LEMMA CompleteSeen ==
    ASSUME TypeInv, NEW s \in Sessions, Complete(cmd[s]), pos[s] > Len(cmd[s])
    PROVE  /\ Seen(s, "BankNum") /\ Seen(s, "Freq") /\ Seen(s, "DDCBW") /\ Seen(s, "DemodType")
           /\ InOrder(cmd[s]) => SeenLast(s)
           /\ ~AtToken(s, "Freq")
<1>1. \A m : \A i \in Given(cmd[s], m) : i < pos[s]
  <2>1. pos[s] \in Nat /\ Len(cmd[s]) \in Nat
    BY SMT DEF TypeInv, CommandOK
  <2>2. ASSUME NEW m, NEW i \in Given(cmd[s], m) PROVE i < pos[s]
    <3>1. i \in 1 .. Len(cmd[s])
      BY DEF Given
    <3> QED
      BY <2>1, <3>1, SMT
  <2> QED
    BY <2>2
<1>2. Given(cmd[s], "BankNum") # {}
  BY CompleteHasBank
<1>3. Given(cmd[s], "Freq") # {} /\ Given(cmd[s], "DemodType") # {}
      /\ \E i \in Given(cmd[s], "DDCBW") : TRUE
  BY Zenon DEF Complete
<1> HIDE DEF Given
<1>4. Seen(s, "BankNum") /\ Seen(s, "Freq") /\ Seen(s, "DDCBW") /\ Seen(s, "DemodType")
  BY <1>1, <1>2, <1>3, Zenon DEF Seen
<1>5. InOrder(cmd[s]) => SeenLast(s)
  BY <1>1, Zenon DEF InOrder, SeenLast
<1>6. ~AtToken(s, "Freq")
  BY SMT DEF AtToken, TypeInv, CommandOK
<1> QED
  BY <1>4, <1>5, <1>6

\* The device undoes the swap of the bytes.
LEMMA SwapTwice ==
    ASSUME NEW bw \in Bandwidths
    PROVE  Swap(CICOf(bw)) \in Int /\ Swap(Swap(CICOf(bw))) = CICOf(bw)
  BY SMT DEF Swap, CICOf, Bandwidths

LEMMA StepsWrite ==
    ASSUME TypeInv, NEW s \in Sessions, Steps(s), Complete(cmd[s]), WriteDevice(s)
    PROVE  Steps(s)'
<1> DEFINE b == BankNum
<1>1. /\ pos[s] > Len(cmd[s])
      /\ UNCHANGED <<BankNum, NB_Param, m_NBWave, cmd, pos, local, fpc, NB_ZC>>
      /\ \E ch \in WaveChannels(s) :
          device' = IF ch \in Channels
                    THEN [device EXCEPT ![ch] =
                            [DDS |-> local[s].DDS, Demod |-> local[s].Demod,
                             CIC |-> IF local[s].CIC = Junk THEN Junk
                                                            ELSE Swap(local[s].CIC)]]
                    ELSE device
  BY DEF WriteDevice, swVars
<1>2. /\ Seen(s, "BankNum") /\ Seen(s, "Freq") /\ Seen(s, "DDCBW") /\ Seen(s, "DemodType")
  BY <1>1, CompleteSeen
<1>3. b = local[s].Channel /\ b \in Channels /\ b # Junk
  <2>1. Channels \subseteq Int /\ Junk \notin Int
    BY NarrowBandAssumption, SMT DEF Channels
  <2> QED
    BY <1>2, <2>1, Zenon DEF Steps, TypeInv, SoftwareOK
<1>4. WaveChannels(s) = {b}
  BY <1>3 DEF WaveChannels
<1>5. /\ local[s].DDS = NB_Param[b].DDS /\ local[s].Demod = NB_Param[b].Demod
      /\ local[s].CIC = Swap(NB_Param[b].CIC) /\ NB_Param[b].CIC = CICOf(m_NBWave[b].BandWidth)
  BY <1>2, Zenon DEF Steps, Decimated
<1>6. local[s].CIC # Junk /\ Swap(local[s].CIC) = NB_Param[b].CIC
  <2>1. m_NBWave[b].BandWidth \in Bandwidths
    BY <1>3, SMT DEF TypeInv, SoftwareOK, WaveType
  <2>2. /\ Swap(CICOf(m_NBWave[b].BandWidth)) \in Int
        /\ Swap(Swap(CICOf(m_NBWave[b].BandWidth))) = CICOf(m_NBWave[b].BandWidth)
    BY <2>1, SwapTwice
  <2> QED
    BY <1>5, <2>2, NarrowBandAssumption
<1>7. device' = [device EXCEPT ![b] = [DDS |-> NB_Param[b].DDS, Demod |-> NB_Param[b].Demod,
                                       CIC |-> NB_Param[b].CIC]]
  BY <1>1, <1>3, <1>4, <1>5, <1>6, Zenon
<1>8. device'[b] = NB_Param[b]
  <2>1. NB_Param[b] \in ParamType
    BY <1>3 DEF TypeInv, SoftwareOK
  <2>2. device \in [Channels -> DeviceType]
    BY DEF TypeInv, CommandOK
  <2> HIDE DEF b
  <2>3. device'[b] = [DDS |-> NB_Param[b].DDS, Demod |-> NB_Param[b].Demod, CIC |-> NB_Param[b].CIC]
    BY <1>3, <1>7, <2>2, Zenon
  <2>4. NB_Param[b] = [DDS |-> NB_Param[b].DDS, Demod |-> NB_Param[b].Demod, CIC |-> NB_Param[b].CIC]
    BY <2>1, SMT DEF ParamType
  <2> QED
    BY <2>3, <2>4
<1>9. device'[BankNum'] = NB_Param'[BankNum']
  BY <1>1, <1>8
<1> QED
  BY <1>1, <1>9, Zenon DEF Steps, Seen, SeenLast, Given, Tuned, Aim, Decimated, AtToken, Busy,
     Token

LEMMA StepsOthers ==
    ASSUME TypeInv, NEW s \in Sessions, Steps(s), Complete(cmd[s]), ~sent[s],
           SkipToken(s) \/ SelectBank(s)
    PROVE  Steps(s)'
<1>1. CASE SkipToken(s)
  <2>1. UNCHANGED <<BankNum, NB_Param, m_NBWave, local, sent, device>>
    BY <1>1 DEF SkipToken, swVars, Parsed, Parsing
  <2>2. /\ \A m \in {"BankNum", "Freq", "DDCBW", "DemodType"} : Seen(s, m)' => Seen(s, m)
        /\ SeenLast(s)' => SeenLast(s)
    <3>1. /\ \A m : m # "other" /\ Seen(s, m)' => Seen(s, m)
          /\ "other" # "Freq" /\ SeenLast(s)' => SeenLast(s)
      BY <1>1, SeenNext, Zenon DEF SkipToken
    <3> QED
      BY <3>1
  <2>3. fpc'[s] = "header" /\ fpc'[s] # "tune"
    BY <1>1, ParsedHeader DEF SkipToken
  <2>4. fpc[s] = "header"
    BY <1>1, Zenon DEF SkipToken, Steps, AtToken
  <2> QED
    BY <2>1, <2>2, <2>3, <2>4, Zenon DEF Steps, Tuned, Aim, Decimated
<1>2. CASE SelectBank(s)
  <2>1. AtToken(s, "BankNum") /\ Parsed(s)
    BY <1>2 DEF SelectBank
  <2>2. BankNum' = local'[s].Channel
    BY <1>2, SMT DEF SelectBank, TypeInv, CommandOK, LocalType
  <2>3. ~Seen(s, "Freq")' /\ ~Seen(s, "DDCBW")' /\ ~Seen(s, "DemodType")' /\ ~SeenLast(s)'
    <3>1. /\ \A m : m # "BankNum" /\ Seen(s, m)' => Seen(s, m)
          /\ "BankNum" # "Freq" /\ SeenLast(s)' => SeenLast(s)
      BY <2>1, SeenNext, Zenon
    <3>2. ~Seen(s, "Freq") /\ ~Seen(s, "DDCBW") /\ ~Seen(s, "DemodType") /\ ~SeenLast(s)
      BY <2>1, CompleteTokens, Zenon
    <3> QED
      BY <3>1, <3>2
  <2>4. ~sent'[s]
    BY <2>1 DEF Parsed, Parsing
  <2>5. fpc'[s] = "header" /\ fpc'[s] # "tune"
    BY <2>1, ParsedHeader
  <2> QED
    BY <2>2, <2>3, <2>4, <2>5, Zenon DEF Steps
<1> QED
  BY <1>1, <1>2

\* A session that is busy and alone has just begun, or it was so before and
\* took the step itself; any other session has been idle.
LEMMA AloneSession ==
    ASSUME TypeInv, AgreeInv, NEW s \in Sessions, Session(s)
    PROVE  AloneOK'
<1> SUFFICES ASSUME NEW t \in Sessions, Busy(t)', alone'[t]
             PROVE  /\ \A u \in Sessions \ {t} : ~Busy(u)'
                    /\ sent'[t] => pos'[t] > Len(cmd'[t])
                    /\ Complete(cmd'[t]) => Steps(t)'
  BY Zenon DEF AloneOK
<1>0. cmd \in [Sessions -> Seq(Tokens)]
  BY DEF TypeInv, CommandOK
<1>1. CASE Receive(s)
  <2>1. alone' = [u \in Sessions |-> u = s /\ \A v \in Sessions : ~Busy(v)]
    BY <1>1 DEF Receive
  <2>2. t = s /\ \A v \in Sessions : ~Busy(v)
    BY <2>1, Zenon
  <2>3. \A u \in Sessions \ {s} : cmd'[u] = cmd[u]
    BY <1>0, <1>1, SMT DEF Receive
  <2>4. \A u \in Sessions \ {t} : ~Busy(u)'
    BY <2>2, <2>3, Zenon DEF Busy
  <2>5. pos'[s] = 1 /\ sent'[s] = FALSE /\ fpc'[s] = "header" /\ fpc'[s] # "tune"
    BY <1>1, SMT DEF Receive, TypeInv, CallOK
  <2>6. ~SeenLast(s)' /\ \A m : ~Seen(s, m)'
    <3>1. ASSUME NEW m, NEW i \in Given(cmd'[s], m), i < 1 PROVE FALSE
      <4>1. i \in 1 .. Len(cmd'[s])
        BY <3>1 DEF Given
      <4> QED
        BY <3>1, <4>1, SMT
    <3> QED
      BY <2>5, <3>1, Zenon DEF SeenLast, Seen, Given
  <2> QED
    BY <2>2, <2>4, <2>5, <2>6, Zenon DEF Steps
<1>2. CASE ~Receive(s)
  <2>1. Busy(s) /\ \A u \in Sessions : alone'[u] => alone[u]
    <3>1. Busy(s) /\ (alone' = alone \/ alone' = [alone EXCEPT ![s] = FALSE])
      BY <1>2, Zenon DEF Session, Parse, SkipToken, SelectBank, RejectBank, SetNBWaveResultFrequency,
         FindWave, SetFreq, SetDDCBW, SetDemodType, ParseThrows, AtToken, Parsed, Parsing,
         WriteDevice, WriteThrows, Finish, Abandon, Leave
    <3>2. alone \in [Sessions -> BOOLEAN]
      BY DEF TypeInv, HistoryOK
    <3> QED
      BY <3>1, <3>2, Zenon
  <2>2. \A u \in Sessions : Busy(u)' => Busy(u)
    <3>1. cmd' = cmd \/ cmd' = [cmd EXCEPT ![s] = <<>>]
      BY <1>2, Zenon DEF Session, Parse, SkipToken, SelectBank, RejectBank, SetNBWaveResultFrequency,
         FindWave, SetFreq, SetDDCBW, SetDemodType, ParseThrows, AtToken, Parsed, Parsing,
         WriteDevice, WriteThrows, Finish, Abandon, Leave
    <3>2. CASE cmd' = cmd
      BY <3>2, Zenon DEF Busy
    <3>3. CASE cmd' = [cmd EXCEPT ![s] = <<>>]
      <4>1. \A u \in Sessions : u # s => cmd'[u] = cmd[u]
        BY <1>0, <3>3, SMT
      <4> QED
        BY <2>1, <4>1, Zenon DEF Busy
    <3> QED
      BY <3>1, <3>2, <3>3
  <2>3. Busy(t) /\ alone[t]
    BY <2>1, <2>2
  <2>4. t = s /\ \A u \in Sessions \ {t} : ~Busy(u)
    BY <2>1, <2>3, Zenon DEF AgreeInv, AloneOK
  <2>5. /\ sent[s] => pos[s] > Len(cmd[s])
        /\ Complete(cmd[s]) => Steps(s)
    BY <2>3, <2>4, Zenon DEF AgreeInv, AloneOK
  <2>6. \A u \in Sessions \ {t} : ~Busy(u)'
    BY <2>2, <2>4
  <2>7. ASSUME Leave(s) PROVE FALSE
    <3>1. cmd'[s] = <<>>
      BY <1>0, <2>7, SMT DEF Leave
    <3> QED
      BY <2>4, <3>1, Zenon DEF Busy
  <2>8. CASE WriteDevice(s)
    <3>1. pos'[s] > Len(cmd'[s]) /\ cmd' = cmd
      BY <2>8 DEF WriteDevice
    <3> QED
      BY <2>4, <2>5, <2>6, <2>8, <3>1, StepsWrite, Zenon
  <2>9. CASE \/ SkipToken(s) \/ SelectBank(s) \/ SetFreq(s) \/ SetDDCBW(s) \/ SetDemodType(s)
             \/ SetNBWaveResultFrequency(s) \/ FindWave(s)
    <3>1. cmd' = cmd /\ sent' = sent /\ pos[s] <= Len(cmd[s])
      BY <2>9, Zenon DEF SkipToken, SelectBank, SetNBWaveResultFrequency, FindWave, SetFreq, SetDDCBW,
         SetDemodType, Parsed, Parsing, AtToken
    <3>2. ~sent[s]
      <4>1. pos[s] \in Nat /\ Len(cmd[s]) \in Nat
        BY <1>0, SMT DEF TypeInv, CommandOK
      <4>2. ~(pos[s] > Len(cmd[s]))
        BY <3>1, <4>1, SMT
      <4> QED
        BY <2>5, <4>2
    <3>3. Complete(cmd[s]) => Steps(s)'
      BY <2>5, <2>9, <3>2, StepsOthers, StepsMidFreq, StepsFreq, StepsBand, StepsDemod
    <3> QED
      BY <2>4, <2>6, <3>1, <3>2, <3>3, Zenon
  <2> QED
    BY <1>2, <2>7, <2>8, <2>9 DEF Session, Parse, RejectBank, ParseThrows, WriteThrows, Finish,
       Abandon
<1> QED
  BY <1>1, <1>2

\* What a command does to a channel it leaves in peace.
Untouched(ch) ==
    /\ NB_Param'[ch] = NB_Param[ch]
    /\ m_NBWave'[ch] = m_NBWave[ch]
    /\ device'[ch] = device[ch]
    /\ \A s \in Sessions : Peace(s, ch)'

\* A token that sets something comes after the bank.
LEMMA PeaceToken ==
    ASSUME TypeInv, NEW s \in Sessions, NEW ch \in Channels, Peace(s, ch),
           NEW n \in {"Freq", "DDCBW", "DemodType"}, AtToken(s, n)
    PROVE  BankNum # ch /\ BankNum \in Channels /\ ch \notin WaveChannels(s)
<1>1. Busy(s) /\ Elsewhere(cmd[s], ch) /\ local[s].Channel # ch
  BY DEF AtToken, Peace
<1>2. pos[s] \in 1 .. Len(cmd[s]) /\ cmd[s][pos[s]].name \notin {"BankNum", "other"}
  BY TokenType, SMT DEF Token
<1>3. PICK i \in Given(cmd[s], "BankNum") : i < pos[s]
  BY <1>1, <1>2, Zenon DEF Elsewhere
<1>4. local[s].Channel \in Channels /\ BankNum # ch
  BY <1>1, <1>3, Zenon DEF Peace, Seen, TypeInv, BankOK
<1>5. local[s].Channel # Junk
  <2>1. Channels \subseteq Int /\ Junk \notin Int
    BY NarrowBandAssumption, SMT DEF Channels
  <2> QED
    BY <1>4, <2>1
<1> QED
  BY <1>1, <1>4, <1>5 DEF WaveChannels, TypeInv, SoftwareOK

LEMMA PeaceSetParam ==
    ASSUME TypeInv, NEW ch \in Channels, BankNum # ch, BankNum \in Channels, NEW f, NEW v, SetParam(f, v)
    PROVE  NB_Param'[ch] = NB_Param[ch]
<1>1. NB_Param' = [NB_Param EXCEPT ![BankNum][f] = v] /\ NB_Param \in [Channels -> ParamType]
  BY DEF SetParam, TypeInv, SoftwareOK
<1> QED
  BY <1>1, Zenon

LEMMA PeaceSetWave ==
    ASSUME TypeInv, NEW s \in Sessions, NEW ch \in Channels, ch \notin WaveChannels(s),
           NEW f, NEW v, SetWave(s, f, v)
    PROVE  m_NBWave'[ch] = m_NBWave[ch]
<1>1. PICK c \in WaveChannels(s) :
          m_NBWave' = IF c \in Channels THEN [m_NBWave EXCEPT ![c][f] = v] ELSE m_NBWave
  BY DEF SetWave
<1>2. c # ch /\ m_NBWave \in [Channels -> WaveType]
  BY DEF TypeInv, SoftwareOK
<1> QED
  BY <1>1, <1>2, Zenon

\* The other sessions stay, the one that parses keeps its channel.
LEMMA PeaceParsed ==
    ASSUME TypeInv, NEW s \in Sessions, NEW ch \in Channels, \A t \in Sessions : Peace(t, ch),
           NEW n, AtToken(s, n), n # "BankNum",
           Parsed(s) \/ (Parsing /\ pos' = pos),
           BankNum' = BankNum, \A t \in Sessions : local'[t].Channel = local[t].Channel
    PROVE  \A t \in Sessions : Peace(t, ch)'
<1> SUFFICES ASSUME NEW t \in Sessions, Busy(t)'
             PROVE  /\ Elsewhere(cmd'[t], ch) /\ local'[t].Channel # ch
                    /\ Seen(t, "BankNum")' => BankNum' # ch
  BY Zenon DEF Peace
<1>1. cmd' = cmd /\ Busy(t) /\ Peace(t, ch)
  BY Zenon DEF Parsed, Parsing, Busy
<1>2. Elsewhere(cmd'[t], ch) /\ local'[t].Channel # ch
  BY <1>1, Zenon DEF Peace
<1>3. Seen(t, "BankNum")' => Seen(t, "BankNum")
  <2>1. CASE Parsed(s) /\ t = s
    BY <2>1, SeenNext, Zenon
  <2>2. CASE Parsed(s) /\ t # s
    <3>1. pos'[t] = pos[t]
      BY <2>2, SMT DEF Parsed, TypeInv, CommandOK
    <3> QED
      BY <1>1, <3>1, Zenon DEF Seen, Given
  <2>3. CASE Parsing /\ pos' = pos
    BY <1>1, <2>3, Zenon DEF Seen, Given
  <2> QED
    BY <2>1, <2>2, <2>3
<1> QED
  BY <1>1, <1>2, <1>3, Zenon DEF Peace

LEMMA PeaceSet ==
    ASSUME TypeInv, NEW s \in Sessions, NEW ch \in Channels, \A t \in Sessions : Peace(t, ch),
           SetNBWaveResultFrequency(s) \/ FindWave(s) \/ SetFreq(s) \/ SetDDCBW(s) \/ SetDemodType(s)
    PROVE  Untouched(ch)
<1>1. PICK n \in {"Freq", "DDCBW", "DemodType"} : AtToken(s, n)
  BY Zenon DEF SetNBWaveResultFrequency, FindWave, SetFreq, SetDDCBW, SetDemodType
<1>2. BankNum # ch /\ BankNum \in Channels /\ ch \notin WaveChannels(s)
  BY <1>1, PeaceToken
<1>3. (\E f, v : SetParam(f, v)) \/ NB_Param' = NB_Param
  BY Zenon DEF SetNBWaveResultFrequency, FindWave, SetFreq, SetDDCBW, SetDemodType, swVars
<1>4. (\E f, v : SetWave(s, f, v)) \/ m_NBWave' = m_NBWave
  BY Zenon DEF SetNBWaveResultFrequency, FindWave, SetFreq, SetDDCBW, SetDemodType, swVars
<1>5. NB_Param'[ch] = NB_Param[ch] /\ m_NBWave'[ch] = m_NBWave[ch]
  BY <1>2, <1>3, <1>4, PeaceSetParam, PeaceSetWave
<1>6. device' = device /\ BankNum' = BankNum /\ (Parsed(s) \/ (Parsing /\ pos' = pos))
  BY Zenon DEF SetNBWaveResultFrequency, FindWave, SetFreq, SetDDCBW, SetDemodType, Parsed, Parsing,
     swVars
<1>7. \A t \in Sessions : local'[t].Channel = local[t].Channel
  <2>1. \/ local' = local
        \/ \E v : local' = [local EXCEPT ![s].DDS = v]
        \/ \E v : local' = [local EXCEPT ![s].CIC = v]
        \/ \E v : local' = [local EXCEPT ![s].Demod = v]
    <3>1. SetDDCBW(s) => \E v : local' = [local EXCEPT ![s].CIC = v]
      BY SMT DEF SetDDCBW
    <3>2. SetFreq(s) => \E v : local' = [local EXCEPT ![s].DDS = v]
      BY Zenon DEF SetFreq
    <3>3. SetDemodType(s) => \E v : local' = [local EXCEPT ![s].Demod = v]
      BY Zenon DEF SetDemodType
    <3>4. SetNBWaveResultFrequency(s) \/ FindWave(s) => local' = local
      BY Zenon DEF SetNBWaveResultFrequency, FindWave
    <3> QED
      BY <3>1, <3>2, <3>3, <3>4
  <2>2. local \in [Sessions -> LocalType]
    BY DEF TypeInv, CommandOK
  <2> QED
    BY <2>1, <2>2, SMT DEF LocalType
<1>8. \A t \in Sessions : Peace(t, ch)'
  BY <1>1, <1>6, <1>7, PeaceParsed
<1> QED
  BY <1>5, <1>6, <1>8 DEF Untouched

LEMMA PeaceSelect ==
    ASSUME TypeInv, NEW s \in Sessions, NEW ch \in Channels, \A t \in Sessions : Peace(t, ch),
           SelectBank(s)
    PROVE  Untouched(ch)
<1> DEFINE b == Token(s).value
<1>1. /\ AtToken(s, "BankNum") /\ Parsed(s) /\ BankNum' = b /\ b \in Channels
      /\ local' = [local EXCEPT ![s].Channel = b] /\ UNCHANGED <<NB_Param, m_NBWave>>
  BY DEF SelectBank
<1>2. pos[s] \in Given(cmd[s], "BankNum") /\ Busy(s)
  BY <1>1, TokenType DEF Given, Token, AtToken
<1>3. b # ch
  BY <1>2, Zenon DEF Peace, Elsewhere, Token
<1> HIDE DEF b
<1>4. \A t \in Sessions : local'[t].Channel # ch \/ ~Busy(t)
  <2>1. local \in [Sessions -> LocalType]
    BY DEF TypeInv, CommandOK
  <2>2. \A t \in Sessions : local'[t].Channel = IF t = s THEN b ELSE local[t].Channel
    BY <1>1, <2>1, SMT DEF LocalType
  <2> QED
    BY <1>3, <2>2, Zenon DEF Peace
<1>5. cmd' = cmd /\ device' = device
  BY <1>1 DEF Parsed, Parsing
<1>6. \A t \in Sessions : Peace(t, ch)'
  BY <1>1, <1>3, <1>4, <1>5, Zenon DEF Peace, Busy
<1> QED
  BY <1>1, <1>5, <1>6 DEF Untouched

LEMMA PeaceWrite ==
    ASSUME TypeInv, NEW s \in Sessions, NEW ch \in Channels, \A t \in Sessions : Peace(t, ch),
           WriteDevice(s)
    PROVE  Untouched(ch)
<1>1. Busy(s) /\ pos[s] > Len(cmd[s]) /\ UNCHANGED <<BankNum, NB_Param, m_NBWave, cmd, pos, local>>
  BY DEF WriteDevice, swVars
<1>2. PICK i \in Given(cmd[s], "BankNum") : TRUE
  BY <1>1, Zenon DEF Peace, Elsewhere
<1>3. i < pos[s]
  BY <1>1, <1>2, SMT DEF Given, TypeInv, CommandOK
<1>4. local[s].Channel \in Channels /\ local[s].Channel # ch
  BY <1>1, <1>3, Zenon DEF Peace, TypeInv, BankOK
<1>5. ch \notin WaveChannels(s)
  <2>1. Channels \subseteq Int /\ Junk \notin Int
    BY NarrowBandAssumption, SMT DEF Channels
  <2> QED
    BY <1>4, <2>1 DEF WaveChannels
<1>6. device'[ch] = device[ch]
  <2>1. \E c \in WaveChannels(s) : \E x :
          device' = IF c \in Channels THEN [device EXCEPT ![c] = x] ELSE device
    BY Zenon DEF WriteDevice
  <2>2. device \in [Channels -> DeviceType]
    BY DEF TypeInv, CommandOK
  <2> QED
    BY <1>5, <2>1, <2>2, Zenon
<1>7. \A t \in Sessions : Peace(t, ch)'
  BY <1>1, Zenon DEF Peace, Busy, Seen, Given
<1> QED
  BY <1>1, <1>6, <1>7 DEF Untouched

LEMMA PeaceSession ==
    ASSUME TypeInv, AgreeInv, NEW s \in Sessions, Session(s),
           NEW ch \in settled, ch \in settled'
    PROVE  Untouched(ch)
<1>1. ch \in Channels /\ \A t \in Sessions : Peace(t, ch)
  BY Zenon DEF AgreeInv, SettledOK, TypeInv, PeaceOK
<1>2. CASE Receive(s)
  <2>1. PICK c \in Commands :
            /\ cmd' = [cmd EXCEPT ![s] = c]
            /\ settled' = settled \cap {d \in Channels : Elsewhere(c, d)}
    BY <1>2, Zenon DEF Receive
  <2>2. Elsewhere(c, ch)
    BY <2>1
  <2>3. UNCHANGED <<pos, local, BankNum, NB_Param, m_NBWave, device>> /\ ~Busy(s)
    BY <1>2 DEF Receive, swVars
  <2>4. \A t \in Sessions : cmd'[t] = IF t = s THEN c ELSE cmd[t]
    BY <2>1, SMT DEF TypeInv, CommandOK
  <2>5. pos[s] = 1 /\ local[s] = Unset
    BY <2>3, Zenon DEF TypeInv, CallOK
  <2>6. local[s].Channel # ch
    <3>1. Channels \subseteq Int /\ Junk \notin Int
      BY NarrowBandAssumption, SMT DEF Channels
    <3> QED
      BY <1>1, <2>5, <3>1, SMT DEF Unset
  <2>7. ~Seen(s, "BankNum")'
    <3>1. ASSUME NEW i \in Given(cmd'[s], "BankNum"), i < 1 PROVE FALSE
      <4>1. i \in 1 .. Len(cmd'[s])
        BY DEF Given
      <4> QED
        BY <3>1, <4>1, SMT
    <3> QED
      BY <2>3, <2>5, <3>1, Zenon DEF Seen, Given
  <2>8. \A t \in Sessions : Peace(t, ch)'
    BY <1>1, <2>2, <2>3, <2>4, <2>6, <2>7, Zenon DEF Peace, Busy, Seen, Given
  <2> QED
    BY <2>3, <2>8 DEF Untouched
<1>3. CASE RejectBank(s) \/ ParseThrows(s) \/ WriteThrows(s) \/ Finish(s)
  <2>1. Leave(s)
    BY <1>3, Zenon DEF RejectBank, ParseThrows, WriteThrows, Finish, Abandon
  <2>2. /\ cmd' = [cmd EXCEPT ![s] = <<>>] /\ pos' = [pos EXCEPT ![s] = 1]
        /\ local' = [local EXCEPT ![s] = Unset]
        /\ UNCHANGED <<BankNum, NB_Param, m_NBWave, device>>
    BY <2>1 DEF Leave, swVars
  <2>3. /\ cmd'[s] = <<>>
        /\ \A t \in Sessions : t # s => cmd'[t] = cmd[t] /\ pos'[t] = pos[t] /\ local'[t] = local[t]
    BY <2>2, Zenon DEF TypeInv, CommandOK
  <2>4. \A t \in Sessions : Peace(t, ch)'
    BY <1>1, <2>2, <2>3, Zenon DEF Peace, Busy, Seen, Given
  <2> QED
    BY <2>2, <2>4 DEF Untouched
<1>4. CASE SkipToken(s)
  <2>1. AtToken(s, "other") /\ Parsed(s) /\ UNCHANGED <<BankNum, NB_Param, m_NBWave, local, device>>
    BY <1>4 DEF SkipToken, swVars, Parsed, Parsing
  <2>2. \A t \in Sessions : Peace(t, ch)'
    BY <1>1, <2>1, PeaceParsed, Zenon
  <2> QED
    BY <2>1, <2>2 DEF Untouched
<1> QED
  BY <1>1, <1>2, <1>3, <1>4, PeaceSet, PeaceSelect, PeaceWrite DEF Session, Parse

\* What holds of a settled channel depends on nothing else.
LEMMA SettledStays ==
    ASSUME NEW ch, Untouched(ch), device[ch] = NB_Param[ch], Decimated(ch)
    PROVE  /\ device'[ch] = NB_Param'[ch] /\ Decimated(ch)'
           /\ \A s \in Sessions : Peace(s, ch)'
           /\ Tuned(ch) => Tuned(ch)'
<1>1. Aim(ch)' = Aim(ch)
  BY DEF Untouched, Aim
<1>2. Tuned(ch)' <=> Tuned(ch)
  BY <1>1, Zenon DEF Untouched, Tuned
<1> QED
  BY <1>2, Zenon DEF Untouched, Decimated

\* The channel of a complete command that ends alone.
LEMMA SettledFinish ==
    ASSUME TypeInv, AgreeInv, NEW s \in Sessions, Finish(s), alone[s], Complete(cmd[s]),
           NEW ch, ch = local[s].Channel
    PROVE  /\ device'[ch] = NB_Param'[ch] /\ Decimated(ch)'
           /\ \A t \in Sessions : Peace(t, ch)'
           /\ InOrder(cmd[s]) => Tuned(ch)'
<1>1. /\ cmd' = [cmd EXCEPT ![s] = <<>>] /\ pos[s] > Len(cmd[s]) /\ sent[s] /\ Busy(s)
      /\ UNCHANGED <<BankNum, NB_Param, m_NBWave, device>>
  BY Zenon DEF Finish, Leave, swVars
<1>2. Steps(s) /\ \A u \in Sessions \ {s} : ~Busy(u)
  BY <1>1, Zenon DEF AgreeInv, AloneOK
<1>3. /\ Seen(s, "BankNum") /\ Seen(s, "DDCBW") /\ (InOrder(cmd[s]) => SeenLast(s))
      /\ ~AtToken(s, "Freq")
  BY <1>1, CompleteSeen
<1>4. /\ BankNum = ch /\ Decimated(ch) /\ device[ch] = NB_Param[ch]
      /\ InOrder(cmd[s]) => Tuned(ch)
  BY <1>1, <1>2, <1>3, Zenon DEF Steps
<1>5. \A u \in Sessions : ~Busy(u)'
  <2>1. \A u \in Sessions : cmd'[u] = IF u = s THEN <<>> ELSE cmd[u]
    BY <1>1, SMT DEF TypeInv, CommandOK
  <2> QED
    BY <1>2, <2>1, Zenon DEF Busy
<1>6. \A u \in Sessions : Peace(u, ch)'
  BY <1>5, Zenon DEF Peace
<1>7. Aim(ch)' = Aim(ch) /\ NB_Param'[ch].DDS = NB_Param[ch].DDS
  BY <1>1 DEF Aim
<1>8. Tuned(ch)' <=> Tuned(ch)
  BY <1>7, Zenon DEF Tuned
<1> QED
  BY <1>1, <1>4, <1>6, <1>8, Zenon DEF Decimated

LEMMA SettledSession ==
    ASSUME TypeInv, AgreeInv, NEW s \in Sessions, Session(s)
    PROVE  SettledOK'
<1> DEFINE new == Finish(s) /\ alone[s] /\ Complete(cmd[s])
<1>1. /\ \A ch \in settled' : ch \in settled \/ (new /\ ch = local[s].Channel)
      /\ \A ch \in inOrder' : ch \in inOrder \/ (new /\ InOrder(cmd[s]) /\ ch = local[s].Channel)
      /\ inOrder' \subseteq settled'
  <2>1. CASE Finish(s)
    BY <2>1, Zenon DEF Finish, TypeInv, PeaceOK
  <2>2. CASE Receive(s)
    BY <2>2, Zenon DEF Receive, TypeInv, PeaceOK
  <2>3. CASE ~Finish(s) /\ ~Receive(s)
    <3>1. settled' = settled /\ inOrder' = inOrder
      BY <2>3, Zenon DEF Session, Parse, SkipToken, SelectBank, RejectBank,
         SetNBWaveResultFrequency, FindWave, SetFreq, SetDDCBW, SetDemodType, ParseThrows, Parsed,
         Parsing, WriteDevice, WriteThrows, Abandon
    <3> QED
      BY <3>1, Zenon DEF TypeInv, PeaceOK
  <2> QED
    BY <2>1, <2>2, <2>3
<1>2. ASSUME NEW ch \in settled', ch \in settled
      PROVE  /\ device'[ch] = NB_Param'[ch] /\ Decimated(ch)'
             /\ \A t \in Sessions : Peace(t, ch)'
             /\ Tuned(ch) => Tuned(ch)'
  <2>1. Untouched(ch)
    BY <1>2, PeaceSession
  <2>2. device[ch] = NB_Param[ch] /\ Decimated(ch)
    BY <1>2, Zenon DEF AgreeInv, SettledOK
  <2> QED
    BY <2>1, <2>2, SettledStays
<1>3. ASSUME NEW ch \in settled', new, ch = local[s].Channel
      PROVE  /\ device'[ch] = NB_Param'[ch] /\ Decimated(ch)'
             /\ \A t \in Sessions : Peace(t, ch)'
             /\ InOrder(cmd[s]) => Tuned(ch)'
  BY <1>3, SettledFinish
<1>4. \A ch \in inOrder : Tuned(ch)
  BY Zenon DEF AgreeInv, SettledOK
<1>5. ASSUME NEW ch \in settled'
      PROVE  device'[ch] = NB_Param'[ch] /\ Decimated(ch)' /\ \A t \in Sessions : Peace(t, ch)'
  BY <1>1, <1>2, <1>3, <1>5, Zenon
<1>6. ASSUME NEW ch \in inOrder' PROVE Tuned(ch)'
  <2>1. ch \in settled'
    BY <1>1, <1>6
  <2>2. CASE ch \in inOrder
    <3>1. ch \in settled /\ Tuned(ch)
      BY <1>4, <2>2 DEF TypeInv, PeaceOK
    <3> QED
      BY <1>2, <2>1, <3>1
  <2>3. CASE new /\ InOrder(cmd[s]) /\ ch = local[s].Channel
    BY <1>3, <2>1, <2>3
  <2> QED
    BY <1>1, <1>6, <2>2, <2>3
<1> QED
  BY <1>5, <1>6, Zenon DEF SettledOK

\* The data thread names the type of the samples in m_NBWave, nothing else.
LEMMA AgreeData ==
    ASSUME TypeInv, AgreeInv, UNCHANGED <<BankNum, NB_Param, cmdVars, device>>,
           \A ch \in Channels : /\ m_NBWave'[ch].Frequency = m_NBWave[ch].Frequency
                                /\ m_NBWave'[ch].BandWidth = m_NBWave[ch].BandWidth
    PROVE  AgreeInv'
<1>1. \A ch \in Channels : (Tuned(ch)' <=> Tuned(ch)) /\ (Decimated(ch)' <=> Decimated(ch))
  <2> SUFFICES ASSUME NEW ch \in Channels
               PROVE  (Tuned(ch)' <=> Tuned(ch)) /\ (Decimated(ch)' <=> Decimated(ch))
    OBVIOUS
  <2>1. Aim(ch)' = Aim(ch)
    BY DEF Aim
  <2>2. Tuned(ch)' <=> Tuned(ch)
    BY <2>1, Zenon DEF Tuned
  <2> QED
    BY <2>2, Zenon DEF Decimated
<1>2. BankNum \in Channels /\ BankNum' = BankNum
  BY DEF TypeInv, SoftwareOK
<1>3. (Tuned(BankNum)' <=> Tuned(BankNum)) /\ (Decimated(BankNum)' <=> Decimated(BankNum))
  <2>1. Aim(BankNum)' = Aim(BankNum) /\ NB_Param'[BankNum'] = NB_Param[BankNum]
    BY <1>2 DEF Aim
  <2>2. Tuned(BankNum)' <=> Tuned(BankNum)
    BY <2>1, Zenon DEF Tuned
  <2>3. m_NBWave'[BankNum'].BandWidth = m_NBWave[BankNum].BandWidth
    BY <1>2
  <2> QED
    BY <2>1, <2>2, <2>3, Zenon DEF Decimated
<1>4. ASSUME NEW s \in Sessions, Steps(s) PROVE Steps(s)'
  <2>1. m_NBWave'[BankNum'].Frequency = m_NBWave[BankNum].Frequency
    BY <1>2
  <2>2. /\ cmd' = cmd /\ pos' = pos /\ local' = local /\ fpc' = fpc /\ NB_ZC' = NB_ZC /\ sent' = sent
        /\ NB_Param' = NB_Param /\ device' = device /\ BankNum' = BankNum
    BY DEF cmdVars
  <2>3. /\ \A m : Seen(s, m)' <=> Seen(s, m)
        /\ SeenLast(s)' <=> SeenLast(s)
        /\ AtToken(s, "Freq")' <=> AtToken(s, "Freq")
        /\ Token(s)' = Token(s)
    BY <2>2, Zenon DEF Seen, SeenLast, AtToken, Busy, Token
  <2> QED
    BY <1>3, <1>4, <2>1, <2>2, <2>3, Zenon DEF Steps
<1>5. AloneOK'
  BY <1>4, Zenon DEF AgreeInv, AloneOK, Busy, cmdVars
<1>6. \A ch \in Channels, s \in Sessions : Peace(s, ch) => Peace(s, ch)'
  BY Zenon DEF Peace, Busy, Seen, Given, cmdVars
<1>7. SettledOK'
  <2>1. /\ settled' = settled /\ inOrder' = inOrder
        /\ settled \subseteq Channels /\ inOrder \subseteq Channels
    BY Zenon DEF cmdVars, TypeInv, PeaceOK
  <2>2. \A ch \in settled : /\ device[ch] = NB_Param[ch] /\ Decimated(ch)
                            /\ \A s \in Sessions : Peace(s, ch)
    BY Zenon DEF AgreeInv, SettledOK
  <2>3. \A ch \in inOrder : Tuned(ch)
    BY Zenon DEF AgreeInv, SettledOK
  <2> QED
    BY <1>1, <1>6, <2>1, <2>2, <2>3, Zenon DEF SettledOK
<1> QED
  BY <1>5, <1>7 DEF AgreeInv

LEMMA AgreeStep == TypeInv /\ AgreeInv /\ [Next]_vars => AgreeInv'
<1> SUFFICES ASSUME TypeInv, AgreeInv, [Next]_vars PROVE AgreeInv'
  OBVIOUS
<1>1. ASSUME NEW s \in Sessions, Session(s) PROVE AgreeInv'
  BY <1>1, AloneSession, SettledSession DEF AgreeInv
<1>2. ASSUME Produce \/ TakePacket \/ Compare \/ ToPulseData \/ NBDataReplay \/ UNCHANGED vars
      PROVE  AgreeInv'
  <2>1. UNCHANGED <<BankNum, NB_Param, m_NBWave, cmdVars, device>>
    BY <1>2, Zenon DEF Produce, TakePacket, Compare, ToPulseData, NBDataReplay, vars, swVars
  <2> QED
    BY <2>1, AgreeData
<1>3. ASSUME ToWaveData PROVE AgreeInv'
  <2>1. UNCHANGED <<BankNum, NB_Param, cmdVars, device>>
    BY <1>3 DEF ToWaveData
  <2>2. \A ch \in Channels : /\ m_NBWave'[ch].Frequency = m_NBWave[ch].Frequency
                             /\ m_NBWave'[ch].BandWidth = m_NBWave[ch].BandWidth
    BY <1>3, SMT DEF ToWaveData, TypeInv, SoftwareOK, WaveType
  <2> QED
    BY <2>1, <2>2, AgreeData
<1> QED
  BY <1>1, <1>2, <1>3 DEF Next, DataDealNB

\* After a complete command that ran alone, and as long as every later one selects
\* another channel before it sets anything, the software expects of the channel
\* what the device delivers, whatever partial, rejected, failed or overlapping
\* commands came before, and although the sessions share one BankNum
\* (SetCmdNBChannel).
THEOREM AgreesAfterCommand == Spec => []AgreeAfterCommand
<1>1. AgreeInv => AgreeAfterCommand
  BY Zenon DEF AgreeInv, SettledOK, AgreeAfterCommand
<1> QED
  BY <1>1, TypeInit, TypeStep, AgreeInit, AgreeStep, PTL DEF Spec

\* If, moreover, the frequency came last, the device is tuned as near as it can be
\* to the frequency and the band that the header names, with the shift of a single
\* side band, if the unsigned integers of the code hold that frequency and its word
\* (SetCmdNBChannel: Freq uses the demodulation and the band of before).
THEOREM TunesAfterCommand == Spec => []TunedAfterCommand
<1>1. TypeInv /\ AgreeInv => TunedAfterCommand
  <2> SUFFICES ASSUME TypeInv, AgreeInv, NEW ch \in inOrder
               PROVE  LET wave  == m_NBWave[ch]
                          aside == wave.BandWidth \div 2 + 300
                          aim   == wave.Frequency + (IF device[ch].Demod = 4 THEN aside ELSE 0)
                                                  - (IF device[ch].Demod = 5 THEN aside ELSE 0)
                      IN
                      /\ device[ch].CIC * wave.BandWidth \in 1200000 - wave.BandWidth .. 1200000
                      /\ Tunable(aim) =>
                          46875 * device[ch].DDS \in 131072 * aim - 23437 .. 131072 * aim + 23437
    BY SMT DEF TunedAfterCommand
  <2>1. ch \in Channels /\ device[ch] = NB_Param[ch] /\ Decimated(ch) /\ Tuned(ch)
    BY Zenon DEF AgreeInv, SettledOK, TypeInv, PeaceOK
  <2> DEFINE wave == m_NBWave[ch]
             bw == wave.BandWidth
             aside == bw \div 2 + 300
             demod == NB_Param[ch].Demod
             aim == wave.Frequency + (IF device[ch].Demod = 4 THEN aside ELSE 0)
                                   - (IF device[ch].Demod = 5 THEN aside ELSE 0)
  <2>2. bw \in Bandwidths /\ wave.Frequency \in Int /\ demod \in 0 .. 255
    BY <2>1, SMT DEF TypeInv, SoftwareOK, WaveType, ParamType, Demods
  <2>3. device[ch].CIC * bw \in 1200000 - bw .. 1200000
    <3>1. device[ch].CIC = CICOf(bw)
      BY <2>1, Zenon DEF Decimated
    <3> HIDE DEF bw
    <3>2. CICOf(bw) * bw \in 1200000 - bw .. 1200000
      BY <2>2, SMT DEF CICOf, Bandwidths
    <3> QED
      BY <3>1, <3>2, SMT
  <2>4. device[ch].Demod = demod /\ device[ch].DDS = NB_Param[ch].DDS
    BY <2>1
  <2>5. aside \in Int
    <3> HIDE DEF bw
    <3>1. bw \div 2 + 300 \in Int
      BY <2>2, SMT DEF Bandwidths
    <3> QED
      BY <3>1
  <2>6. Aim(ch) = aim /\ aim \in Int
    <3>1. Aim(ch) = wave.Frequency
              + (IF demod = 4 THEN aside ELSE IF demod = 5 THEN -aside ELSE 0)
      BY Zenon DEF Aim, Shift
    <3> HIDE DEF aside, demod
    <3>2. aim = wave.Frequency + (IF demod = 4 THEN aside ELSE 0)
                               - (IF demod = 5 THEN aside ELSE 0)
      BY <2>4, Zenon
    <3> HIDE DEF wave, aim
    <3> QED
      BY <2>2, <2>5, <3>1, <3>2, SMT
  <2> HIDE DEF aim
  <2>7. Tunable(aim) => device[ch].DDS = DDSWord(aim)
    <3>1. Tunable(Aim(ch)) => NB_Param[ch].DDS = DDSWord(Aim(ch))
      BY <2>1 DEF Tuned
    <3> QED
      BY <2>4, <2>6, <3>1
  <2>8. 46875 * DDSWord(aim) \in 131072 * aim - 23437 .. 131072 * aim + 23437
    BY <2>6, SMT DEF DDSWord
  <2>9. Tunable(aim) => 46875 * device[ch].DDS \in 131072 * aim - 23437 .. 131072 * aim + 23437
    BY <2>7, <2>8, SMT
  <2> QED
    BY <2>3, <2>9, SMT DEF aim
<1> QED
  BY <1>1, TypeInit, TypeStep, AgreeInit, AgreeStep, PTL DEF Spec

-----------------------------------------------------------------------------
(***************************************************************************)
(* The header of a quiet frame.  A quiet stream is that of a channel in    *)
(* order: the sessions may be busy, but leave it in peace, so its settings *)
(* stay, and the header is copied from parameters that nobody writes.      *)
(***************************************************************************)
QuietOK ==
    \A st \in Streams :
        quiet[st] => st \in inOrder /\ steady[st]

ReplayOK ==
    \A ch \in Channels :
        npc \in {"Frequency", "BandWidth"} /\ packet.stream = ch /\ quiet[ch] =>
            /\ \A i \in 1 .. Len(frame.data) : Suits(frame.data[i], NB_Param[ch])
            /\ m_NBWave[ch].DataType = NB_Param[ch].Demod
            /\ npc = "BandWidth" => frame.header.Frequency = m_NBWave[ch].Frequency

HeaderShape == DOMAIN frame.header = {"Frequency", "BandWidth", "DataType"}

FrameQuiet == frame.quiet = TRUE => HeaderFitsSamples

QuietInv == QuietOK /\ ReplayOK /\ HeaderShape /\ FrameQuiet

LEMMA QuietInit == Init => QuietInv
<1> SUFFICES ASSUME Init PROVE QuietInv
  OBVIOUS
<1>1. QuietOK
  <2>1. quiet = [st \in Streams |-> FALSE]
    BY DEF Init
  <2> QED
    BY <2>1, Zenon DEF QuietOK
<1>2. npc = "wait" /\ frame = NoFrame
  BY DEF Init
<1>3. ReplayOK
  BY <1>2, SMT DEF ReplayOK
<1>4. HeaderShape /\ frame.quiet = FALSE
  BY <1>2, SMT DEF HeaderShape, NoFrame, NoHeader
<1> QED
  BY <1>1, <1>3, <1>4, Zenon DEF QuietInv, FrameQuiet

\* A settled channel that is left in peace stays steady.
LEMMA SteadySession ==
    ASSUME TypeInv, AgreeInv, NEW s \in Sessions, Session(s),
           NEW ch \in settled, ch \in settled', steady[ch]
    PROVE  steady'[ch]
<1>1. ch \in Channels /\ Peace(s, ch) /\ ch \in Streams
  BY Zenon DEF AgreeInv, SettledOK, TypeInv, PeaceOK, Streams
<1>2. CASE steady' = steady
  BY <1>2
<1>3. CASE \E f, v : SetParam(f, v)
  <2>1. PICK f, v : steady' = [steady EXCEPT ![BankNum] = @ /\ NB_Param[BankNum][f] = v]
    BY <1>3, Zenon DEF SetParam
  <2>2. CASE BankNum # ch
    BY <1>1, <2>1, <2>2, Zenon DEF TypeInv, HistoryOK
  <2>3. CASE BankNum = ch
    <3>1. CASE \E n \in {"Freq", "DDCBW", "DemodType"} : AtToken(s, n)
      BY <1>1, <2>3, <3>1, PeaceToken
    <3>2. CASE ~\E n \in {"Freq", "DDCBW", "DemodType"} : AtToken(s, n)
      <4>1. steady' = steady
        BY <3>2, Zenon DEF Session, Receive, Parse, SkipToken, SelectBank, RejectBank,
           SetNBWaveResultFrequency, FindWave, SetFreq, SetDDCBW, SetDemodType, ParseThrows,
           WriteDevice, WriteThrows, Finish, Abandon, Leave
      <4> QED
        BY <4>1
    <3> QED
      BY <3>1, <3>2
  <2> QED
    BY <2>2, <2>3
<1>4. steady' = steady \/ \E f, v : SetParam(f, v)
  BY Zenon DEF Session, Receive, Parse, SkipToken, SelectBank, RejectBank,
     SetNBWaveResultFrequency, FindWave, SetFreq, SetDDCBW, SetDemodType, ParseThrows,
     WriteDevice, WriteThrows, Finish, Abandon, Leave
<1> QED
  BY <1>2, <1>3, <1>4

LEMMA QuietSession ==
    ASSUME TypeInv, AgreeInv, QuietInv, NEW s \in Sessions, Session(s), PeaceOK'
    PROVE  QuietInv'
<1>1. UNCHANGED dataVars
  BY SessionSteady
<1>2. HeaderShape' /\ FrameQuiet'
  BY <1>1, Zenon DEF QuietInv, HeaderShape, FrameQuiet, HeaderFitsSamples, dataVars
<1>3. \A st \in Streams : quiet'[st] => quiet[st] /\ st \in inOrder'
  <2>1. CASE Receive(s)
    <3>1. PICK c \in Commands :
            /\ inOrder' = inOrder \cap {ch \in Channels : Elsewhere(c, ch)}
            /\ quiet' = [st \in Streams |-> quiet[st] /\ st \in {ch \in Channels : Elsewhere(c, ch)}]
      BY <2>1, Zenon DEF Receive
    <3> QED
      BY <3>1, Zenon DEF QuietInv, QuietOK
  <2>2. CASE ~Receive(s)
    <3>1. quiet' = quiet /\ inOrder \subseteq inOrder'
      <4>1. CASE Finish(s)
        BY <4>1, Zenon DEF Finish, Leave
      <4>2. CASE ~Finish(s)
        BY <2>2, <4>2, Zenon DEF Session, Parse, SkipToken, SelectBank, RejectBank,
           SetNBWaveResultFrequency, FindWave, SetFreq, SetDDCBW, SetDemodType, ParseThrows, Parsed,
           Parsing, WriteDevice, WriteThrows, Abandon, Leave
      <4> QED
        BY <4>1, <4>2
    <3> QED
      BY <3>1, Zenon DEF QuietInv, QuietOK
  <2> QED
    BY <2>1, <2>2
<1>4. \A st \in Streams : quiet'[st] => /\ quiet[st] /\ st \in inOrder' /\ steady'[st]
                                       /\ st \in settled /\ st \in settled'
  <2> SUFFICES ASSUME NEW st \in Streams, quiet'[st]
               PROVE  /\ quiet[st] /\ st \in inOrder' /\ steady'[st]
                      /\ st \in settled /\ st \in settled'
    OBVIOUS
  <2>1. quiet[st] /\ st \in inOrder' /\ st \in inOrder /\ steady[st]
    BY <1>3, Zenon DEF QuietInv, QuietOK
  <2>2. st \in settled /\ st \in settled'
    BY <2>1, Zenon DEF TypeInv, PeaceOK
  <2>3. steady'[st]
    BY <2>1, <2>2, SteadySession
  <2> QED
    BY <2>1, <2>2, <2>3
<1>5. QuietOK'
  BY <1>4, Zenon DEF QuietOK
<1>6. ReplayOK'
  <2> SUFFICES ASSUME NEW ch \in Channels, npc \in {"Frequency", "BandWidth"}, packet.stream = ch,
                      quiet'[ch]
               PROVE  /\ \A i \in 1 .. Len(frame.data) : Suits(frame.data[i], NB_Param'[ch])
                      /\ m_NBWave'[ch].DataType = NB_Param'[ch].Demod
                      /\ npc = "BandWidth" => frame.header.Frequency = m_NBWave'[ch].Frequency
    BY <1>1, Zenon DEF ReplayOK, dataVars
  <2>1. ch \in Streams
    BY DEF Streams
  <2>2. NB_Param'[ch] = NB_Param[ch] /\ m_NBWave'[ch] = m_NBWave[ch] /\ quiet[ch]
    BY <1>4, <2>1, PeaceSession, Zenon DEF Untouched
  <2> QED
    BY <2>2, Zenon DEF QuietInv, ReplayOK
<1> QED
  BY <1>2, <1>5, <1>6 DEF QuietInv

LEMMA QuietTake ==
    ASSUME TypeInv, QuietInv, TakePacket
    PROVE  QuietInv'
<1> PICK st \in Streams : st = Head(pending).stream
  <2>1. Head(pending) \in PacketType
    BY SMT DEF TakePacket, TypeInv, DataOK
  <2> QED
    BY <2>1, SMT DEF PacketType
<1> DEFINE first == PackIndex[st] = 0
<1>1. /\ npc' = IF st = Pulse THEN "keep" ELSE "DDS"
      /\ steady' = [steady EXCEPT ![st] = @ \/ first]
      /\ quiet' = [quiet EXCEPT ![st] = IF first THEN st \in inOrder ELSE @]
      /\ UNCHANGED <<frame, inOrder>>
      /\ steady \in [Streams -> BOOLEAN] /\ quiet \in [Streams -> BOOLEAN]
  BY Zenon DEF TakePacket, TypeInv, HistoryOK, cmdVars
<1>2. QuietOK'
  <2> HIDE DEF first
  <2>1. ASSUME NEW t \in Streams, quiet'[t] PROVE t \in inOrder /\ steady'[t]
    <3>1. CASE t = st /\ first
      BY <1>1, <2>1, <3>1, Zenon
    <3>2. CASE ~(t = st /\ first)
      <4>1. quiet[t] /\ (steady[t] => steady'[t])
        BY <1>1, <2>1, <3>2, Zenon
      <4> QED
        BY <4>1, Zenon DEF QuietInv, QuietOK
    <3> QED
      BY <3>1, <3>2
  <2> QED
    BY <1>1, <2>1, Zenon DEF QuietOK
<1>3. npc' \notin {"Frequency", "BandWidth"}
  BY <1>1
<1> QED
  BY <1>1, <1>2, <1>3, Zenon DEF QuietInv, ReplayOK, HeaderShape, FrameQuiet, HeaderFitsSamples

LEMMA QuietWave ==
    ASSUME TypeInv, RunInv, UniformInv, QuietInv, ToWaveData
    PROVE  QuietInv'
<1> PICK ch \in Channels : ch = packet.stream
  BY DEF ToWaveData
<1> DEFINE full == PackIndex[ch] + 1 = PACKS
<1>1. /\ npc = "keep" /\ Collect
      /\ m_NBWave' = IF full THEN [m_NBWave EXCEPT ![ch].DataType = packet.Demod] ELSE m_NBWave
      /\ npc' = IF full THEN "Frequency" ELSE "wait"
      /\ UNCHANGED <<NB_Param, packet, steady, quiet, inOrder>>
      /\ ch \in Streams /\ ch # Pulse
  BY ZeroIsChannel, Zenon DEF ToWaveData, cmdVars, Streams
<1>2. QuietOK'
  BY <1>1, Zenon DEF QuietInv, QuietOK
<1>3. CASE ~full
  <2>1. frame' = frame
    BY <1>3 DEF ToWaveData, Collect
  <2>2. npc' \notin {"Frequency", "BandWidth"}
    BY <1>1, <1>3
  <2> QED
    BY <1>2, <2>1, <2>2, Zenon DEF QuietInv, ReplayOK, HeaderShape, FrameQuiet, HeaderFitsSamples
<1>4. CASE full
  <2> DEFINE old == IF PackIndex[ch] = 0 THEN <<>> ELSE resAll[ch]
             res == Append(old, packet)
  <2>1. frame' = [NoFrame EXCEPT !.stream = ch, !.data = res, !.steady = steady[ch]]
    BY <1>4 DEF ToWaveData, Collect
  <2>2. frame'.data = res /\ frame'.quiet = FALSE /\ frame'.header = NoHeader
    <3> HIDE DEF res
    <3> QED
      BY <2>1, SMT DEF NoFrame
  <2>3. HeaderShape' /\ FrameQuiet'
    BY <2>2, SMT DEF HeaderShape, FrameQuiet, NoHeader
  <2>4. npc' = "Frequency" /\ m_NBWave'[ch].DataType = packet.Demod
    BY <1>1, <1>4, SMT DEF TypeInv, SoftwareOK, WaveType
  <2>5. steady[ch] => Suits(packet, NB_Param[ch])
    <3>1. Compared(npc) = Settings
      BY <1>1, SMT DEF Compared
    <3> QED
      BY <3>1, Zenon DEF UniformInv, FilterOK, Suits
  <2>6. steady[ch] => \A i \in 1 .. Len(res) : Suits(res[i], NB_Param[ch])
    <3>1. resAll[ch] \in Seq(PacketType) /\ packet \in PacketType /\ PackIndex[ch] \in Nat
      BY <1>1, SMT DEF TypeInv, DataOK
    <3>2. PackIndex[ch] > 0 => Len(resAll[ch]) = PackIndex[ch]
      BY <1>1 DEF RunInv, BufferOK, Holds
    <3>3. old \in Seq(PacketType) /\ Len(old) \in Nat
          /\ \A i \in 1 .. Len(old) : i \in 1 .. PackIndex[ch] /\ old[i] = resAll[ch][i]
      BY <3>1, <3>2, SMT
    <3>4. steady[ch] => \A i \in 1 .. Len(old) : Suits(old[i], NB_Param[ch])
      <4> HIDE DEF old
      <4>1. Want(ch) = NB_Param[ch]
        BY <1>1 DEF Want
      <4> QED
        BY <1>1, <3>3, <4>1, Zenon DEF UniformInv, SteadyOK
    <3> HIDE DEF old
    <3>5. ASSUME NEW i \in 1 .. Len(res)
          PROVE  res[i] = packet \/ (i \in 1 .. Len(old) /\ res[i] = old[i])
      BY <3>1, <3>3, SMT
    <3> HIDE DEF res
    <3> QED
      BY <2>5, <3>4, <3>5, Zenon
  <2>7. quiet[ch] => steady[ch]
    BY <1>1, Zenon DEF QuietInv, QuietOK
  <2> HIDE DEF res, full
  <2>8. quiet[ch] => /\ \A i \in 1 .. Len(res) : Suits(res[i], NB_Param[ch])
                     /\ packet.Demod = NB_Param[ch].Demod
    <3>1. Suits(packet, NB_Param[ch]) => packet.Demod = NB_Param[ch].Demod
      BY DEF Suits, Settings
    <3> QED
      BY <2>5, <2>6, <2>7, <3>1, Zenon
  <2>9. ReplayOK'
    <3> SUFFICES ASSUME NEW c \in Channels, packet'.stream = c, quiet'[c]
                 PROVE  /\ \A i \in 1 .. Len(frame'.data) : Suits(frame'.data[i], NB_Param'[c])
                        /\ m_NBWave'[c].DataType = NB_Param'[c].Demod
                        /\ npc' # "BandWidth"
      BY Zenon DEF ReplayOK
    <3>1. c = ch /\ quiet[ch] /\ NB_Param' = NB_Param
      BY <1>1, Zenon
    <3> QED
      BY <2>2, <2>4, <2>8, <3>1
  <2> QED
    BY <1>2, <2>3, <2>9 DEF QuietInv
<1> QED
  BY <1>3, <1>4

LEMMA QuietReplay ==
    ASSUME TypeInv, RunInv, AgreeInv, QuietInv, NBDataReplay
    PROVE  QuietInv'
<1> PICK ch \in Channels : ch = packet.stream
  BY SMT DEF NBDataReplay, TypeInv, DataOK, Stages
<1> DEFINE wave == m_NBWave[ch]
           param == NB_Param[ch]
<1>1. /\ npc \in {"Frequency", "BandWidth"}
      /\ frame' = [frame EXCEPT !.header = [@ EXCEPT ![npc] = wave[npc],
                                                     !.DataType = wave.DataType],
                                !.quiet = quiet[ch] /\ npc = "BandWidth"]
      /\ npc' = IF npc = "Frequency" THEN "BandWidth" ELSE "wait"
      /\ UNCHANGED <<m_NBWave, NB_Param, packet, steady, quiet, inOrder>>
      /\ ch \in Streams
  BY Zenon DEF NBDataReplay, cmdVars, swVars, Streams
<1>2. QuietOK'
  BY <1>1, Zenon DEF QuietInv, QuietOK
<1>3. frame'.data = frame.data
  BY ReplayFrame DEF RunInv
<1>4. DOMAIN frame = {"stream", "header", "data", "steady", "quiet"}
      /\ DOMAIN frame.header = {"Frequency", "BandWidth", "DataType"}
  BY DEF RunInv, FrameShape, QuietInv, HeaderShape
<1>5. CASE npc = "Frequency"
  <2> DEFINE h == [frame.header EXCEPT !["Frequency"] = wave["Frequency"],
                                       !.DataType = wave.DataType]
             q == quiet[ch] /\ npc = "BandWidth"
  <2>1. frame' = [frame EXCEPT !.header = h, !.quiet = q]
    BY <1>1, <1>4, <1>5, Zenon
  <2>2. q = FALSE
    BY <1>5
  <2> HIDE DEF wave
  <2>3. DOMAIN h = {"Frequency", "BandWidth", "DataType"} /\ h.Frequency = wave.Frequency
    BY <1>4, SMT
  <2> HIDE DEF h, q
  <2>4. frame'.header = h /\ frame'.quiet = q
    BY <1>4, <2>1, SMT
  <2>5. DOMAIN frame'.header = {"Frequency", "BandWidth", "DataType"}
        /\ frame'.header.Frequency = wave.Frequency
    BY <2>3, <2>4
  <2>6. frame'.quiet # TRUE
    BY <2>2, <2>4
  <2>7. ReplayOK'
    <3> SUFFICES ASSUME NEW c \in Channels, packet'.stream = c, quiet'[c]
                 PROVE  /\ \A i \in 1 .. Len(frame'.data) : Suits(frame'.data[i], NB_Param'[c])
                        /\ m_NBWave'[c].DataType = NB_Param'[c].Demod
                        /\ frame'.header.Frequency = m_NBWave'[c].Frequency
      BY Zenon DEF ReplayOK
    <3>1. c = ch /\ quiet[ch] /\ NB_Param' = NB_Param /\ m_NBWave' = m_NBWave
      BY <1>1, Zenon
    <3>2. /\ \A i \in 1 .. Len(frame.data) : Suits(frame.data[i], NB_Param[ch])
          /\ m_NBWave[ch].DataType = NB_Param[ch].Demod
      BY <1>5, <3>1, Zenon DEF QuietInv, ReplayOK
    <3> QED
      BY <1>3, <2>5, <3>1, <3>2 DEF wave
  <2> QED
    BY <1>2, <2>5, <2>6, <2>7, Zenon DEF QuietInv, HeaderShape, FrameQuiet
<1>6. CASE npc = "BandWidth"
  <2> DEFINE h == [frame.header EXCEPT !["BandWidth"] = wave["BandWidth"],
                                       !.DataType = wave.DataType]
             q == quiet[ch] /\ npc = "BandWidth"
  <2>1. frame' = [frame EXCEPT !.header = h, !.quiet = q]
    BY <1>1, <1>4, <1>6, Zenon
  <2>2. q = quiet[ch]
    <3>1. quiet[ch] \in BOOLEAN
      BY <1>1 DEF TypeInv, HistoryOK
    <3> QED
      BY <1>6, <3>1
  <2> HIDE DEF wave
  <2>3. /\ DOMAIN h = {"Frequency", "BandWidth", "DataType"}
        /\ h.BandWidth = wave.BandWidth
        /\ h.DataType = wave.DataType
        /\ h.Frequency = frame.header.Frequency
    BY <1>4, SMT
  <2> HIDE DEF h, q
  <2>4. frame'.header = h /\ frame'.quiet = q
    BY <1>4, <2>1, SMT
  <2>5. /\ DOMAIN frame'.header = {"Frequency", "BandWidth", "DataType"}
        /\ frame'.header.BandWidth = wave.BandWidth
        /\ frame'.header.DataType = wave.DataType
        /\ frame'.header.Frequency = frame.header.Frequency
    BY <2>3, <2>4
  <2>6. frame'.quiet = quiet[ch]
    BY <2>2, <2>4
  <2>7. ReplayOK'
    <3>1. npc' = "wait"
      BY <1>1, <1>6
    <3> QED
      BY <3>1, SMT DEF ReplayOK
  <2>8. ASSUME quiet[ch] PROVE HeaderFitsSamples'
    <3>1. ch \in inOrder /\ ch \in settled
      BY <1>1, <2>8, Zenon DEF QuietInv, QuietOK, TypeInv, PeaceOK
    <3>2. Tuned(ch) /\ Decimated(ch)
      BY <3>1, Zenon DEF AgreeInv, SettledOK
    <3>3. /\ \A i \in 1 .. Len(frame.data) : Suits(frame.data[i], param)
          /\ wave.DataType = param.Demod /\ frame.header.Frequency = wave.Frequency
      BY <1>6, <2>8, Zenon DEF QuietInv, ReplayOK, wave
    <3> SUFFICES ASSUME NEW i \in 1 .. Len(frame'.data)
                 PROVE  /\ LET aim == frame'.header.Frequency
                                    + Shift(frame'.data[i].Demod, frame'.header.BandWidth)
                           IN  Tunable(aim) => frame'.data[i].DDS = DDSWord(aim)
                        /\ frame'.data[i].CIC = CICOf(frame'.header.BandWidth)
                        /\ frame'.data[i].Demod = frame'.header.DataType
      BY Zenon DEF HeaderFitsSamples
    <3> HIDE DEF param
    <3>4. /\ frame'.data[i].DDS = param.DDS /\ frame'.data[i].CIC = param.CIC
          /\ frame'.data[i].Demod = param.Demod
      BY <1>3, <3>3 DEF Suits, Settings
    <3>5. /\ LET aim == wave.Frequency + Shift(param.Demod, wave.BandWidth)
             IN  Tunable(aim) => param.DDS = DDSWord(aim)
          /\ param.CIC = CICOf(wave.BandWidth)
      BY <3>2, Zenon DEF Tuned, Aim, Decimated, param, wave
    <3> QED
      BY <2>5, <3>3, <3>4, <3>5, Zenon
  <2>9. FrameQuiet'
    BY <2>6, <2>8, Zenon DEF FrameQuiet
  <2> QED
    BY <1>2, <2>5, <2>7, <2>9 DEF QuietInv, HeaderShape
<1> QED
  BY <1>1, <1>5, <1>6

LEMMA QuietStep ==
    TypeInv /\ RunInv /\ UniformInv /\ AgreeInv /\ QuietInv /\ [Next]_vars => QuietInv'
<1> SUFFICES ASSUME TypeInv, RunInv, UniformInv, AgreeInv, QuietInv, [Next]_vars
             PROVE  QuietInv'
  OBVIOUS
<1>1. ASSUME NEW s \in Sessions, Session(s) PROVE QuietInv'
  <2>1. PeaceOK'
    BY <1>1, TypeSession DEF TypeInv
  <2> QED
    BY <1>1, <2>1, QuietSession
<1>2. ASSUME Produce \/ UNCHANGED vars PROVE QuietInv'
  <2>1. UNCHANGED <<m_NBWave, NB_Param, npc, packet, frame, steady, quiet, inOrder>>
    BY <1>2, Zenon DEF Produce, vars, swVars, dataVars, cmdVars
  <2> QED
    BY <2>1, Zenon DEF QuietInv, QuietOK, ReplayOK, HeaderShape, FrameQuiet, HeaderFitsSamples
<1>3. ASSUME Compare PROVE QuietInv'
  <2>1. /\ UNCHANGED <<m_NBWave, NB_Param, packet, frame, steady, quiet, inOrder>>
        /\ npc' \notin {"Frequency", "BandWidth"}
    BY <1>3, SMT DEF Compare, After, swVars, cmdVars
  <2> QED
    BY <2>1, Zenon DEF QuietInv, QuietOK, ReplayOK, HeaderShape, FrameQuiet, HeaderFitsSamples
<1>4. ASSUME ToPulseData PROVE QuietInv'
  <2>1. /\ UNCHANGED <<packet, steady, quiet, inOrder>> /\ npc' = "wait"
    BY <1>4, Zenon DEF ToPulseData, swVars, cmdVars
  <2>2. QuietOK' /\ ReplayOK'
    BY <2>1, Zenon DEF QuietInv, QuietOK, ReplayOK
  <2>3. HeaderShape' /\ FrameQuiet'
    <3>1. CASE frame' = frame
      BY <3>1, Zenon DEF QuietInv, HeaderShape, FrameQuiet, HeaderFitsSamples
    <3>2. CASE frame' # frame
      <4>1. PICK st, data, b : frame' = [NoFrame EXCEPT !.stream = st, !.data = data, !.steady = b]
        BY <1>4, <3>2, Zenon DEF ToPulseData, Collect
      <4>2. frame'.quiet = FALSE /\ frame'.header = NoHeader
        BY <4>1, SMT DEF NoFrame
      <4> QED
        BY <4>2, SMT DEF HeaderShape, FrameQuiet, NoHeader
    <3> QED
      BY <3>1, <3>2
  <2> QED
    BY <2>2, <2>3 DEF QuietInv
<1> QED
  BY <1>1, <1>2, <1>3, <1>4, QuietTake, QuietWave, QuietReplay DEF Next, DataDealNB

\* If a channel was set up by a complete command, in order and alone, before a
\* frame of it began, and every command since selects another channel before it
\* sets anything, the header, copied without a lock, says what the samples are, as
\* far as the frequency meant can be tuned to (DataFilter, ToWaveData,
\* NBDataReplay).
THEOREM HeadersFit == Spec => []HeaderFitsSamples
<1>1. QuietInv => HeaderFitsSamples
  <2>1. (frame.quiet = TRUE => HeaderFitsSamples) => HeaderFitsSamples
    BY Zenon DEF HeaderFitsSamples
  <2> QED
    BY <2>1 DEF QuietInv, FrameQuiet
<1> QED
  BY <1>1, TypeInit, TypeStep, RunInit, RunStep, UniformInit, UniformStep, AgreeInit, AgreeStep,
     QuietInit, QuietStep, PTL DEF Spec
=============================================================================
