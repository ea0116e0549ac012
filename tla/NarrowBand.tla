----------------------------- MODULE NarrowBand -----------------------------
(***************************************************************************)
(* The narrow-band channels: sessions that tune them, the device, and      *)
(* DataDealNB, the data thread that filters the packets of all channels    *)
(* and joins PACKS of one channel to a frame.  Packets of pulses are not   *)
(* filtered, and those of all channels make one stream of frames.          *)
(*                                                                         *)
(* A command is a list of tokens.  BankNum selects the channel, but two    *)
(* ways: in a field of the command under construction, local to the call,  *)
(* and in NB_Params.BankNum, one variable for all sessions, which the      *)
(* tokens that follow use to find the software copy NB_Param.  The copy is *)
(* what DataDealNB compares a packet with, field by field and without a    *)
(* lock.  The device learns of a command after the last token.             *)
(*                                                                         *)
(* CIC and Demod are the fields themselves, CIC with its bytes swapped for *)
(* the device.  A DDS word is the one the code computes, with the widths   *)
(* of its integers; it is swapped each time it is sent, and the swap is    *)
(* left out.  PSK, CW and FM_Truncate only reach the device and never      *)
(* return in a packet: they are left out, as are the level fields of AM.   *)
(***************************************************************************)
EXTENDS Integers, Sequences, FiniteSets

CONSTANTS
    Sessions,     \* the read threads that may run SetCmdNBChannel
    Commands,     \* the commands clients send, as sequences of tokens
    NaN,          \* a value that is no number, or too long a one: std::stol,
                  \* std::stoull throw
    Junk,         \* what an uninitialised field, or the device at power-on, holds
    None,         \* no channel
    Pulse,        \* the stream of the pulses
    ULL,          \* values of an unsigned long long, 2^64 in the code
    UINT,         \* values of an unsigned int, 2^32 in the code
    ZC_CH_NUM,    \* channels, 8 in the code
    PACKS,        \* packets of a frame, 8 in the code
    MaxEvents     \* bound: packets the device produces, a command counting as two

\* The parameters a token can name; "other" stands for the rest.
Tokens == [name : {"BankNum", "Freq", "DDCBW", "DemodType", "other"},
           value : Int \cup {NaN}]

ASSUME NarrowBandAssumption ==
    /\ Commands \subseteq Seq(Tokens)
    /\ \A c \in Commands : \A i \in 1 .. Len(c) :
          c[i].name = "Freq" => c[i].value \in 1 - ULL .. ULL - 1 \cup {NaN}
    /\ ULL \in Nat \ {0}
    /\ UINT \in Nat \ {0}
    /\ ZC_CH_NUM \in Nat \ {0}
    /\ PACKS \in Nat \ {0}
    /\ MaxEvents \in Nat
    /\ {None, Pulse} \cap 0 .. ZC_CH_NUM - 1 = {}
    /\ None # Pulse
    /\ Junk \notin Int

Channels == 0 .. ZC_CH_NUM - 1

\* Each has an index and a buffer.
Streams == Channels \cup {Pulse}

\* The values of DDCBW, and the decimation that belongs to each.
Bandwidths == {150, 300, 600, 1500, 2400, 6000, 9000, 15000, 30000, 50000,
               120000, 150000}

CICOf(bw) == 1200000 \div bw

\* The two bytes of a 16-bit field change places.
Swap(n) == (n % 256) * 256 + n \div 256

\* A bug to catch: both side bands are tuned to the same side.
MutantShift(demod, bw) == IF demod \in {4, 5} THEN -(bw \div 2 + 300) ELSE 0

\* Tuning of a single side band (USB 4, LSB 5): half the band and 300 Hz aside.
Shift(demod, bw) ==
    LET aside == bw \div 2 + 300 IN
    IF demod = 4 THEN aside ELSE IF demod = 5 THEN -aside ELSE 0

\* The word of a frequency in Hz, to the nearest: 2^23 * (f / 10^6) / 3.  (What the
\* code's double cannot tell apart of it is left out.)
DDSWord(f) == (131072 * f + 23437) \div 46875

\* It is converted to an unsigned int.  One that does not fit is undefined: its
\* lower bits, zero, or the largest value.
ToUInt(n) == IF n < UINT THEN {n} ELSE {n % UINT, 0, UINT - 1}

VARIABLES
    BankNum,    \* g_Parameter.NB_Params.BankNum, shared by all sessions
    NB_Param,   \* per channel: DDS, CIC, Demod
    m_NBWave,   \* per channel: Frequency, BandWidth and DataType of its
                \* frames' header
    cmd,        \* per session: the command being executed, <<>> if none
    pos,        \* the token to parse next; behind the last: all are parsed
    local,      \* Cmd_DDC of the call: Channel, DDS, CIC, Demod
    fpc,        \* per session: where it is in a Freq token: "header", "find"
                \* NB_ZC, or "tune"
    NB_ZC,      \* per session: the channel whose band gives the shift
    sent,       \* has Cmd_DDC been written to the device
    device,     \* per channel: the parameters the device works with
    pending,    \* packets on their way to the data thread
    npc,        \* where DataDealNB is: "wait", the field it compares next,
                \* "keep", or the field of the header it copies next
    packet,     \* the packet it is at
    PackIndex,  \* per stream: packets collected
    resAll,     \* per stream: the buffer of the frame
    frame,      \* the last frame complete; sent once its header is whole
    commands,   \* commands received
    packets,    \* packets produced
    accepted,   \* history: per stream, the packets that passed the filter
    steady,     \* history: NB_Param of the channel has not changed since the
                \* first packet of the frame in resAll was taken
    quiet,      \* history: since that packet was taken, the channel is in order
    alone,      \* history: no other command overlapped that of the session
    settled,    \* history: the channels set up by a complete command that ran
                \* alone, and left in peace by every command since
    inOrder     \* history: those of them whose command was in order

swVars   == <<BankNum, NB_Param, m_NBWave>>
cmdVars  == <<cmd, pos, local, fpc, NB_ZC, sent, commands, alone, settled, inOrder>>
dataVars == <<npc, packet, PackIndex, resAll, frame, accepted>>
vars == <<swVars, cmdVars, device, pending, dataVars, packets, steady, quiet>>

Unset == [Channel |-> Junk, DDS |-> Junk, CIC |-> Junk, Demod |-> Junk]

NoPacket == [stream |-> Pulse, DDS |-> Junk, CIC |-> Junk, Demod |-> Junk, num |-> 0]

NoHeader == [Frequency |-> Junk, BandWidth |-> Junk, DataType |-> Junk]

NoFrame == [stream |-> None, header |-> NoHeader, data |-> <<>>,
            steady |-> FALSE, quiet |-> FALSE]

Init ==
    /\ BankNum = 0
    /\ NB_Param = [ch \in Channels |-> [DDS |-> 0, CIC |-> 0, Demod |-> 0]]
    /\ m_NBWave = [ch \in Channels |-> [Frequency |-> 15000000, BandWidth |-> 150000,
                                       DataType |-> Junk]]
    /\ cmd = [s \in Sessions |-> <<>>]
    /\ pos = [s \in Sessions |-> 1]
    /\ local = [s \in Sessions |-> Unset]
    /\ fpc = [s \in Sessions |-> "header"]
    /\ NB_ZC = [s \in Sessions |-> 0]
    /\ sent = [s \in Sessions |-> FALSE]
    /\ device = [ch \in Channels |-> [DDS |-> Junk, CIC |-> Junk, Demod |-> Junk]]
    /\ pending = <<>>
    /\ npc = "wait"
    /\ packet = NoPacket
    /\ PackIndex = [st \in Streams |-> 0]
    /\ resAll = [st \in Streams |-> <<>>]
    /\ frame = NoFrame
    /\ commands = 0
    /\ packets = 0
    /\ accepted = [st \in Streams |-> <<>>]
    /\ steady = [st \in Streams |-> TRUE]
    /\ quiet = [st \in Streams |-> FALSE]
    /\ alone = [s \in Sessions |-> FALSE]
    /\ settled = {}
    /\ inOrder = {}

(***************************************************************************)
(* Commands.  A complete one selects its channel first, and sets           *)
(* frequency, band and demodulation, the band once.  It is in order if the *)
(* frequency comes after the other two.  It leaves a channel in peace if   *)
(* it selects another one before it sets anything.                         *)
(***************************************************************************)
Given(c, name) == {i \in 1 .. Len(c) : c[i].name = name}

Complete(c) ==
    /\ Cardinality(Given(c, "BankNum")) = 1
    /\ \A i \in Given(c, "BankNum") : \A j \in 1 .. i : c[j].name \in {"BankNum", "other"}
    /\ Given(c, "Freq") # {}
    /\ Given(c, "DemodType") # {}
    /\ \E i \in Given(c, "DDCBW") : c[i].value \in Bandwidths
    /\ Cardinality(Given(c, "DDCBW")) = 1

InOrder(c) ==
    \E i \in Given(c, "Freq") :
        \A j \in Given(c, "DDCBW") \cup Given(c, "DemodType") : j < i

Elsewhere(c, ch) ==
    /\ Given(c, "BankNum") # {}
    /\ \A i \in Given(c, "BankNum") : c[i].value # ch
    /\ \A j \in 1 .. Len(c) :
          c[j].name \in {"BankNum", "other"} \/ \E i \in Given(c, "BankNum") : i < j

(***************************************************************************)
(* A command, executed by the read thread of its session.                  *)
(***************************************************************************)
Busy(s) == cmd[s] # <<>>

Receive(s) ==
    /\ ~Busy(s)
    /\ 2 * commands + packets <= MaxEvents - 2
    /\ commands' = commands + 1
    /\ alone' = [t \in Sessions |-> t = s /\ \A u \in Sessions : ~Busy(u)]
    /\ \E c \in Commands :
        LET inPeace == {ch \in Channels : Elsewhere(c, ch)} IN
        /\ cmd' = [cmd EXCEPT ![s] = c]
        /\ settled' = settled \cap inPeace
        /\ inOrder' = inOrder \cap inPeace
        /\ quiet' = [st \in Streams |-> quiet[st] /\ st \in inPeace]
    /\ UNCHANGED <<pos, local, fpc, NB_ZC, sent>>
    /\ UNCHANGED <<swVars, device, pending, dataVars, packets, steady>>

\* The command is over, in whichever way, and with it the variables of the call.
Leave(s) ==
    /\ cmd' = [cmd EXCEPT ![s] = <<>>]
    /\ pos' = [pos EXCEPT ![s] = 1]
    /\ local' = [local EXCEPT ![s] = Unset]
    /\ sent' = [sent EXCEPT ![s] = FALSE]
    /\ fpc' = [fpc EXCEPT ![s] = "header"]
    /\ NB_ZC' = [NB_ZC EXCEPT ![s] = 0]
    /\ alone' = [alone EXCEPT ![s] = FALSE]
    /\ UNCHANGED <<commands, quiet>>
    /\ UNCHANGED <<swVars, device, pending, dataVars, packets, steady>>

\* It has not set up its channel as a whole.
Abandon(s) ==
    /\ Leave(s)
    /\ UNCHANGED <<settled, inOrder>>

Token(s) == cmd[s][pos[s]]

AtToken(s, name) ==
    /\ Busy(s)
    /\ pos[s] <= Len(cmd[s])
    /\ Token(s).name = name
    /\ Token(s).value # NaN

\* What no token changes.
Parsing ==
    /\ UNCHANGED <<cmd, sent, commands, alone, settled, inOrder>>
    /\ UNCHANGED <<device, pending, dataVars, packets, quiet>>

Parsed(s) ==
    /\ pos' = [pos EXCEPT ![s] = @ + 1]
    /\ fpc' = [fpc EXCEPT ![s] = "header"]
    /\ NB_ZC' = [NB_ZC EXCEPT ![s] = 0]
    /\ Parsing

\* NB_Param of the selected channel gets value v in field f.
SetParam(f, v) ==
    /\ NB_Param' = [NB_Param EXCEPT ![BankNum][f] = v]
    /\ steady' = [steady EXCEPT ![BankNum] = @ /\ NB_Param[BankNum][f] = v]

\* The setters of m_NBWave take the channel of the call, and ignore one that is
\* out of range.  An uninitialised one may be any.
WaveChannels(s) ==
    IF local[s].Channel = Junk THEN Channels \cup {None} ELSE {local[s].Channel}

SetWave(s, f, v) ==
    \E ch \in WaveChannels(s) :
        m_NBWave' = IF ch \in Channels THEN [m_NBWave EXCEPT ![ch][f] = v]
                                       ELSE m_NBWave

SkipToken(s) ==
    /\ AtToken(s, "other")
    /\ Parsed(s)
    /\ UNCHANGED <<swVars, local, steady>>

\* A bug to catch: the bank of the call is set, the shared one is not.
MutantSelectBank(s) ==
    LET ch == Token(s).value IN
    /\ AtToken(s, "BankNum")
    /\ ch \in Channels
    /\ local' = [local EXCEPT ![s].Channel = ch]
    /\ Parsed(s)
    /\ UNCHANGED <<BankNum, NB_Param, m_NBWave, steady>>

SelectBank(s) ==
    LET ch == Token(s).value IN
    /\ AtToken(s, "BankNum")
    /\ ch \in Channels
    /\ BankNum' = ch
    /\ local' = [local EXCEPT ![s].Channel = ch]
    /\ Parsed(s)
    /\ UNCHANGED <<NB_Param, m_NBWave, steady>>

\* A channel out of range ends the command; nothing is sent to the device.
RejectBank(s) ==
    /\ AtToken(s, "BankNum")
    /\ Token(s).value \notin Channels
    /\ Abandon(s)

\* Freq takes three steps.  The first names the frequency in the header of the
\* channel of the call; std::stoull wraps a negative number.
SetNBWaveResultFrequency(s) ==
    /\ AtToken(s, "Freq")
    /\ fpc[s] = "header"
    /\ SetWave(s, "Frequency", Token(s).value % ULL)
    /\ fpc' = [fpc EXCEPT ![s] = "find"]
    /\ Parsing
    /\ UNCHANGED <<BankNum, NB_Param, pos, local, NB_ZC, steady>>

\* The second finds the band, by the bank all sessions share.
FindWave(s) ==
    /\ AtToken(s, "Freq")
    /\ fpc[s] = "find"
    /\ NB_ZC' = [NB_ZC EXCEPT ![s] = BankNum]
    /\ fpc' = [fpc EXCEPT ![s] = "tune"]
    /\ Parsing
    /\ UNCHANGED <<swVars, pos, local, steady>>

\* The third finds the parameters by that bank, which may be another one by now,
\* shifts the frequency and stores the word.  The shift is that of an unsigned
\* number: below zero it wraps.
SetFreq(s) ==
    LET shift == Shift(NB_Param[BankNum].Demod, m_NBWave[NB_ZC[s]].BandWidth)
        freq  == (Token(s).value + shift) % ULL
    IN
    /\ AtToken(s, "Freq")
    /\ fpc[s] = "tune"
    /\ \E dds \in ToUInt(DDSWord(freq)) :
        /\ SetParam("DDS", dds)
        /\ local' = [local EXCEPT ![s].DDS = dds]
    /\ Parsed(s)
    /\ UNCHANGED <<BankNum, m_NBWave>>

\* The field is swapped in place, whatever it held: with a band the table does
\* not know, that is the value of an earlier DDCBW, or junk.
SwapField(n) == IF n = Junk THEN Junk ELSE Swap(n)

\* A bug to catch: a band the table does not know is stored.
MutantSetDDCBW(s) ==
    LET bw == Token(s).value IN
    /\ AtToken(s, "DDCBW")
    /\ SetParam("CIC", CICOf(bw))
    /\ SetWave(s, "BandWidth", bw)
    /\ local' = [local EXCEPT ![s].CIC = SwapField(CICOf(bw))]
    /\ Parsed(s)
    /\ UNCHANGED BankNum

SetDDCBW(s) ==
    LET bw == Token(s).value IN
    /\ AtToken(s, "DDCBW")
    /\ IF bw \in Bandwidths
       THEN /\ SetParam("CIC", CICOf(bw))
            /\ SetWave(s, "BandWidth", bw)
            /\ local' = [local EXCEPT ![s].CIC = SwapField(CICOf(bw))]
       ELSE /\ local' = [local EXCEPT ![s].CIC = SwapField(@)]
            /\ UNCHANGED <<NB_Param, m_NBWave, steady>>
    /\ Parsed(s)
    /\ UNCHANGED BankNum

\* A number of any size goes to a byte.
SetDemodType(s) ==
    LET demod == Token(s).value % 256 IN
    /\ AtToken(s, "DemodType")
    /\ SetParam("Demod", demod)
    /\ local' = [local EXCEPT ![s].Demod = demod]
    /\ Parsed(s)
    /\ UNCHANGED <<BankNum, m_NBWave>>

\* The conversion of a value throws: what was parsed stays in the software.
ParseThrows(s) ==
    /\ Busy(s)
    /\ pos[s] <= Len(cmd[s])
    /\ Token(s).value = NaN
    /\ Abandon(s)

\* Cmd_DDC, the first of three writes, tunes a channel: the one of the call, or
\* any one, or none, if it has not been set.  The device swaps CIC back.
WriteDevice(s) ==
    /\ Busy(s)
    /\ pos[s] > Len(cmd[s])
    /\ ~sent[s]
    /\ sent' = [sent EXCEPT ![s] = TRUE]
    /\ \E ch \in WaveChannels(s) :
        device' = IF ch \in Channels
                  THEN [device EXCEPT ![ch] =
                          [DDS |-> local[s].DDS, Demod |-> local[s].Demod,
                           CIC |-> IF local[s].CIC = Junk THEN Junk
                                                          ELSE Swap(local[s].CIC)]]
                  ELSE device
    /\ UNCHANGED <<swVars, cmd, pos, local, fpc, NB_ZC, commands, alone, settled, inOrder>>
    /\ UNCHANGED <<pending, dataVars, packets, steady, quiet>>

\* A write to the device throws: the rest of the command is lost.
WriteThrows(s) ==
    /\ Busy(s)
    /\ pos[s] > Len(cmd[s])
    /\ Abandon(s)

Finish(s) ==
    LET whole == alone[s] /\ Complete(cmd[s]) IN
    /\ Busy(s)
    /\ pos[s] > Len(cmd[s])
    /\ sent[s]
    /\ Leave(s)
    /\ settled' = IF whole THEN settled \cup {local[s].Channel} ELSE settled
    /\ inOrder' = IF whole /\ InOrder(cmd[s])
                  THEN inOrder \cup {local[s].Channel} ELSE inOrder

(***************************************************************************)
(* The device sends the packets of its channels, and pulses.  (External:   *)
(* the board.)  A channel has the number the code takes for its index,     *)
(* from 0, although StructData.h counts from 1: the filter drops a number  *)
(* that is no index, and nothing else in src/ says which the board sends.  *)
(* Every packet has a Demod, as the filter compares it in every one, while *)
(* StructData.h describes it for the demodulated data only.                *)
(***************************************************************************)
Produce ==
    /\ 2 * commands + packets < MaxEvents
    /\ packets' = packets + 1
    /\ \E st \in Streams :
        pending' = Append(pending,
            IF st = Pulse
            THEN [NoPacket EXCEPT !.num = packets']
            ELSE [stream |-> st, DDS |-> device[st].DDS, CIC |-> device[st].CIC,
                  Demod |-> device[st].Demod, num |-> packets'])
    /\ UNCHANGED <<swVars, cmdVars, device, dataVars, steady, quiet>>

(***************************************************************************)
(* DataDealNB: the filter, a field at a time, ToWaveData and ToPulseData.  *)
(***************************************************************************)
TakePacket ==
    LET st    == Head(pending).stream
        first == PackIndex[st] = 0
    IN
    /\ npc = "wait"
    /\ pending # <<>>
    /\ packet' = Head(pending)
    /\ pending' = Tail(pending)
    /\ npc' = IF st = Pulse THEN "keep" ELSE "DDS"
    /\ steady' = [steady EXCEPT ![st] = @ \/ first]
    /\ quiet' = [quiet EXCEPT ![st] = IF first THEN st \in inOrder ELSE @]
    /\ UNCHANGED <<swVars, cmdVars, device, packets>>
    /\ UNCHANGED <<PackIndex, resAll, frame, accepted>>

\* A bug to catch: packets of the demodulation before this one pass.
MutantAfter == [DDS |-> "CIC", CIC |-> "keep", Demod |-> "keep"]

After == [DDS |-> "CIC", CIC |-> "Demod", Demod |-> "keep"]

Compare ==
    /\ npc \in DOMAIN After
    /\ npc' = IF NB_Param[packet.stream][npc] = packet[npc] THEN After[npc] ELSE "wait"
    /\ UNCHANGED <<swVars, cmdVars, device, pending, packets, steady, quiet>>
    /\ UNCHANGED <<packet, PackIndex, resAll, frame, accepted>>

\* A bug to catch: one index for all channels, as there is for the pulses.
MutantCollect ==
    LET st    == packet.stream
        res   == Append(IF PackIndex[st] = 0 THEN <<>> ELSE resAll[st], packet)
        full  == PackIndex[st] + 1 = PACKS
    IN
    /\ resAll' = [resAll EXCEPT ![st] = res]
    /\ accepted' = [accepted EXCEPT ![st] = Append(@, packet.num)]
    /\ PackIndex' = [t \in Streams |-> IF full THEN 0 ELSE PackIndex[st] + 1]
    /\ frame' = IF full
                THEN [NoFrame EXCEPT !.stream = st, !.data = res, !.steady = steady[st]]
                ELSE frame

\* The packet goes to its place in the buffer of its stream.
Collect ==
    LET st    == packet.stream
        res   == Append(IF PackIndex[st] = 0 THEN <<>> ELSE resAll[st], packet)
        full  == PackIndex[st] + 1 = PACKS
    IN
    /\ resAll' = [resAll EXCEPT ![st] = res]
    /\ accepted' = [accepted EXCEPT ![st] = Append(@, packet.num)]
    /\ PackIndex' = [PackIndex EXCEPT ![st] = IF full THEN 0 ELSE @ + 1]
    /\ frame' = IF full
                THEN [NoFrame EXCEPT !.stream = st, !.data = res, !.steady = steady[st]]
                ELSE frame

ToPulseData ==
    /\ npc = "keep"
    /\ packet.stream = Pulse
    /\ Collect
    /\ npc' = "wait"
    /\ UNCHANGED <<swVars, cmdVars, device, pending, packets, packet, steady, quiet>>

\* A bug to catch: the type of the samples is named only when it is AM.
MutantToWaveData ==
    LET ch   == packet.stream
        full == PackIndex[ch] + 1 = PACKS
    IN
    /\ npc = "keep"
    /\ ch \in Channels
    /\ Collect
    /\ m_NBWave' = IF full /\ packet.Demod = 1
                   THEN [m_NBWave EXCEPT ![ch].DataType = packet.Demod] ELSE m_NBWave
    /\ npc' = IF full THEN "Frequency" ELSE "wait"
    /\ UNCHANGED <<BankNum, NB_Param, cmdVars, device, pending, packets, packet>>
    /\ UNCHANGED <<steady, quiet>>

\* The last packet of a frame names the type of the samples.
ToWaveData ==
    LET ch   == packet.stream
        full == PackIndex[ch] + 1 = PACKS
    IN
    /\ npc = "keep"
    /\ ch \in Channels
    /\ Collect
    /\ m_NBWave' = IF full THEN [m_NBWave EXCEPT ![ch].DataType = packet.Demod] ELSE m_NBWave
    /\ npc' = IF full THEN "Frequency" ELSE "wait"
    /\ UNCHANGED <<BankNum, NB_Param, cmdVars, device, pending, packets, packet>>
    /\ UNCHANGED <<steady, quiet>>

\* The header is copied without NBWaveMutex: a session may write in between.
NBDataReplay ==
    LET ch == packet.stream
        f  == npc
    IN
    /\ f \in {"Frequency", "BandWidth"}
    /\ frame' = [frame EXCEPT !.header = [@ EXCEPT ![f] = m_NBWave[ch][f],
                                                   !.DataType = m_NBWave[ch].DataType],
                              !.quiet = quiet[ch] /\ f = "BandWidth"]
    /\ npc' = IF f = "Frequency" THEN "BandWidth" ELSE "wait"
    /\ UNCHANGED <<swVars, cmdVars, device, pending, packets, steady, quiet>>
    /\ UNCHANGED <<packet, PackIndex, resAll, accepted>>

Parse(s) ==
    \/ SkipToken(s)
    \/ SelectBank(s)
    \/ RejectBank(s)
    \/ SetNBWaveResultFrequency(s)
    \/ FindWave(s)
    \/ SetFreq(s)
    \/ SetDDCBW(s)
    \/ SetDemodType(s)
    \/ ParseThrows(s)

Session(s) ==
    \/ Receive(s)
    \/ Parse(s)
    \/ WriteDevice(s)
    \/ WriteThrows(s)
    \/ Finish(s)

DataDealNB == TakePacket \/ Compare \/ ToPulseData \/ ToWaveData \/ NBDataReplay

Next ==
    \/ \E s \in Sessions : Session(s)
    \/ Produce
    \/ DataDealNB

Spec == Init /\ [][Next]_vars

-----------------------------------------------------------------------------
(***************************************************************************)
(* Correctness.                                                            *)
(***************************************************************************)
Demods == 0 .. 255

\* The state is well formed: every channel keeps a band and a decimation of the
\* table, whatever is sent, and the index stays below a frame.
TypeOK ==
    /\ BankNum \in Channels
    /\ DOMAIN NB_Param = Channels
    /\ \A ch \in Channels :
        /\ NB_Param[ch].DDS \in 0 .. UINT - 1
        /\ NB_Param[ch].CIC \in {0} \cup {CICOf(bw) : bw \in Bandwidths}
        /\ NB_Param[ch].Demod \in Demods
        /\ m_NBWave[ch].BandWidth \in Bandwidths
    /\ \A s \in Sessions : local[s].Channel \in Channels \cup {Junk}
    /\ fpc \in [Sessions -> {"header", "find", "tune"}]
    /\ NB_ZC \in [Sessions -> Channels]
    /\ npc \in {"wait", "keep", "Frequency", "BandWidth"} \cup DOMAIN After
    /\ packet.stream \in Streams
    /\ PackIndex \in [Streams -> 0 .. PACKS - 1]
    /\ commands \in Nat
    /\ packets \in 0 .. MaxEvents - 2 * commands
    /\ steady \in [Streams -> BOOLEAN]
    /\ quiet \in [Streams -> BOOLEAN]
    /\ alone \in [Sessions -> BOOLEAN]
    /\ inOrder \subseteq settled
    /\ settled \subseteq Channels

\* A frame is a run of PACKS packets of one channel, or of the pulses, all that
\* passed the filter and none twice, however the packets are mixed (ToWaveData,
\* ToPulseData).
FrameIsRun ==
    frame.stream \in Streams =>
        LET passed == accepted[frame.stream]
            last   == (Len(passed) \div PACKS) * PACKS
        IN
        /\ last > 0
        /\ \A i \in 1 .. Len(frame.data) : frame.data[i].stream = frame.stream
        /\ [i \in 1 .. Len(frame.data) |-> frame.data[i].num]
             = SubSeq(passed, last - PACKS + 1, last)

\* If the settings of a channel did not change while a frame of it was
\* collected, all its packets were taken with one and the same setting, although
\* packets of older settings are still on their way and the filter reads the
\* settings without a lock (DataFilter against SetCmdNBChannel).
UniformFrame ==
    frame.steady =>
        \A i \in 1 .. Len(frame.data), f \in {"DDS", "CIC", "Demod"} :
            frame.data[i][f] = frame.data[1][f]

\* A frequency that the integers of the code hold, and the word of which does.
Tunable(freq) == freq \in 0 .. ULL - 1 /\ DDSWord(freq) < UINT

\* If a channel was set up by a complete command, in order and alone, before a
\* frame of it began, and every command since selects another channel before it
\* sets anything, the header says what the samples are, as far as the frequency
\* meant can be tuned to: the sessions may be busy, with one BankNum for all, and
\* packets of older settings had to be told apart (DataFilter, NBDataReplay).  A
\* command for the channel itself is outside: it may change the header while it
\* is copied.
HeaderFitsSamples ==
    frame.quiet =>
        \A i \in 1 .. Len(frame.data) :
            LET p   == frame.data[i]
                h   == frame.header
                aim == h.Frequency + Shift(p.Demod, h.BandWidth)
            IN
            /\ Tunable(aim) => p.DDS = DDSWord(aim)
            /\ p.CIC = CICOf(h.BandWidth)
            /\ p.Demod = h.DataType

\* After a complete command that ran alone, and as long as every later one selects
\* another channel before it sets anything, the software expects of the channel
\* what the device delivers, and packets pass the filter: whatever partial,
\* rejected, failed or overlapping commands came before, and although all the
\* sessions share one BankNum (SetCmdNBChannel).
AgreeAfterCommand == \A ch \in settled : NB_Param[ch] = device[ch]

\* If, moreover, the frequency came last, the device is tuned as near as it can be
\* to the frequency and band that the header of the frames names, with the shift
\* of a single side band, if they can be tuned to at all (SetCmdNBChannel: Freq
\* uses Demod and BandWidth of before, and unsigned integers).
TunedAfterCommand ==
    \A ch \in inOrder :
        LET wave  == m_NBWave[ch]
            aside == wave.BandWidth \div 2 + 300
            aim   == wave.Frequency + (IF device[ch].Demod = 4 THEN aside ELSE 0)
                                    - (IF device[ch].Demod = 5 THEN aside ELSE 0)
        IN
        /\ device[ch].CIC * wave.BandWidth \in 1200000 - wave.BandWidth .. 1200000
        /\ Tunable(aim) =>
            46875 * device[ch].DDS \in 131072 * aim - 23437 .. 131072 * aim + 23437
=============================================================================
