-------------------------- MODULE EmuServerProofs --------------------------
(***************************************************************************)
(* Type correctness of the emulator server for every list of scenes and every *)
(* behaviour of its clients, and from it, for scenes that load and requests    *)
(* that name no more bands than a scene has, that a session never reads pixels *)
(* outside the pixel it is sending.                                          *)
(***************************************************************************)
EXTENDS EmuServerProps, TLAPS

(***************************************************************************)
(* Constants.                                                                *)
(***************************************************************************)
\* The arithmetic of the assumptions.
LEMMA Constants ==
    /\ U8 \in Nat \ {0} /\ U16 \in Nat \ {0} /\ U24 \in Nat \ {0}
    /\ MaxBands \in Nat /\ MaxBands >= 1 /\ MaxBands < U8
    /\ Len(Scenes) \in Nat /\ Len(Scenes) >= 1
    /\ LinePeriod \in Nat /\ TelemetryInterval \in Nat
    /\ SessionIds \in Nat /\ SessionIds > 1
    /\ Backlog \in Nat /\ Backlog >= 1
    /\ BandSlots \subseteq Nat /\ BandSlots \subseteq Byte
    /\ 0 \in BandSlots
<1>0. U8 \in Nat \ {0} /\ U16 \in Nat \ {0} /\ U24 \in Nat \ {0}
  BY DEF U8, U16, U24
<1>1. MaxBands \in Nat /\ MaxBands >= 1 /\ MaxBands < U8
  BY MaxBandsAssumption
<1>2. Len(Scenes) \in Nat /\ Len(Scenes) >= 1
  BY ScenesAssumption
<1>3. LinePeriod \in Nat /\ TelemetryInterval \in Nat
  BY PeriodsAssumption
<1>4. SessionIds \in Nat /\ SessionIds > 1 /\ Backlog \in Nat /\ Backlog >= 1
  BY ServerAssumption
<1>5. BandSlots \subseteq Nat /\ BandSlots \subseteq Byte /\ 0 \in BandSlots
  BY <1>0, <1>1 DEF BandSlots, Byte
<1> QED BY <1>0, <1>1, <1>2, <1>3, <1>4, <1>5

\* A remainder is smaller than its divisor.
LEMMA ModRange ==
    ASSUME NEW a \in Int, NEW m \in Nat \ {0}
    PROVE  a % m \in 0 .. m - 1
  OBVIOUS

\* A 3-byte field holds what is left of the number.
LEMMA U24Range ==
    ASSUME NEW a \in Nat
    PROVE  a % U24 \in 0 .. U24 - 1
<1>1. U24 \in Nat \ {0} /\ a \in Int
  BY Constants
<1> QED BY <1>1, ModRange

\* Metadata, whatever integers it holds, is cut down to the fields' types.
LEMMA LoadedSceneType ==
    ASSUME NEW dir \in Dirs
    PROVE  LoadedScene(dir) \in SceneType /\ LoadedScene(dir).n_bands <= MaxBands
<1>1. DirOK(dir)
  BY ScenesAssumption
<1>2. dir.n_bands % U8 \in Byte /\ dir.width % U16 \in Word /\ dir.n_lines \in Nat
  <2>1. dir.n_bands \in Int /\ dir.width \in Int /\ dir.n_lines \in Nat
    BY <1>1 DEF DirOK
  <2>2. dir.n_bands % U8 \in 0 .. U8 - 1 /\ dir.width % U16 \in 0 .. U16 - 1
    BY <2>1, ModRange, Constants
  <2> QED BY <2>1, <2>2 DEF Byte, Word
<1>3. ASSUME NEW b \in BandSlots
      PROVE  (IF b < Len(dir.wavelengths) THEN dir.wavelengths[b + 1] % U16 ELSE 0) \in Word
  <2>1. CASE b < Len(dir.wavelengths)
    <3>1. b \in Nat /\ Len(dir.wavelengths) \in Nat /\ dir.wavelengths \in Seq(Int)
      BY <1>1, Constants DEF DirOK
    <3>2. dir.wavelengths[b + 1] \in Int
      BY <2>1, <3>1
    <3>3. dir.wavelengths[b + 1] % U16 \in 0 .. U16 - 1
      BY <3>2, ModRange, Constants
    <3> QED BY <2>1, <3>3 DEF Word
  <2>2. CASE ~(b < Len(dir.wavelengths))
    BY <2>2, Constants DEF Word
  <2> QED BY <2>1, <2>2
<1>4. dir.n_bands % U8 <= MaxBands
  BY <1>1 DEF DirOK
<1> QED BY <1>2, <1>3, <1>4 DEF LoadedScene, SceneType

\* The list of scenes wraps around: for a direction that reaches back no further
\* than the list is long, the index stays inside it.
LEMMA AdvancedInRange ==
    ASSUME NEW c \in 0 .. Len(Scenes) - 1, NEW direction \in Int,
           direction >= -Len(Scenes)
    PROVE  Advanced(c, direction, Len(Scenes)) \in 0 .. Len(Scenes) - 1
<1> DEFINE n == Len(Scenes)
           a == c + direction + n
<1>1. n \in Nat /\ n >= 1 /\ a \in Nat
  BY Constants
<1>2. a % n \in 0 .. n - 1
  <2> HIDE DEF a, n
  <2>1. n \in Nat \ {0} /\ a \in Int
    BY <1>1
  <2> QED BY <2>1, ModRange
<1>3. CASE n <= 1
  BY <1>3 DEF Advanced
<1>4. CASE n > 1
  BY <1>1, <1>2, <1>4 DEF Advanced, CRemainder
<1> QED BY <1>1, <1>3, <1>4

(***************************************************************************)
(* Packets.                                                                  *)
(***************************************************************************)
\* The preamble is made of packets, whatever the configuration in force.
LEMMA PreambleType ==
    ASSUME ConfigOK, NEW k \in 1 .. 5
    PROVE  Len(Preamble) = 5 /\ Preamble[k] \in PacketType
<1> DEFINE ws == [m \in 1 .. n_bands |-> band_wavelengths[m - 1]]
<1>1. /\ n_bands \in Nat /\ n_bands <= MaxBands /\ MaxBands \in Nat /\ MaxBands < U8
      /\ U8 \in Nat
  BY Constants DEF ConfigOK
<1>2. ws \in Seq(Word) /\ Len(ws) = n_bands
  <2>1. \A m \in 1 .. n_bands : band_wavelengths[m - 1] \in Word
    BY <1>1 DEF ConfigOK, BandSlots
  <2> QED BY <1>1, <2>1
<1>3. SessionStart(session_id) \in PacketType
  BY Constants DEF ConfigOK, SessionStart, PacketType
<1>4. ImagerInfo \in PacketType /\ TimeSync \in PacketType
  BY DEF ImagerInfo, TimeSync, PacketType
<1>5. ImagerConfig(ws) \in PacketType
  <2> HIDE DEF ws
  <2>1. Len(ws) \in Byte
    BY <1>1, <1>2 DEF Byte
  <2> QED BY <1>2, <2>1 DEF ImagerConfig, PacketType
<1>6. SceneStart(scene.n_lines, scene.width) \in PacketType
  <2>1. scene.n_lines \in Nat /\ scene.width \in Word
    BY DEF ConfigOK, SceneType
  <2>2. scene.n_lines % U24 \in 0 .. U24 - 1
    BY <2>1, U24Range
  <2> QED BY <2>1, <2>2 DEF SceneStart, PacketType
<1>7. Preamble = <<SessionStart(session_id), ImagerInfo, ImagerConfig(ws), TimeSync,
                   SceneStart(scene.n_lines, scene.width)>>
  BY DEF Preamble
<1> HIDE DEF ws
<1> QED BY <1>3, <1>4, <1>5, <1>6, <1>7

\* So are the packets of a line.
LEMMA LinePacketTypes ==
    ASSUME ConfigOK, StreamOK
    PROVE  /\ Telemetry(timestamp) \in PacketType
           /\ ExposureStart(timestamp) \in PacketType
           /\ SessionEnd(session_id) \in PacketType
           /\ LineData(band, line, [stride |-> SrcBands, from |-> SourceBand(band)])
                 \in PacketType
<1>1. Telemetry(timestamp) \in PacketType /\ ExposureStart(timestamp) \in PacketType
  BY DEF StreamOK, Telemetry, ExposureStart, PacketType
<1>2. SessionEnd(session_id) \in PacketType
  BY Constants DEF ConfigOK, SessionEnd, PacketType
<1>3. SrcBands \in Byte
  <2>1. n_bands \in Nat /\ n_bands <= MaxBands /\ source_n_bands \in Nat
        /\ source_n_bands <= MaxBands
    BY Constants DEF ConfigOK
  <2> QED BY <2>1, Constants DEF SrcBands, Byte
<1>4. SourceBand(band) \in BandSlots
  BY DEF SourceBand, ConfigOK, StreamOK
<1>5. line % U24 \in 0 .. U24 - 1
  BY U24Range DEF StreamOK
<1>6. LineData(band, line, [stride |-> SrcBands, from |-> SourceBand(band)]) \in PacketType
  BY <1>3, <1>4, <1>5 DEF LineData, PacketType, StreamOK
<1> QED BY <1>1, <1>2, <1>6

(***************************************************************************)
(* Type correctness.  The stream's part needs to know how far the preamble     *)
(* has come: SendPreamble indexes it with the packets already sent.           *)
(***************************************************************************)
StreamInv ==
    /\ StreamOK
    /\ stage \in {"idle", "alloc"} => wire = <<>>
    /\ stage = "PREAMBLE" => Len(wire) < 5

\* Outside a session there are no locals of stream_session.
Phase == pc \notin {"stream", "killed"} => stage = "idle"

TypeInv == ConfigOK /\ StreamInv /\ ServerOK /\ Phase

\* Every statement of stream_session keeps the stream's part.
LEMMA StreamStepType ==
    ASSUME TypeInv, StreamStep
    PROVE  StreamInv'
<1> USE DEF TypeInv, StreamInv, StreamOK, Stages, SendStages, clock
<1>2. CASE Allocate
  BY <1>2 DEF Allocate
<1>3. CASE SendPreamble
  <2>1. Len(wire) \in Nat /\ Len(wire) + 1 \in 1 .. 5
    BY <1>3 DEF SendPreamble
  <2>2. Len(Preamble) = 5 /\ Preamble[Len(wire) + 1] \in PacketType
    BY <2>1, PreambleType
  <2>3. wire' \in Seq(PacketType) /\ Len(wire') = Len(wire) + 1
    BY <1>3, <2>2 DEF SendPreamble, Send
  <2> QED BY <1>3, <2>1, <2>2, <2>3 DEF SendPreamble
<1>4. CASE LoadLine
  BY <1>4 DEF LoadLine, AfterLoad
<1>5. CASE LinesDone
  BY <1>5 DEF LinesDone
<1>6. CASE SendTelemetry
  <2>1. wire' \in Seq(PacketType)
    BY <1>6, LinePacketTypes DEF SendTelemetry, Send
  <2> QED BY <1>6, <2>1 DEF SendTelemetry
<1>7. CASE SendExposureStart
  <2>1. wire' \in Seq(PacketType)
    BY <1>7, LinePacketTypes DEF SendExposureStart, Send
  <2> QED BY <1>7, <2>1, Constants DEF SendExposureStart
<1>8. CASE SendLineData
  <2>1. wire' \in Seq(PacketType)
    BY <1>8, LinePacketTypes DEF SendLineData, Send
  <2>2. band' \in BandSlots /\ line' \in Nat /\ timestamp' \in Nat
        /\ stage' \in {"LINE_DATA", "line"}
    <3>1. n_bands \in Nat /\ n_bands <= MaxBands /\ MaxBands \in Nat
      BY Constants DEF ConfigOK
    <3>2. CASE band + 1 < n_bands
      BY <1>8, <3>1, <3>2 DEF SendLineData, BandSlots
    <3>3. CASE ~(band + 1 < n_bands)
      BY <1>8, <3>3, Constants DEF SendLineData
    <3> QED BY <3>2, <3>3
  <2> QED BY <1>8, <2>1, <2>2 DEF SendLineData
<1>9. CASE SendFinalTelemetry
  <2>1. wire' \in Seq(PacketType)
    BY <1>9, LinePacketTypes DEF SendFinalTelemetry, Send
  <2> QED BY <1>9, <2>1 DEF SendFinalTelemetry
<1>10. CASE SendSessionEnd
  <2>1. wire' \in Seq(PacketType)
    BY <1>10, LinePacketTypes DEF SendSessionEnd, Send
  <2> QED BY <1>10, <2>1 DEF SendSessionEnd
<1>11. CASE SendFails
  BY <1>11 DEF SendFails
<1> QED
  BY <1>2, <1>3, <1>4, <1>5, <1>6, <1>7, <1>8, <1>9, <1>10, <1>11 DEF StreamStep

\* The current directory is one of the list.
LEMMA DirInList ==
    ASSUME NEW c \in 0 .. Len(Scenes) - 1
    PROVE  Scenes[c + 1] \in Dirs
<1>1. Scenes \in Seq(Dirs) /\ c + 1 \in 1 .. Len(Scenes)
  BY ScenesAssumption, Constants
<1> QED BY <1>1

\* reset_band_config fits the arrays when the scene it is given does.
LEMMA ResetBandsType ==
    ASSUME ConfigOK, NEW s \in SceneType, s.n_bands # 0, s.n_bands <= MaxBands,
           ResetBands(s)
    PROVE  /\ n_bands' \in 1 .. MaxBands /\ source_n_bands' \in 0 .. MaxBands
           /\ band_indices' \in [BandSlots -> BandSlots]
           /\ band_wavelengths' \in [BandSlots -> Word]
           /\ SceneWavelengths(s) \in Seq(Nat)
<1>1. s.n_bands \in Nat /\ s.n_bands >= 1 /\ MaxBands \in Nat
  BY Constants DEF SceneType, Byte
<1>2. n_bands' \in 1 .. MaxBands /\ source_n_bands' \in 0 .. MaxBands
  BY <1>1 DEF ResetBands
<1>3. band_indices' \in [BandSlots -> BandSlots]
  BY DEF ResetBands, ConfigOK
<1>4. band_wavelengths' \in [BandSlots -> Word]
  BY DEF ResetBands, ConfigOK, SceneType
<1>5. SceneWavelengths(s) \in Seq(Nat)
  <2>1. ASSUME NEW k \in 1 .. s.n_bands
        PROVE  s.wavelengths[k - 1] \in Nat
    <3>1. k - 1 \in BandSlots
      BY <1>1 DEF BandSlots
    <3>2. s.wavelengths[k - 1] \in Word
      BY <3>1 DEF SceneType
    <3> QED BY <3>2, Constants DEF Word
  <2> QED BY <1>1, <2>1 DEF SceneWavelengths
<1> QED BY <1>2, <1>3, <1>4, <1>5

\* What CloseControl leaves is a typed buffer, and so is a prefix of a command.
LEMMA SilentType == CommandOK(Silent) /\ Silent.direction >= -Len(Scenes)
<1>1. Silent = [magic |-> "none", len |-> 0, n_bands |-> 0, wavelengths |-> <<>>,
                direction |-> 0]
  BY DEF Silent, Unknown
<1> QED BY <1>1, Constants DEF CommandOK, CommandType

\* A prefix of a command is one.
LEMMA PrefixType ==
    ASSUME NEW k \in Nat, CommandOK(cmd)
    PROVE  CommandOK(Prefix(cmd, k)) /\ Prefix(cmd, k).direction = cmd.direction
  BY DEF Prefix, CommandOK, CommandType

\* The initial state.
LEMMA TypeInit == Init => TypeInv
<1> SUFFICES ASSUME Init PROVE TypeInv
  OBVIOUS
<1>1. ConfigOK
  <2>1. BlankScene \in SceneType /\ BlankScene.n_bands <= MaxBands
    <3>1. 0 \in Byte /\ 0 \in Word
      BY Constants DEF Byte, Word
    <3> QED BY <3>1, Constants DEF BlankScene, SceneType
  <2>2. 0 \in Word
    BY Constants DEF Word
  <2> QED BY <2>1, <2>2, Constants DEF Init, ConfigOK
<1>2. StreamInv
  BY Constants DEF Init, StreamInv, StreamOK, Stages
<1>3. ServerOK
  BY Constants, SilentType DEF Init, ServerOK, PCs
<1>4. Phase
  BY DEF Init, Phase
<1> QED BY <1>1, <1>2, <1>3, <1>4 DEF TypeInv

\* Steps that leave a part's variables alone keep the part.
LEMMA Untouched ==
    ASSUME TypeInv
    PROVE  /\ UNCHANGED arguments => ConfigOK'
           /\ UNCHANGED locals => StreamInv'
<1>1. UNCHANGED arguments => ConfigOK'
  BY DEF TypeInv, ConfigOK, arguments
<1>2. UNCHANGED locals => StreamInv'
  BY DEF TypeInv, StreamInv, StreamOK, locals
<1> QED BY <1>1, <1>2

\* Every step keeps the type invariant.
LEMMA TypeStep == TypeInv /\ [Next]_vars => TypeInv'
<1> SUFFICES ASSUME TypeInv, [Next]_vars PROVE TypeInv'
  OBVIOUS
<1>0. ConfigOK /\ StreamInv /\ ServerOK /\ Phase
  BY DEF TypeInv
<1>1. CASE Boot
  <2>1. SceneDir \in Dirs
    BY <1>0, DirInList DEF SceneDir, ConfigOK
  <2>2. scene' \in SceneType /\ scene'.n_bands <= MaxBands /\ scene'.n_bands # 0
    BY <1>1, <2>1, LoadedSceneType DEF Boot, LoadSucceeds, SceneUsable
  <2>3. ResetBands(scene')
    BY <1>1 DEF Boot
  <2>4. /\ n_bands' \in 1 .. MaxBands /\ source_n_bands' \in 0 .. MaxBands
        /\ band_indices' \in [BandSlots -> BandSlots]
        /\ band_wavelengths' \in [BandSlots -> Word]
        /\ SceneWavelengths(scene') \in Seq(Nat)
    BY <1>0, <2>2, <2>3, ResetBandsType
  <2>5. ConfigOK'
    BY <1>0, <1>1, <2>2, <2>4 DEF Boot, ConfigOK
  <2>6. StreamInv'
    BY <1>1, Untouched DEF Boot
  <2>7. ServerOK'
    BY <1>0, <1>1, <2>4 DEF Boot, ServerOK, PCs, control
  <2>8. Phase'
    BY <1>0, <1>1 DEF Boot, Phase, locals
  <2> QED BY <2>5, <2>6, <2>7, <2>8 DEF TypeInv
<1>2. CASE BootFails \/ AcceptDataFails \/ AcceptControlFails
  <2>1. UNCHANGED arguments /\ UNCHANGED locals
        /\ pc \in {"boot", "acceptData", "acceptCtrl"} /\ pc' \in {"exited", "acceptData"}
        /\ rc' \in {rc, -1} /\ UNCHANGED <<sessions_sent, dataQ, ctrlQ, control, promised>>
    BY <1>2 DEF BootFails, AcceptDataFails, AcceptControlFails
  <2>2. ServerOK' /\ Phase'
    BY <1>0, <2>1 DEF ServerOK, PCs, control, Phase, locals
  <2> QED BY <2>1, <2>2, Untouched DEF TypeInv
<1>3. CASE AcceptData
  <2>1. UNCHANGED arguments
    BY <1>3 DEF AcceptData
  <2>2. StreamInv'
    BY <1>0, <1>3 DEF AcceptData, Begin, StreamInv, StreamOK, Stages, Phase, clock
  <2>3. ServerOK' /\ Phase'
    BY <1>0, <1>3, Constants DEF AcceptData, ServerOK, PCs, control, Phase
  <2> QED BY <2>1, <2>2, <2>3, Untouched DEF TypeInv
<1>4. CASE Stream
  <2>1. UNCHANGED arguments
    BY <1>4 DEF Stream, StreamStep
  <2>2. StreamInv'
    BY <1>4, StreamStepType DEF Stream
  <2>3. ServerOK' /\ Phase'
    BY <1>0, <1>4 DEF Stream, ServerOK, control, Phase
  <2> QED BY <2>1, <2>2, <2>3, Untouched DEF TypeInv
<1>5. CASE BrokenPipe
  <2>1. ServerOK' /\ Phase'
    BY <1>0, <1>5 DEF BrokenPipe, ServerOK, PCs, control, Phase
  <2> QED BY <1>5, <2>1, Untouched DEF TypeInv, BrokenPipe
<1>6. CASE CloseSession
  <2>1. ConfigOK'
    <3>1. (session_id + 1) % SessionIds \in 0 .. SessionIds - 1
      <4>1. session_id + 1 \in Int /\ SessionIds \in Nat \ {0}
        BY <1>0, Constants DEF ConfigOK
      <4> QED BY <4>1, ModRange
    <3> QED BY <1>0, <1>6, <3>1 DEF CloseSession, ConfigOK, bandConfig, NextSessionId
  <2>2. StreamInv'
    BY <1>6, Constants DEF CloseSession, Return, StreamInv, StreamOK, Stages
  <2>3. ServerOK' /\ Phase'
    BY <1>0, <1>6
    DEF CloseSession, Return, ServerOK, PCs, control, Phase, NextCount, AfterSession
  <2> QED BY <2>1, <2>2, <2>3 DEF TypeInv
<1>7. CASE AcceptControl
  <2>1. Head(ctrlQ) \in Commands /\ Tail(ctrlQ) \in Seq(Commands)
        /\ Len(Tail(ctrlQ)) <= Backlog
    BY <1>0, <1>7, Constants DEF AcceptControl, ServerOK
  <2>2. CommandOK(Head(ctrlQ)) /\ Head(ctrlQ).direction >= -Len(Scenes)
    BY <2>1, CommandsAssumption
  <2>3. ServerOK' /\ Phase'
    BY <1>0, <1>7, <2>1, <2>2 DEF AcceptControl, ServerOK, PCs, Phase, locals
  <2> QED BY <1>7, <2>3, Untouched DEF TypeInv, AcceptControl
<1>8. CASE ReceiveTooLittle
  <2>1. ServerOK' /\ Phase'
    BY <1>0, <1>8, SilentType, Constants
    DEF ReceiveTooLittle, CloseControl, ServerOK, PCs, Phase, locals
  <2> QED BY <1>8, <2>1, Untouched DEF TypeInv, ReceiveTooLittle
<1>9. ASSUME NEW k \in 1 .. cmd.len, ReceiveReconfig(k)
      PROVE  TypeInv'
  <2>1. k \in Nat
    BY <1>0 DEF ServerOK, CommandOK, CommandType
  <2>2. CommandOK(cmd') /\ cmd'.direction >= -Len(Scenes)
    BY <1>0, <1>9, <2>1, PrefixType DEF ReceiveReconfig, ServerOK
  <2>3. ServerOK' /\ Phase'
    BY <1>0, <1>9, <2>2, Constants DEF ReceiveReconfig, ServerOK, PCs, Phase, locals
  <2> QED BY <1>9, <2>3, Untouched DEF TypeInv, ReceiveReconfig
<1>10. ASSUME NEW k \in 1 .. cmd.len, ReceiveNextScene(k)
       PROVE  TypeInv'
  <2> DEFINE c == Advanced(current, cmd.direction, Len(Scenes))
             dir == Scenes[c + 1]
  <2>1. c \in 0 .. Len(Scenes) - 1
    BY <1>0, AdvancedInRange DEF ConfigOK, ServerOK, CommandOK, CommandType
  <2>2. dir \in Dirs
    <3> HIDE DEF c
    <3> QED BY <2>1, DirInList
  <2>3. /\ current' = c
        /\ UNCHANGED <<session_id, locals, rc, sessions_sent, dataQ, ctrlQ>>
        /\ CloseControl /\ pc = "recv"
        /\ \/ /\ LoadSucceeds(dir) /\ scene' = LoadedScene(dir) /\ ResetBands(scene')
              /\ promised' = SceneWavelengths(scene') /\ reply' = <<AckOk>>
           \/ /\ scene' \in {LoadedScene(dir), scene}
              /\ UNCHANGED <<bandConfig, promised>> /\ reply' = <<AckFailed>>
    BY <1>10 DEF ReceiveNextScene, SwitchedDir, SceneAfterLoad, Answer
  <2> HIDE DEF c, dir
  <2>4. scene' \in SceneType /\ scene'.n_bands <= MaxBands
    BY <1>0, <2>2, <2>3, LoadedSceneType DEF ConfigOK
  <2>6. /\ n_bands' \in 1 .. MaxBands /\ source_n_bands' \in 0 .. MaxBands
        /\ band_indices' \in [BandSlots -> BandSlots]
        /\ band_wavelengths' \in [BandSlots -> Word]
        /\ promised' \in Seq(Nat)
    <3>1. CASE LoadSucceeds(dir) /\ scene' = LoadedScene(dir) /\ ResetBands(scene')
               /\ promised' = SceneWavelengths(scene')
      <4>1. scene'.n_bands # 0
        BY <3>1 DEF LoadSucceeds, SceneUsable
      <4> QED BY <1>0, <2>4, <3>1, <4>1, ResetBandsType
    <3>2. CASE UNCHANGED <<bandConfig, promised>>
      BY <1>0, <3>2 DEF ConfigOK, ServerOK, bandConfig
    <3> QED BY <2>3, <3>1, <3>2
  <2>7. ConfigOK'
    BY <1>0, <2>1, <2>3, <2>4, <2>6 DEF ConfigOK
  <2>8. ServerOK' /\ Phase'
    BY <1>0, <2>3, <2>6, SilentType, Constants DEF CloseControl, ServerOK, PCs, Phase, locals
  <2> QED BY <2>3, <2>7, <2>8, Untouched DEF TypeInv
<1>11. ASSUME NEW k \in 1 .. cmd.len, ReceiveUnknown(k)
       PROVE  TypeInv'
  <2>1. ServerOK' /\ Phase'
    BY <1>0, <1>11, SilentType, Constants
    DEF ReceiveUnknown, Answer, CloseControl, ServerOK, PCs, Phase, locals
  <2> QED BY <1>11, <2>1, Untouched DEF TypeInv, ReceiveUnknown
<1>12. CASE MatchBand
  <2>1. ConfigOK' /\ matched' \in 0 .. MaxBands
    <3>1. CASE UNCHANGED <<band_indices, matched>>
      BY <1>0, <1>12, <3>1 DEF MatchBand, ConfigOK, ServerOK
    <3>2. ASSUME NEW j \in Nearest(scene, cmd.wavelengths[i + 1]),
                 band_indices' = [band_indices EXCEPT ![matched] = j],
                 matched' = matched + 1
          PROVE  ConfigOK' /\ matched' \in 0 .. MaxBands
      <4>1. j \in 0 .. scene.n_bands - 1
        BY DEF Nearest
      <4>2. j \in BandSlots
        BY <1>0, <4>1, Constants DEF ConfigOK, SceneType, Byte, BandSlots
      <4>3. matched' \in 0 .. MaxBands
        BY <1>0, <1>12, <3>2, Constants DEF MatchBand, Matching, ServerOK
      <4> QED BY <1>0, <1>12, <3>2, <4>2, <4>3 DEF MatchBand, ConfigOK
    <3> QED BY <1>12, <3>1, <3>2 DEF MatchBand
  <2>2. ServerOK' /\ Phase'
    BY <1>0, <1>12, <2>1 DEF MatchBand, ServerOK, Phase, locals
  <2> QED BY <1>12, <2>1, <2>2, Untouched DEF TypeInv, MatchBand
<1>13. CASE FinishReconfig
  <2>1. ConfigOK'
    <3>1. matched \in Nat /\ matched <= MaxBands /\ MaxBands \in Nat
      BY <1>0, Constants DEF ServerOK
    <3>2. CASE ~Reconfigured
      BY <1>0, <1>13, <3>2 DEF FinishReconfig, ConfigOK
    <3>3. CASE Reconfigured
      <4>1. /\ n_bands' = matched /\ source_n_bands' = scene.n_bands
            /\ band_wavelengths' = [b \in BandSlots |->
                   IF b < matched THEN MatchedWavelength(b) ELSE band_wavelengths[b]]
            /\ UNCHANGED <<current, scene, band_indices, session_id>>
        BY <1>13, <3>3 DEF FinishReconfig
      <4>2. n_bands' \in 1 .. MaxBands
        BY <3>1, <3>3, <4>1 DEF Reconfigured
      <4>3. source_n_bands' \in 0 .. MaxBands
        BY <1>0, <4>1, Constants DEF ConfigOK, SceneType, Byte
      <4>4. ASSUME NEW b \in BandSlots PROVE MatchedWavelength(b) \in Word
        BY <1>0 DEF ConfigOK, SceneType, MatchedWavelength
      <4>5. band_wavelengths' \in [BandSlots -> Word]
        BY <1>0, <4>1, <4>4 DEF ConfigOK
      <4> QED BY <1>0, <4>1, <4>2, <4>3, <4>5 DEF ConfigOK
    <3> QED BY <3>2, <3>3
  <2>2. promised' \in Seq(Nat)
    <3>1. /\ cmd.n_bands \in Nat /\ cmd.wavelengths \in Seq(Nat)
          /\ cmd.n_bands <= Len(cmd.wavelengths)
      BY <1>0 DEF ServerOK, CommandOK, CommandType
    <3>2. \A k \in 1 .. cmd.n_bands : cmd.wavelengths[k] \in Nat
      BY <3>1
    <3>3. promised' = [k \in 1 .. cmd.n_bands |-> cmd.wavelengths[k]]
      BY <1>13 DEF FinishReconfig
    <3>4. \A k \in 1 .. cmd.n_bands : cmd.wavelengths[k] \in Nat /\ k \in Nat
      BY <3>2
    <3> DEFINE p == [k \in 1 .. cmd.n_bands |-> cmd.wavelengths[k]]
    <3>5. \A n \in Nat : \A f \in [1 .. n -> Nat] : f \in Seq(Nat)
      OBVIOUS
    <3>6. p \in [1 .. cmd.n_bands -> Nat]
      BY <3>4
    <3>7. p \in Seq(Nat)
      BY <3>1, <3>5, <3>6
    <3> QED BY <3>3, <3>7
  <2>3. ServerOK' /\ Phase'
    BY <1>0, <1>13, <2>2, SilentType, Constants
    DEF FinishReconfig, Answer, CloseControl, ServerOK, PCs, Phase, locals
  <2> QED BY <1>13, <2>1, <2>3, Untouched DEF TypeInv, FinishReconfig
<1>14. CASE DataConnect \/ ControlConnect
  <2>1. /\ UNCHANGED <<arguments, locals, pc, rc, sessions_sent, control, promised>>
        /\ dataQ' \in 0 .. Backlog /\ ctrlQ' \in Seq(Commands) /\ Len(ctrlQ') <= Backlog
    <3>1. CASE DataConnect
      BY <1>0, <3>1, Constants DEF DataConnect, ServerOK
    <3>2. CASE ControlConnect
      <4>1. PICK c \in Commands : ctrlQ' = Append(ctrlQ, c)
        BY <3>2 DEF ControlConnect, Queued
      <4>2. ctrlQ \in Seq(Commands) /\ Len(ctrlQ) < Backlog /\ Backlog \in Nat
        BY <1>0, <3>2, Constants DEF ControlConnect, Queued, ServerOK
      <4>3. ctrlQ' \in Seq(Commands) /\ Len(ctrlQ') <= Backlog
        BY <4>1, <4>2
      <4> QED BY <1>0, <3>2, <4>3 DEF ControlConnect, Queued, ServerOK
    <3> QED BY <1>14, <3>1, <3>2
  <2>2. ServerOK' /\ Phase'
    BY <1>0, <2>1 DEF ServerOK, Phase, locals, control
  <2> QED BY <2>1, <2>2, Untouched DEF TypeInv
<1>15. CASE DataHangup
  <2>1. StreamInv'
    BY <1>0, <1>15 DEF DataHangup, Hangup, StreamInv, StreamOK, clock
  <2>2. ServerOK' /\ Phase'
    BY <1>0, <1>15 DEF DataHangup, ServerOK, Phase, control
  <2> QED BY <1>15, <2>1, <2>2, Untouched DEF TypeInv, DataHangup
<1>16. CASE Ended \/ UNCHANGED vars
  <2>1. UNCHANGED <<arguments, locals, pc, rc, sessions_sent, dataQ, ctrlQ, control, promised>>
    BY <1>16 DEF Ended, vars
  <2>2. ServerOK' /\ Phase'
    BY <1>0, <2>1 DEF ServerOK, Phase, locals, control
  <2> QED BY <2>1, <2>2, Untouched DEF TypeInv
<1> QED
  BY <1>1, <1>2, <1>3, <1>4, <1>5, <1>6, <1>7, <1>8, <1>9, <1>10, <1>11, <1>12, <1>13,
     <1>14, <1>15, <1>16
  DEF Next, Server, Clients, Receive

\* A connection that is too early for the receive timeout is one the server knows
\* of: it is counted when it is set up, and no longer once it is closed.
LEMMA TimeoutsStep == TypeInv /\ TypeInv' /\ TimeoutsOK /\ [Next]_vars => TimeoutsOK'
<1> SUFFICES ASSUME TypeInv, TypeInv', TimeoutsOK, [Next]_vars PROVE TimeoutsOK'
  OBVIOUS
<1>0. /\ Len(ctrlQ) \in Nat /\ Len(ctrlQ') \in Nat
      /\ accept_timeout \in BOOLEAN /\ untimed \in 0 .. Known
  BY DEF TypeInv, ServerOK, TimeoutsOK
<1>1. CASE UNCHANGED <<timeouts, ctrlQ>>
           /\ (pc \in {"recv", "match"} => pc' \in {"recv", "match"})
  BY <1>0, <1>1 DEF TimeoutsOK, Known, timeouts
<1>2. CASE CloseSession
  BY <1>0, <1>2 DEF CloseSession, TimeoutsOK, Known
<1>3. CASE AcceptControl
  <2>1. Len(ctrlQ') = Len(ctrlQ) - 1
    BY <1>3 DEF AcceptControl, TypeInv, ServerOK
  <2> QED BY <1>0, <1>3, <2>1 DEF AcceptControl, TimeoutsOK, Known, timeouts
<1>4. CASE pc \in {"recv", "match"} /\ CloseControl /\ UNCHANGED ctrlQ
  <2>1. Known = Len(ctrlQ) + 1 /\ Known' = Len(ctrlQ)
    BY <1>4 DEF Known, CloseControl
  <2> QED BY <1>0, <1>4, <2>1 DEF CloseControl, TimeoutsOK
<1>5. CASE ControlConnect
  <2>1. PICK c \in Commands : Queued(c)
    BY <1>5 DEF ControlConnect
  <2>2. Len(ctrlQ') = Len(ctrlQ) + 1
    BY <2>1 DEF Queued, TypeInv, ServerOK
  <2> QED BY <1>0, <2>1, <2>2 DEF Queued, TimeoutsOK, Known
<1>6. Boot \/ BootFails \/ AcceptData \/ AcceptDataFails \/ Stream \/ BrokenPipe
      \/ AcceptControlFails \/ MatchBand \/ DataConnect \/ DataHangup \/ Ended
      \/ UNCHANGED vars
      => /\ UNCHANGED <<timeouts, ctrlQ>>
         /\ (pc \in {"recv", "match"} => pc' \in {"recv", "match"})
  BY DEF Boot, BootFails, AcceptData, AcceptDataFails, Stream, BrokenPipe,
         AcceptControlFails, MatchBand, DataConnect, DataHangup, Ended, vars
<1>7. Receive => \/ UNCHANGED <<timeouts, ctrlQ>> /\ pc' = "match"
                 \/ pc = "recv" /\ CloseControl /\ UNCHANGED ctrlQ
  BY DEF Receive, ReceiveReconfig, ReceiveNextScene, ReceiveUnknown, Answer
<1>8. ReceiveTooLittle \/ FinishReconfig
      => pc \in {"recv", "match"} /\ CloseControl /\ UNCHANGED ctrlQ
  BY DEF ReceiveTooLittle, FinishReconfig, Answer
<1> QED
  BY <1>1, <1>2, <1>3, <1>4, <1>5, <1>6, <1>7, <1>8 DEF Next, Server, Clients

\* Every variable of the server keeps its C type, and no per-band array is ever
\* indexed beyond its end, for any number of scenes, any content of their
\* metadata, any commands and any number of sessions.
THEOREM ServerTypeOK == Spec => []TypeOK
<1>1. Init => TimeoutsOK
  <2>1. SUFFICES ASSUME Init PROVE TimeoutsOK
    OBVIOUS
  <2>2. ctrlQ = <<>> /\ pc = "boot" /\ accept_timeout = FALSE /\ untimed = 0
    BY <2>1 DEF Init
  <2>3. Len(ctrlQ) = 0
    BY <2>2
  <2>4. Known = 0
    BY <2>2, <2>3 DEF Known
  <2>5. accept_timeout \in BOOLEAN
    BY <2>2
  <2>6. untimed \in 0 .. Known
    BY <2>2, <2>4
  <2> QED BY <2>5, <2>6 DEF TimeoutsOK
<1>2. TypeInv /\ TimeoutsOK => TypeOK
  BY DEF TypeInv, TypeOK, StreamInv
<1> QED BY <1>1, <1>2, TypeInit, TypeStep, TimeoutsStep, PTL DEF Spec
=============================================================================
