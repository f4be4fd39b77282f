------------------------- MODULE AnnouncementProofs -------------------------
(***************************************************************************)
(* That a session announces what it sends (stream_session, against the         *)
(* reconfiguration and the scene switch of xs_emu_run), for every list of       *)
(* scenes that load and all requests for fewer bands than any scene has.  A      *)
(* request for as many bands as the scene has is outside: the code then sends   *)
(* the scene's order whatever it announced (run PermutedBands).  And that a      *)
(* session sends what an acknowledged reconfiguration asked for, when every       *)
(* request can be answered in every scene; and, for any requests at all, a band  *)
(* for each requested wavelength the scene could serve.                      *)
(***************************************************************************)
EXTENDS EmuServerSafetyProofs, FiniteSetTheorems, WellFoundedInduction

\* Every directory holds a scene, and every client asks for fewer bands than the
\* smallest of them has.
Selective == \A dir \in Dirs :
    LoadSucceeds(dir) /\ \A c \in Commands : c.n_bands < LoadedScene(dir).n_bands

(***************************************************************************)
(* The configuration.  Matching overwrites band_indices entry by entry while    *)
(* the wavelengths are still the old ones, so from the first match to the end    *)
(* of the command the two disagree; a command that matches nothing leaves both. *)
(***************************************************************************)
HalfWritten == pc = "match" /\ matched > 0

Announced(b) == band_wavelengths[b] = scene.wavelengths[SourceBand(b)]

RequestInv == \A dir \in Dirs : cmd.n_bands < LoadedScene(dir).n_bands

ConfigInv ==
    /\ RequestInv
    /\ Configured /\ ~HalfWritten => \A b \in BandSlots : b < n_bands => Announced(b)

\* A selective request names no more bands than the smallest scene has.
LEMMA SelectiveIsModest == Selective => Modest
<1> SUFFICES ASSUME Selective, NEW dir \in Dirs, NEW c \in Commands
             PROVE  c.n_bands <= LoadedScene(dir).n_bands
  BY DEF Selective, Modest
<1>1. c.n_bands < LoadedScene(dir).n_bands
  BY DEF Selective
<1>2. LoadedScene(dir).n_bands \in Nat /\ c.n_bands \in Nat
  BY LoadedSceneType, CommandsAssumption DEF SceneType, Byte, CommandOK, CommandType
<1> QED BY <1>1, <1>2

\* No command at all asks for fewer bands than any scene that loads has.
LEMMA SilentIsSelective ==
    ASSUME Selective
    PROVE  \A dir \in Dirs : Silent.n_bands < LoadedScene(dir).n_bands
<1> SUFFICES ASSUME NEW dir \in Dirs
             PROVE  Silent.n_bands < LoadedScene(dir).n_bands
  OBVIOUS
<1>1. Silent.n_bands = 0
  BY DEF Silent, Unknown
<1>2. LoadedScene(dir).n_bands # 0
  BY DEF Selective, LoadSucceeds, SceneUsable
<1>3. LoadedScene(dir).n_bands \in Nat
  BY LoadedSceneType DEF SceneType, Byte
<1> QED BY <1>1, <1>2, <1>3

\* A reset configuration announces the scene's bands in the scene's order.
LEMMA ResetAnnounces ==
    ASSUME TypeInv, scene' \in SceneType, ResetBands(scene')
    PROVE  \A b \in BandSlots : b < n_bands' => Announced(b)'
<1>1. /\ n_bands' = scene'.n_bands /\ source_n_bands' = 0
      /\ band_wavelengths' = [b \in BandSlots |->
             IF b < scene'.n_bands THEN scene'.wavelengths[b] ELSE band_wavelengths[b]]
  BY DEF ResetBands
<1>2. SrcBands' = n_bands' /\ n_bands' \in Nat
  BY <1>1 DEF SrcBands, SceneType, Byte
<1>3. ASSUME NEW b \in BandSlots, b < n_bands'
      PROVE  Announced(b)'
  <2>1. SourceBand(b)' = b
    BY <1>2 DEF SourceBand
  <2>2. band_wavelengths'[b] = scene'.wavelengths[b]
    BY <1>1, <1>3
  <2> QED BY <2>1, <2>2 DEF Announced
<1> QED BY <1>3

\* The end of a command: what matched is announced, and read through the indices,
\* because fewer bands matched than the stride has.
LEMMA FinishAnnounces ==
    ASSUME TypeInv, PixelInv, ConfigInv, FinishReconfig
    PROVE  \A b \in BandSlots : b < n_bands' => Announced(b)'
<1>1. SelectionInv /\ MatchInv /\ RequestInv /\ pc = "match"
  BY DEF PixelInv, ConfigInv, FinishReconfig, Configured
<1>2. UNCHANGED <<scene, band_indices>>
  BY DEF FinishReconfig
<1>3. CASE ~Reconfigured
  <2>1. UNCHANGED <<n_bands, source_n_bands, band_wavelengths>>
    BY <1>3 DEF FinishReconfig
  <2>2. ~HalfWritten
    BY <1>3 DEF Reconfigured, HalfWritten
  <2>3. \A b \in BandSlots : b < n_bands => Announced(b)
    BY <1>1, <2>2 DEF ConfigInv, Configured
  <2> QED BY <1>2, <2>1, <2>3 DEF Announced, SourceBand, SrcBands
<1>4. CASE Reconfigured
  <2>1. /\ n_bands' = matched /\ source_n_bands' = scene.n_bands
        /\ band_wavelengths' = [b \in BandSlots |->
               IF b < matched THEN MatchedWavelength(b) ELSE band_wavelengths[b]]
    BY <1>4 DEF FinishReconfig
  <2>2. matched < scene.n_bands
    <3>1. PICK dir \in Dirs : scene = LoadedScene(dir)
      BY <1>1 DEF SelectionInv
    <3>2. cmd.n_bands < scene.n_bands
      BY <1>1, <3>1 DEF RequestInv
    <3> QED BY <1>1, <3>2, PixelNumbers DEF MatchInv
  <2>3. ASSUME NEW b \in BandSlots, b < n_bands'
        PROVE  Announced(b)'
    <3>1. SourceBand(b)' = band_indices[b]
      BY <1>2, <2>1, <2>2, PixelNumbers DEF SourceBand, SrcBands
    <3>2. band_wavelengths'[b] = scene.wavelengths[band_indices[b]]
      BY <2>1, <2>3 DEF MatchedWavelength
    <3> QED BY <1>2, <3>1, <3>2 DEF Announced
  <2> QED BY <2>3
<1> QED BY <1>3, <1>4

\* Steps that leave the configuration and the command alone keep the invariant.
LEMMA ConfigUntouched ==
    ASSUME ConfigInv, UNCHANGED <<scene, bandConfig, cmd, matched>>,
           Configured' => Configured, pc = "match" => pc' = "match"
    PROVE  ConfigInv'
<1>1. \A b : Announced(b)' = Announced(b)
  BY DEF Announced, SourceBand, SrcBands, bandConfig
<1>2. n_bands' = n_bands
  BY DEF bandConfig
<1> QED BY <1>1, <1>2 DEF ConfigInv, RequestInv, HalfWritten

\* Every step keeps the configuration and the announced wavelengths together.
LEMMA ConfigStep ==
    ASSUME Selective, TypeInv, PixelInv, ConfigInv, [Next]_vars
    PROVE  ConfigInv'
<1>0. Modest
  BY SelectiveIsModest
<1>1. CASE Boot
  <2>1. TypeInv' /\ ResetBands(scene') /\ cmd' = cmd
    BY <1>1, TypeStep DEF Boot, control
  <2>2. \A b \in BandSlots : b < n_bands' => Announced(b)'
    BY <2>1, ResetAnnounces DEF TypeInv, ConfigOK
  <2> QED BY <2>1, <2>2 DEF ConfigInv, RequestInv
<1>2. CASE AcceptControl
  <2>1. cmd' \in Commands
    BY <1>2 DEF AcceptControl, TypeInv, ServerOK
  <2>2. RequestInv'
    BY <2>1 DEF Selective, RequestInv
  <2>3. UNCHANGED <<scene, bandConfig>> /\ Configured /\ ~HalfWritten
    BY <1>2 DEF AcceptControl, arguments, bandConfig, Configured, HalfWritten
  <2>4. \A b \in BandSlots : b < n_bands' => Announced(b)'
    BY <2>3 DEF ConfigInv, Announced, SourceBand, SrcBands, bandConfig
  <2> QED BY <2>2, <2>4 DEF ConfigInv
<1>3. ASSUME NEW k \in 1 .. cmd.len, ReceiveReconfig(k)
      PROVE  ConfigInv'
  <2>1. k \in Nat
    BY DEF TypeInv, ServerOK, CommandOK, CommandType
  <2>2. cmd'.n_bands = cmd.n_bands
    BY <1>3, <2>1, SilentIsModest DEF ReceiveReconfig
  <2>3. UNCHANGED <<scene, bandConfig>> /\ Configured /\ ~HalfWritten
    BY <1>3 DEF ReceiveReconfig, arguments, bandConfig, Configured, HalfWritten
  <2>4. \A b \in BandSlots : b < n_bands' => Announced(b)'
    BY <2>3 DEF ConfigInv, Announced, SourceBand, SrcBands, bandConfig
  <2> QED BY <2>2, <2>4 DEF ConfigInv, RequestInv
<1>4. ASSUME NEW k \in 1 .. cmd.len, ReceiveNextScene(k)
      PROVE  ConfigInv'
  <2> DEFINE c == Advanced(current, cmd.direction, Len(Scenes))
             dir == Scenes[c + 1]
  <2>1. dir \in Dirs
    <3>1. c \in 0 .. Len(Scenes) - 1
      BY AdvancedInRange DEF TypeInv, ConfigOK, ServerOK, CommandOK, CommandType
    <3> HIDE DEF c
    <3> QED BY <3>1, DirInList
  <2>2. /\ cmd' = Silent /\ Configured /\ ~HalfWritten
        /\ ResetBands(scene') \/ UNCHANGED <<scene, bandConfig>> \/ ~LoadSucceeds(dir)
    BY <1>4 DEF ReceiveNextScene, SwitchedDir, Answer, CloseControl, Configured, HalfWritten
  <2> HIDE DEF c, dir
  <2>3. ResetBands(scene') \/ UNCHANGED <<scene, bandConfig>>
    BY <2>1, <2>2 DEF Selective
  <2>4. scene' \in SceneType
    BY <1>4, TypeStep DEF Next, Server, Receive, TypeInv, ConfigOK
  <2>5. \A b \in BandSlots : b < n_bands' => Announced(b)'
    <3>1. CASE ResetBands(scene')
      BY <2>4, <3>1, ResetAnnounces
    <3>2. CASE UNCHANGED <<scene, bandConfig>>
      BY <2>2, <3>2 DEF ConfigInv, Announced, SourceBand, SrcBands, bandConfig
    <3> QED BY <2>3, <3>1, <3>2
  <2>6. RequestInv'
    BY <2>2, SilentIsSelective DEF RequestInv
  <2> QED BY <2>5, <2>6 DEF ConfigInv
<1>5. CASE ReceiveTooLittle \/ \E k \in 1 .. cmd.len : ReceiveUnknown(k)
  <2>1. UNCHANGED <<scene, bandConfig>> /\ Configured /\ ~HalfWritten /\ cmd' = Silent
    BY <1>5 DEF ReceiveTooLittle, ReceiveUnknown, Answer, CloseControl, arguments,
                bandConfig, Configured, HalfWritten
  <2>2. \A b \in BandSlots : b < n_bands' => Announced(b)'
    BY <2>1 DEF ConfigInv, Announced, SourceBand, SrcBands, bandConfig
  <2>3. RequestInv'
    BY <2>1, SilentIsSelective DEF RequestInv
  <2> QED BY <2>2, <2>3 DEF ConfigInv
<1>6. CASE MatchBand
  <2>1. cmd' = cmd /\ pc = "match" /\ pc' = "match" /\ scene' = scene
    BY <1>6 DEF MatchBand
  <2>2. CASE UNCHANGED <<band_indices, matched>>
    BY <1>6, <2>1, <2>2, ConfigUntouched DEF MatchBand, bandConfig, Configured
  <2>3. CASE matched' = matched + 1
    <3>1. HalfWritten'
      BY <2>1, <2>3, PixelNumbers DEF HalfWritten
    <3> QED BY <2>1, <3>1 DEF ConfigInv, RequestInv
  <2> QED BY <1>6, <2>2, <2>3 DEF MatchBand
<1>7. CASE FinishReconfig
  <2>1. \A b \in BandSlots : b < n_bands' => Announced(b)'
    BY <1>7, FinishAnnounces
  <2>2. RequestInv'
    BY <1>7, SilentIsSelective DEF FinishReconfig, Answer, CloseControl, RequestInv
  <2> QED BY <2>1, <2>2 DEF ConfigInv
<1>8. CASE \/ BootFails \/ AcceptData \/ AcceptDataFails \/ Stream \/ BrokenPipe
           \/ CloseSession \/ AcceptControlFails \/ Clients \/ Ended \/ UNCHANGED vars
  <2>1. UNCHANGED <<scene, bandConfig, cmd, matched>> /\ (Configured' => Configured)
        /\ (pc = "match" => pc' = "match")
    BY <1>8
    DEF BootFails, AcceptData, AcceptDataFails, Stream, StreamStep, BrokenPipe,
        CloseSession, AcceptControlFails, Clients, DataConnect, ControlConnect, Queued,
        DataHangup, Ended, vars, arguments, bandConfig, control, Configured
  <2> QED BY <2>1, ConfigUntouched
<1> QED
  BY <1>1, <1>2, <1>3, <1>4, <1>5, <1>6, <1>7, <1>8 DEF Next, Server, Receive

(***************************************************************************)
(* The connection: its third packet is the configuration in force, and its      *)
(* line data was read with it.                                               *)
(***************************************************************************)
ConfigPacket == ImagerConfig([k \in 1 .. n_bands |-> band_wavelengths[k - 1]])

\* Read under the configuration in force.
ReadAsSelected(p) ==
    p.id = "LINE_DATA" =>
        p.spectral_band \in BandSlots /\ p.spectral_band < n_bands
        /\ p.pixels.from = SourceBand(p.spectral_band)

WireInv ==
    /\ stage \in AfterPreamble => Len(wire) >= 5
    /\ Len(wire) >= 3 => wire[3] = ConfigPacket
    /\ \A k \in DOMAIN wire : k <= 5 \/ ReadAsSelected(wire[k])
    /\ \A k \in DOMAIN wire : k <= 5 => wire[k].id # "LINE_DATA"
    /\ \A k \in DOMAIN wire : wire[k].id = "IMAGER_CONFIG" => wire[k] = ConfigPacket

\* The packets of the preamble are no line data, and the third is the configuration.
LEMMA PreamblePackets ==
    /\ Preamble[3] = ConfigPacket
    /\ \A k \in 1 .. 5 : Preamble[k].id # "LINE_DATA"
    /\ \A k \in 1 .. 5 : Preamble[k].id = "IMAGER_CONFIG" => Preamble[k] = ConfigPacket
<1>1. Preamble[1].id \notin {"LINE_DATA", "IMAGER_CONFIG"}
  BY DEF Preamble, SessionStart
<1>2. Preamble[2].id \notin {"LINE_DATA", "IMAGER_CONFIG"}
  BY DEF Preamble, ImagerInfo
<1>3. Preamble[3] = ConfigPacket
  BY DEF Preamble, ConfigPacket
<1>4. Preamble[3].id # "LINE_DATA"
  BY <1>3 DEF ConfigPacket, ImagerConfig
<1>5. Preamble[4].id \notin {"LINE_DATA", "IMAGER_CONFIG"}
  BY DEF Preamble, TimeSync
<1>6. Preamble[5].id \notin {"LINE_DATA", "IMAGER_CONFIG"}
  BY DEF Preamble, SceneStart
<1> QED BY <1>1, <1>2, <1>3, <1>4, <1>5, <1>6

\* A packet more, at its place.
LEMMA SendKeepsWire ==
    ASSUME TypeInv, WireInv, UNCHANGED arguments,
           NEW p \in PacketType, wire' = Append(wire, p),
           stage' \in AfterPreamble => Len(wire) + 1 >= 5,
           Len(wire) + 1 = 3 => p = ConfigPacket,
           Len(wire) + 1 <= 5 => p.id # "LINE_DATA",
           Len(wire) + 1 <= 5 \/ ReadAsSelected(p),
           p.id = "IMAGER_CONFIG" => p = ConfigPacket
    PROVE  WireInv'
<1>1. wire \in Seq(PacketType) /\ Len(wire) \in Nat
  BY DEF TypeInv, StreamInv, StreamOK
<1>2. /\ wire' \in Seq(PacketType) /\ Len(wire') = Len(wire) + 1
      /\ DOMAIN wire' = 1 .. Len(wire) + 1 /\ DOMAIN wire = 1 .. Len(wire)
      /\ \A k \in 1 .. Len(wire) : wire'[k] = wire[k]
      /\ wire'[Len(wire) + 1] = p
  BY <1>1
<1>3. ConfigPacket' = ConfigPacket /\ \A q : ReadAsSelected(q)' = ReadAsSelected(q)
  BY DEF ConfigPacket, ReadAsSelected, SourceBand, SrcBands, arguments
<1>4. Len(wire') >= 3 => wire'[3] = ConfigPacket
  BY <1>1, <1>2 DEF WireInv
<1>5. \A k \in DOMAIN wire' : k <= 5 \/ ReadAsSelected(wire'[k])
  BY <1>1, <1>2 DEF WireInv
<1>6. \A k \in DOMAIN wire' : k <= 5 => wire'[k].id # "LINE_DATA"
  BY <1>1, <1>2 DEF WireInv
<1>7. \A k \in DOMAIN wire' : wire'[k].id = "IMAGER_CONFIG" => wire'[k] = ConfigPacket
  BY <1>1, <1>2 DEF WireInv
<1> QED BY <1>2, <1>3, <1>4, <1>5, <1>6, <1>7 DEF WireInv

\* A statement of stream_session announces and sends from the same configuration.
LEMMA StreamStepKeepsWire ==
    ASSUME TypeInv, PixelInv, WireInv, StreamStep
    PROVE  WireInv'
<1>1. ConfigOK /\ StreamOK /\ UNCHANGED arguments /\ Len(wire) \in Nat
  BY DEF TypeInv, StreamInv, StreamStep, StreamOK
<1>2. CASE SendPreamble
  <2>1. Len(wire) + 1 \in 1 .. 5
    BY <1>1, <1>2 DEF SendPreamble, TypeInv, StreamInv
  <2>2. Len(Preamble) = 5 /\ Preamble[Len(wire) + 1] \in PacketType
    BY <1>1, <2>1, PreambleType
  <2>3. stage' \in AfterPreamble => Len(wire) + 1 >= 5
    BY <1>1, <1>2, <2>2 DEF SendPreamble, AfterPreamble
  <2>4. /\ Len(wire) + 1 = 3 => Preamble[Len(wire) + 1] = ConfigPacket
        /\ Preamble[Len(wire) + 1].id # "LINE_DATA"
        /\ Preamble[Len(wire) + 1].id = "IMAGER_CONFIG"
           => Preamble[Len(wire) + 1] = ConfigPacket
    BY <2>1, PreamblePackets
  <2> QED BY <1>1, <1>2, <2>1, <2>2, <2>3, <2>4, SendKeepsWire DEF SendPreamble, Send
<1>3. CASE SendLineData
  <2> DEFINE p == LineData(band, line, [stride |-> SrcBands, from |-> SourceBand(band)])
  <2>1. Len(wire) >= 5 /\ stage = "LINE_DATA" /\ wire' = Append(wire, p)
    BY <1>3 DEF SendLineData, Send, WireInv, AfterPreamble
  <2>2. p \in PacketType
    BY <1>1, LinePacketTypes
  <2>3. ReadAsSelected(p)
    BY <1>1, <2>1 DEF ReadAsSelected, LineData, PixelInv, StreamOK
  <2>4. p.id # "IMAGER_CONFIG"
    BY DEF LineData
  <2> HIDE DEF p
  <2> QED BY <1>1, <2>1, <2>2, <2>3, <2>4, SendKeepsWire
<1>4. CASE SendTelemetry \/ SendExposureStart \/ SendFinalTelemetry \/ SendSessionEnd
  <2>1. Len(wire) >= 5
    BY <1>4 DEF SendTelemetry, SendExposureStart, SendFinalTelemetry, SendSessionEnd,
                WireInv, AfterPreamble
  <2>2. PICK p \in PacketType :
          wire' = Append(wire, p) /\ p.id \notin {"LINE_DATA", "IMAGER_CONFIG"}
    BY <1>1, <1>4, LinePacketTypes
    DEF SendTelemetry, SendExposureStart, SendFinalTelemetry, SendSessionEnd, Send,
        Telemetry, ExposureStart, SessionEnd
  <2>3. ReadAsSelected(p)
    BY <2>2 DEF ReadAsSelected
  <2> QED BY <1>1, <2>1, <2>2, <2>3, SendKeepsWire
<1>5. CASE Allocate \/ LoadLine \/ LinesDone \/ SendFails
  <2>1. UNCHANGED wire
    BY <1>5 DEF Allocate, LoadLine, LinesDone, SendFails
  <2>2. stage' \in AfterPreamble => stage \in AfterPreamble
    BY <1>5 DEF Allocate, LoadLine, LinesDone, SendFails, AfterPreamble
  <2> QED BY <1>1, <2>1, <2>2
      DEF WireInv, ConfigPacket, ReadAsSelected, SourceBand, SrcBands, arguments
<1> QED BY <1>2, <1>3, <1>4, <1>5 DEF StreamStep

\* Every step keeps the packets already sent true to the configuration.
LEMMA WireStep ==
    ASSUME TypeInv, PixelInv, WireInv, [Next]_vars
    PROVE  WireInv'
<1>0. (stage = "idle" => wire = <<>>) /\ (pc \notin {"stream", "killed"} => stage = "idle")
  BY DEF TypeInv, StreamInv, Phase
<1>1. CASE Stream
  BY <1>1, StreamStepKeepsWire DEF Stream
<1>2. CASE AcceptData \/ DataHangup
  <2>1. UNCHANGED <<arguments, wire>> /\ (stage' \in AfterPreamble => stage \in AfterPreamble)
    BY <1>2 DEF AcceptData, Begin, DataHangup, Hangup, AfterPreamble
  <2> QED BY <2>1
      DEF WireInv, ConfigPacket, ReadAsSelected, SourceBand, SrcBands, arguments
<1>3. CASE CloseSession
  <2>1. wire' = <<>> /\ stage' = "idle"
    BY <1>3 DEF CloseSession, Return
  <2> QED BY <2>1 DEF WireInv, AfterPreamble
<1>4. CASE \/ Boot \/ BootFails \/ AcceptDataFails \/ AcceptControl
           \/ AcceptControlFails \/ ReceiveTooLittle \/ Receive \/ MatchBand
           \/ FinishReconfig
  <2>1. wire = <<>> /\ stage = "idle" /\ UNCHANGED <<stage, wire>>
    BY <1>0, <1>4
    DEF Boot, BootFails, AcceptDataFails, AcceptControl, AcceptControlFails,
        ReceiveTooLittle, Receive, ReceiveReconfig, ReceiveNextScene, ReceiveUnknown,
        MatchBand, FinishReconfig, locals
  <2> QED BY <2>1 DEF WireInv, AfterPreamble
<1>5. CASE BrokenPipe \/ DataConnect \/ ControlConnect \/ Ended \/ UNCHANGED vars
  <2>1. UNCHANGED <<arguments, stage, wire>>
    BY <1>5 DEF BrokenPipe, DataConnect, ControlConnect, Queued, Ended, vars, locals
  <2> QED BY <2>1
      DEF WireInv, ConfigPacket, ReadAsSelected, SourceBand, SrcBands, arguments
<1> QED BY <1>1, <1>2, <1>3, <1>4, <1>5 DEF Next, Server, Clients

(***************************************************************************)
(* The theorem.                                                             *)
(***************************************************************************)
AnnounceInv == TypeInv /\ PixelInv /\ ConfigInv /\ WireInv

\* The initial state.
LEMMA AnnounceInit == Selective /\ Init => AnnounceInv
<1> SUFFICES ASSUME Selective, Init PROVE AnnounceInv
  OBVIOUS
<1>1. PixelInv
  BY SilentIsModest DEF Init, MatchInv, PixelInv, Configured
<1>2. ConfigInv
  BY SilentIsSelective DEF Init, ConfigInv, RequestInv, Configured
<1>3. WireInv
  BY DEF Init, WireInv, AfterPreamble
<1> QED BY <1>1, <1>2, <1>3, TypeInit DEF AnnounceInv

\* In a selective environment the wavelength IMAGER_CONFIG announces for a band is
\* that of the source band every one of its lines is read from, whatever scene
\* switches, reconfigurations, rejected commands and broken sessions came before.
THEOREM AnnouncementsAreTrue ==
    ASSUME Selective
    PROVE  Spec => []AnnouncedMatchesSent
<1>1. Init => AnnounceInv
  BY AnnounceInit
<1>2. AnnounceInv /\ [Next]_vars => AnnounceInv'
  BY SelectiveIsModest, TypeStep, PixelStep, ConfigStep, WireStep DEF AnnounceInv
<1>3. AnnounceInv => AnnouncedMatchesSent
  <2> SUFFICES ASSUME AnnounceInv, pc = "stream", NEW k \in Sent("LINE_DATA")
               PROVE  wire[3].wavelengths[wire[k].spectral_band + 1]
                      = scene.wavelengths[wire[k].pixels.from]
    BY DEF AnnouncedMatchesSent
  <2> DEFINE b == wire[k].spectral_band
  <2>1. k \in DOMAIN wire /\ wire[k].id = "LINE_DATA"
    BY DEF Sent
  <2>2. k \in Nat /\ k > 5 /\ Len(wire) >= 5 /\ ReadAsSelected(wire[k])
    <3>1. wire \in Seq(PacketType) /\ DOMAIN wire = 1 .. Len(wire) /\ Len(wire) \in Nat
      BY DEF AnnounceInv, TypeInv, StreamInv, StreamOK
    <3> QED BY <2>1, <3>1 DEF AnnounceInv, WireInv
  <2>3. b \in BandSlots /\ b < n_bands /\ wire[k].pixels.from = SourceBand(b)
    BY <2>1, <2>2 DEF ReadAsSelected
  <2>4. wire[3] = ConfigPacket
    BY <2>2, <2>1 DEF AnnounceInv, WireInv, TypeInv, StreamInv, StreamOK
  <2>5. band_wavelengths[b] = scene.wavelengths[SourceBand(b)]
    BY <2>3 DEF AnnounceInv, ConfigInv, Configured, HalfWritten, Announced
  <2>6. wire[3].wavelengths[b + 1] = band_wavelengths[b]
    <3>1. b \in Nat /\ n_bands \in Nat
      BY <2>3, PixelNumbers DEF AnnounceInv
    <3> HIDE DEF b
    <3>2. b + 1 \in 1 .. n_bands /\ (b + 1) - 1 = b
      BY <2>3, <3>1
    <3> QED BY <2>4, <3>2 DEF ConfigPacket, ImagerConfig
  <2> QED BY <2>3, <2>5, <2>6
<1> QED BY <1>1, <1>2, <1>3, PTL DEF Spec

(***************************************************************************)
(* Answers and sessions.  A request is honoured when each of its wavelengths    *)
(* has a band near enough in every scene; a list of scenes can be honoured when  *)
(* no scene has the same wavelength twice.  Outside of that the code answers     *)
(* "ok" for fewer bands than it was asked for (run UnmatchedBands).            *)
(***************************************************************************)
Answered(c) ==
    c.magic = "RCFG" =>
        /\ c.n_bands > 0
        /\ \A dir \in Dirs : \A k \in 1 .. c.n_bands :
              Nearest(LoadedScene(dir), c.wavelengths[k]) # {}

Answerable ==
    /\ Selective
    /\ \A c \in Commands : Answered(c)
    /\ \A dir \in Dirs : \A b, m \in 0 .. LoadedScene(dir).n_bands - 1 :
          LoadedScene(dir).wavelengths[b] = LoadedScene(dir).wavelengths[m] => b = m

Honoured(b) == SourceBand(b) \in Nearest(scene, promised[b + 1])

AnswerInv ==
    /\ Answered(cmd)
    /\ pc = "match" =>
          /\ cmd.magic = "RCFG" /\ matched = i
          /\ \A b \in BandSlots : b < matched =>
                band_indices[b] \in Nearest(scene, cmd.wavelengths[b + 1])
    /\ Configured /\ ~HalfWritten =>
          /\ Len(promised) = n_bands
          /\ \A b \in BandSlots : b < n_bands => Honoured(b)

\* A band is the nearest to its own wavelength when no other has the same.
LEMMA NearestToItself ==
    ASSUME NEW s, s.n_bands \in Nat, NEW b \in 0 .. s.n_bands - 1,
           \A m \in 0 .. s.n_bands - 1 : s.wavelengths[m] \in Nat,
           \A m \in 0 .. s.n_bands - 1 : s.wavelengths[b] = s.wavelengths[m] => b = m
    PROVE  b \in Nearest(s, s.wavelengths[b])
<1>1. \A x, y \in Nat : /\ Distance(x, y) \in Nat
                        /\ Distance(x, y) = 0 <=> x = y
  BY DEF Distance
<1>2. Distance(s.wavelengths[b], s.wavelengths[b]) = 0
  BY <1>1
<1>3. ASSUME NEW m \in 0 .. s.n_bands - 1
      PROVE  /\ 0 <= Distance(s.wavelengths[b], s.wavelengths[m])
             /\ m < b => 0 # Distance(s.wavelengths[b], s.wavelengths[m])
  <2>1. /\ s.wavelengths[b] \in Nat /\ s.wavelengths[m] \in Nat
        /\ m < b => s.wavelengths[b] # s.wavelengths[m]
    OBVIOUS
  <2>2. Distance(s.wavelengths[b], s.wavelengths[m]) \in Nat
    BY <1>1, <2>1
  <2>3. m < b => Distance(s.wavelengths[b], s.wavelengths[m]) # 0
    BY <1>1, <2>1
  <2> QED BY <2>2, <2>3
<1> QED BY <1>2, <1>3 DEF Nearest, Tolerance

\* Nothing is asked for by silence, and a prefix asks for what its command does.
LEMMA SilentIsAnswered ==
    /\ Answered(Silent)
    /\ \A c : \A k : Answered(c) => Answered(Prefix(c, k))
<1>1. Silent.magic = "none"
  BY DEF Silent, Unknown
<1> QED BY <1>1 DEF Answered, Prefix

\* After a reset every band is promised as the scene has it.
LEMMA ResetHonours ==
    ASSUME Answerable, TypeInv, NEW dir \in Dirs, scene' = LoadedScene(dir),
           ResetBands(scene'), promised' = SceneWavelengths(scene')
    PROVE  /\ Len(promised') = n_bands'
           /\ \A b \in BandSlots : b < n_bands' => Honoured(b)'
<1> DEFINE s == LoadedScene(dir)
<1>1. s \in SceneType /\ s.n_bands <= MaxBands
  BY LoadedSceneType
<1>2. /\ \A b, m \in 0 .. s.n_bands - 1 : s.wavelengths[b] = s.wavelengths[m] => b = m
      /\ scene' = s
  BY DEF Answerable
<1> HIDE DEF s
<1>3. /\ s.n_bands \in Nat /\ MaxBands \in Nat
      /\ \A m \in 0 .. s.n_bands - 1 : m \in BandSlots /\ s.wavelengths[m] \in Nat
  <2>1. s.n_bands \in Nat /\ MaxBands \in Nat
    BY <1>1, Constants DEF SceneType, Byte
  <2>2. \A m \in 0 .. s.n_bands - 1 : m \in BandSlots
    BY <1>1, <2>1 DEF BandSlots
  <2>3. \A m \in BandSlots : s.wavelengths[m] \in Nat
    BY <1>1, Constants DEF SceneType, Word
  <2> QED BY <2>1, <2>2, <2>3
<1>4. n_bands' = s.n_bands /\ source_n_bands' = 0
  BY <1>2 DEF ResetBands
<1>5. promised' = [k \in 1 .. s.n_bands |-> s.wavelengths[k - 1]]
  BY <1>2 DEF SceneWavelengths
<1>6. Len(promised') = n_bands'
  BY <1>3, <1>4, <1>5
<1>7. ASSUME NEW b \in BandSlots, b < n_bands'
      PROVE  Honoured(b)'
  <2>1. b \in Nat /\ b \in 0 .. s.n_bands - 1 /\ b + 1 \in 1 .. s.n_bands /\ (b + 1) - 1 = b
    BY <1>3, <1>4, <1>7 DEF BandSlots
  <2>2. SourceBand(b)' = b
    BY <1>3, <1>4 DEF SourceBand, SrcBands
  <2>3. promised'[b + 1] = s.wavelengths[b]
    BY <1>5, <2>1
  <2>4. b \in Nearest(s, s.wavelengths[b])
    BY <1>2, <1>3, <2>1, NearestToItself
  <2> QED BY <1>2, <2>2, <2>3, <2>4 DEF Honoured
<1> QED BY <1>6, <1>7

\* One requested wavelength: it has a band, which is written down.
LEMMA MatchHonours ==
    ASSUME Answerable, AnnounceInv, AnswerInv, MatchBand
    PROVE  AnswerInv'
<1>1. /\ pc = "match" /\ pc' = "match" /\ i < cmd.n_bands /\ i' = i + 1
      /\ UNCHANGED <<scene, cmd>> /\ cmd.magic = "RCFG" /\ matched = i
      /\ matched < MaxBands
  BY DEF MatchBand, Matching, AnswerInv
<1>2. /\ i \in Nat /\ cmd.n_bands \in Nat /\ MaxBands \in Nat
      /\ band_indices \in [BandSlots -> BandSlots] /\ matched \in BandSlots
      /\ \A b \in BandSlots : b \in Nat
  BY <1>1, PixelNumbers DEF AnnounceInv, TypeInv, ConfigOK
<1>3. Nearest(scene, cmd.wavelengths[i + 1]) # {}
  <2>1. PICK dir \in Dirs : scene = LoadedScene(dir)
    BY <1>1 DEF AnnounceInv, PixelInv, SelectionInv, Configured
  <2>2. i + 1 \in 1 .. cmd.n_bands
    BY <1>1, <1>2
  <2> QED BY <1>1, <2>1, <2>2 DEF AnswerInv, Answered
<1>4. PICK j \in Nearest(scene, cmd.wavelengths[i + 1]) :
          band_indices' = [band_indices EXCEPT ![matched] = j] /\ matched' = matched + 1
  BY <1>3 DEF MatchBand
<1>5. HalfWritten'
  BY <1>1, <1>2, <1>4 DEF HalfWritten
<1>6. ASSUME NEW b \in BandSlots, b < matched'
      PROVE  band_indices'[b] \in Nearest(scene, cmd.wavelengths[b + 1])
  <2>1. CASE b = matched
    BY <1>1, <1>2, <1>4, <2>1
  <2>2. CASE b # matched
    <3>1. b < matched
      BY <1>1, <1>2, <1>4, <1>6, <2>2
    <3>2. band_indices'[b] = band_indices[b]
      BY <1>2, <1>4, <2>2
    <3> QED BY <1>1, <3>1, <3>2 DEF AnswerInv
  <2> QED BY <2>1, <2>2
<1> QED BY <1>1, <1>4, <1>5, <1>6 DEF AnswerInv, Answered

\* The end of a command: all of it matched, and it is what is promised.
LEMMA FinishHonours ==
    ASSUME Answerable, AnnounceInv, AnswerInv, FinishReconfig
    PROVE  AnswerInv'
<1>1. /\ pc = "match" /\ cmd.magic = "RCFG" /\ matched = i /\ ~Matching
      /\ cmd.n_bands > 0 /\ i <= cmd.n_bands
      /\ \A b \in BandSlots : b < matched =>
            band_indices[b] \in Nearest(scene, cmd.wavelengths[b + 1])
  BY DEF FinishReconfig, AnswerInv, Answered, AnnounceInv, PixelInv, MatchInv
<1>2. /\ matched \in Nat /\ i \in Nat /\ cmd.n_bands \in Nat /\ scene.n_bands \in Nat
      /\ MaxBands \in Nat /\ scene.n_bands <= MaxBands
  BY PixelNumbers DEF AnnounceInv
<1>3. cmd.n_bands < scene.n_bands
  <2>1. PICK dir \in Dirs : scene = LoadedScene(dir)
    BY <1>1 DEF AnnounceInv, PixelInv, SelectionInv, Configured
  <2> QED BY <2>1 DEF AnnounceInv, ConfigInv, RequestInv
<1>4. matched = cmd.n_bands /\ Reconfigured /\ matched < scene.n_bands
  BY <1>1, <1>2, <1>3 DEF Matching, Reconfigured
<1>5. /\ n_bands' = matched /\ source_n_bands' = scene.n_bands
      /\ UNCHANGED <<scene, band_indices>> /\ cmd' = Silent /\ pc' = "acceptData"
      /\ promised' = [k \in 1 .. cmd.n_bands |-> cmd.wavelengths[k]]
  BY <1>4 DEF FinishReconfig, Answer, CloseControl
<1>6. Len(promised') = n_bands'
  BY <1>2, <1>4, <1>5
<1>7. ASSUME NEW b \in BandSlots, b < n_bands'
      PROVE  Honoured(b)'
  <2>1. SourceBand(b)' = band_indices[b]
    BY <1>2, <1>4, <1>5 DEF SourceBand, SrcBands
  <2>2. b \in Nat
    BY PixelNumbers DEF AnnounceInv
  <2>3. b + 1 \in 1 .. cmd.n_bands
    BY <1>2, <1>4, <1>5, <1>7, <2>2
  <2>4. promised'[b + 1] = cmd.wavelengths[b + 1]
    BY <1>5, <2>3
  <2>5. band_indices[b] \in Nearest(scene, cmd.wavelengths[b + 1])
    BY <1>1, <1>5, <1>7
  <2> QED BY <1>5, <2>1, <2>4, <2>5 DEF Honoured
<1>8. Answered(cmd)' /\ pc' # "match"
  BY <1>5, SilentIsAnswered DEF Answered
<1> QED BY <1>6, <1>7, <1>8 DEF AnswerInv

\* Steps that leave the configuration and the promise alone keep the invariant.
LEMMA AnswerUntouched ==
    ASSUME AnswerInv, UNCHANGED <<scene, bandConfig, promised>>, Answered(cmd'),
           Configured' => Configured, pc = "match" => pc' = "match",
           pc' = "match" => \/ pc = "match" /\ UNCHANGED <<cmd, i, matched>>
                            \/ /\ pc # "match" /\ cmd'.magic = "RCFG"
                               /\ i' = 0 /\ matched' = 0,
           \A b \in BandSlots : b \in Nat
    PROVE  AnswerInv'
<1>1. /\ n_bands' = n_bands /\ band_indices' = band_indices
      /\ \A b : Honoured(b)' <=> Honoured(b)
  <2>1. /\ n_bands' = n_bands /\ band_indices' = band_indices
        /\ source_n_bands' = source_n_bands /\ scene' = scene /\ promised' = promised
    BY DEF bandConfig
  <2>2. \A b : SourceBand(b)' = SourceBand(b)
    BY <2>1 DEF SourceBand, SrcBands
  <2>3. ASSUME NEW b PROVE Honoured(b)' <=> Honoured(b)
    BY <2>1, <2>2 DEF Honoured
  <2> QED BY <2>1, <2>3
<1>2. (Answered(cmd))'
  BY DEF Answered
<1>3. ~HalfWritten' => ~HalfWritten
  BY DEF HalfWritten
<1>4. pc' = "match" =>
          /\ cmd'.magic = "RCFG" /\ matched' = i'
          /\ \A b \in BandSlots : b < matched' =>
                band_indices[b] \in Nearest(scene, cmd'.wavelengths[b + 1])
  BY DEF AnswerInv
<1> QED BY <1>1, <1>2, <1>3, <1>4 DEF AnswerInv

\* Every step keeps answers and configuration together.
LEMMA AnswerStep ==
    ASSUME Answerable, AnnounceInv, AnswerInv, [Next]_vars
    PROVE  AnswerInv'
<1>0. TypeInv /\ \A b \in BandSlots : b \in Nat
  BY PixelNumbers DEF AnnounceInv
<1>1. CASE Boot
  <2>1. SceneDir \in Dirs
    BY <1>0, DirInList DEF TypeInv, ConfigOK, SceneDir
  <2>2. /\ Len(promised') = n_bands'
        /\ \A b \in BandSlots : b < n_bands' => Honoured(b)'
    BY <1>0, <1>1, <2>1, ResetHonours DEF Boot
  <2>3. Answered(cmd)' /\ pc' # "match"
    BY <1>1 DEF Boot, AnswerInv, control, Answered
  <2> QED BY <2>2, <2>3 DEF AnswerInv
<1>2. CASE AcceptControl
  <2>1. cmd' \in Commands /\ Answered(cmd')
    BY <1>0, <1>2 DEF AcceptControl, TypeInv, ServerOK, Answerable
  <2>2. /\ UNCHANGED <<scene, bandConfig, promised>> /\ Configured
        /\ pc # "match" /\ pc' # "match"
    BY <1>2 DEF AcceptControl, arguments, bandConfig, Configured
  <2> QED BY <1>0, <2>1, <2>2, AnswerUntouched
<1>3. ASSUME NEW k \in 1 .. cmd.len, ReceiveReconfig(k)
      PROVE  AnswerInv'
  <2>1. /\ cmd' = Prefix(cmd, k) /\ cmd'.magic = "RCFG" /\ i' = 0 /\ matched' = 0
        /\ UNCHANGED <<scene, bandConfig, promised>> /\ Configured /\ pc # "match"
    BY <1>3 DEF ReceiveReconfig, ParsesReconfig, Prefix, arguments, bandConfig, Configured
  <2>2. Answered(cmd')
    BY <2>1, SilentIsAnswered DEF AnswerInv
  <2> QED BY <1>0, <2>1, <2>2, AnswerUntouched
<1>4. ASSUME NEW k \in 1 .. cmd.len, ReceiveNextScene(k)
      PROVE  AnswerInv'
  <2> DEFINE c == Advanced(current, cmd.direction, Len(Scenes))
             dir == Scenes[c + 1]
  <2>1. dir \in Dirs
    <3>1. c \in 0 .. Len(Scenes) - 1
      BY <1>0, AdvancedInRange DEF TypeInv, ConfigOK, ServerOK, CommandOK, CommandType
    <3> HIDE DEF c
    <3> QED BY <3>1, DirInList
  <2>2. /\ cmd' = Silent /\ pc # "match" /\ pc' # "match" /\ Configured
        /\ \/ /\ scene' = LoadedScene(dir) /\ ResetBands(scene')
              /\ promised' = SceneWavelengths(scene')
           \/ UNCHANGED <<scene, bandConfig, promised>>
           \/ ~LoadSucceeds(dir)
    BY <1>4 DEF ReceiveNextScene, SwitchedDir, Answer, CloseControl, Configured
  <2> HIDE DEF c, dir
  <2>3. LoadSucceeds(dir)
    BY <2>1 DEF Answerable, Selective
  <2>4. Answered(cmd')
    BY <2>2, SilentIsAnswered
  <2>5. CASE scene' = LoadedScene(dir) /\ ResetBands(scene')
             /\ promised' = SceneWavelengths(scene')
    <3>1. /\ Len(promised') = n_bands'
          /\ \A b \in BandSlots : b < n_bands' => Honoured(b)'
      BY <1>0, <2>1, <2>3, <2>5, ResetHonours
    <3> QED BY <2>2, <2>4, <3>1 DEF AnswerInv, Answered
  <2>6. CASE UNCHANGED <<scene, bandConfig, promised>>
    BY <1>0, <2>2, <2>4, <2>6, AnswerUntouched
  <2> QED BY <2>2, <2>3, <2>5, <2>6
<1>5. CASE ReceiveTooLittle \/ \E k \in 1 .. cmd.len : ReceiveUnknown(k)
  <2>1. /\ UNCHANGED <<scene, bandConfig, promised>> /\ Configured /\ pc # "match"
        /\ pc' # "match" /\ cmd' = Silent
    BY <1>5 DEF ReceiveTooLittle, ReceiveUnknown, Answer, CloseControl, arguments,
                bandConfig, Configured
  <2>2. Answered(cmd')
    BY <2>1, SilentIsAnswered
  <2> QED BY <1>0, <2>1, <2>2, AnswerUntouched
<1>6. CASE \/ BootFails \/ AcceptData \/ AcceptDataFails \/ Stream \/ BrokenPipe
           \/ CloseSession \/ AcceptControlFails \/ Clients \/ Ended \/ UNCHANGED vars
  <2>1. UNCHANGED <<scene, bandConfig, cmd, i, matched, promised>>
        /\ (Configured' => Configured)
        /\ (pc = "match" => pc' = "match") /\ (pc' = "match" => pc = "match")
    BY <1>6
    DEF BootFails, AcceptData, AcceptDataFails, Stream, StreamStep, BrokenPipe,
        CloseSession, AfterSession, AcceptControlFails, Clients, DataConnect,
        ControlConnect, Queued, DataHangup, Ended, vars, arguments, bandConfig, control,
        Configured
  <2>2. Answered(cmd')
    BY <2>1 DEF AnswerInv
  <2> QED BY <1>0, <2>1, <2>2, AnswerUntouched
<1> QED
  BY <1>1, <1>2, <1>3, <1>4, <1>5, <1>6, MatchHonours, FinishHonours
  DEF Next, Server, Receive

\* A session sends as many bands as the last command answered "ok" asked for, and
\* each from the scene's band nearest to the requested wavelength, for all scenes
\* without repeated wavelengths and all requests they can answer, whatever
\* timeouts, broken sessions, rejected or unanswered commands came in between.
THEOREM SessionsHonourAnswers ==
    ASSUME Answerable
    PROVE  Spec => []StreamHonoursAcks
<1> DEFINE I == AnnounceInv /\ AnswerInv
<1>1. Selective
  BY DEF Answerable
<1>2. Init => I
  <2>1. Init => AnswerInv
    BY SilentIsAnswered DEF Init, AnswerInv, Configured
  <2> QED BY <1>1, <2>1, AnnounceInit
<1>3. I /\ [Next]_vars => I'
  BY <1>1, SelectiveIsModest, TypeStep, PixelStep, ConfigStep, WireStep, AnswerStep
  DEF AnnounceInv
<1>4. I => StreamHonoursAcks
  <2> SUFFICES ASSUME AnnounceInv, AnswerInv, pc = "stream" PROVE StreamHonoursAcks
    BY DEF StreamHonoursAcks
  <2>1. /\ Len(promised) = n_bands
        /\ \A b \in BandSlots : b < n_bands => Honoured(b)
    BY DEF AnswerInv, Configured, HalfWritten
  <2>2. ASSUME NEW k \in Sent("IMAGER_CONFIG")
        PROVE  wire[k].spectral_bands = n_bands
    <3>1. wire[k] = ConfigPacket
      BY DEF Sent, AnnounceInv, WireInv
    <3> QED BY <3>1, PixelNumbers DEF ConfigPacket, ImagerConfig, AnnounceInv
  <2>3. ASSUME NEW k \in Sent("LINE_DATA")
        PROVE  /\ wire[k].spectral_band < n_bands
               /\ wire[k].pixels.from \in Nearest(scene, promised[wire[k].spectral_band + 1])
    <3>1. k \in DOMAIN wire /\ wire[k].id = "LINE_DATA"
      BY DEF Sent
    <3>2. ReadAsSelected(wire[k])
      BY <3>1 DEF AnnounceInv, WireInv
    <3> QED BY <2>1, <3>1, <3>2 DEF ReadAsSelected, Honoured
  <2> QED BY <2>1, <2>2, <2>3 DEF StreamHonoursAcks
<1> HIDE DEF I
<1> QED BY <1>2, <1>3, <1>4, PTL DEF Spec

(***************************************************************************)
(* Any request at all.  For every list of scenes that load, a session has one    *)
(* band for each requested wavelength that some band of the scene is near to.    *)
(* While match_bands_to_indices runs, the entries already written are those of   *)
(* the wavelengths already looked at that matched, in their order.             *)
(***************************************************************************)
Asked == Selectable(scene, promised, Len(promised))

\* The j-th wavelength of a promise has its band in the configuration in force.
Served(j) ==
    LET b == Slot(scene, promised, j) IN
    /\ n_bands = Cardinality(Asked) /\ b < n_bands
    /\ \E m \in Nearest(scene, promised[j]) : band_wavelengths[b] = scene.wavelengths[m]
    /\ n_bands < scene.n_bands => SourceBand(b) \in Nearest(scene, promised[j])

\* What the entries written so far hold.
SlotsHold(ws, n) ==
    \A j \in Selectable(scene, ws, n) :
        band_indices[Slot(scene, ws, j)] \in Nearest(scene, ws[j])

MatchedInv ==
    /\ pc = "match" =>
          /\ cmd.n_bands <= MaxBands /\ i <= cmd.n_bands /\ matched <= i
          /\ matched = Cardinality(Selectable(scene, cmd.wavelengths, i))
          /\ SlotsHold(cmd.wavelengths, i)
    /\ Configured /\ ~HalfWritten => \A j \in Asked : Served(j)

\* What the packets sent so far say is what the configuration in force says.
SentInv ==
    \A k \in DOMAIN wire :
        /\ wire[k].id = "IMAGER_CONFIG" => wire[k] = ConfigPacket
        /\ wire[k].id = "LINE_DATA"
           => wire[k].pixels.from = SourceBand(wire[k].spectral_band)

\* One more requested wavelength is one more served, or none.
LEMMA SelectableNext ==
    ASSUME NEW s, NEW ws, NEW m \in Nat
    PROVE  /\ IsFiniteSet(Selectable(s, ws, m)) /\ Cardinality(Selectable(s, ws, m)) \in Nat
           /\ Nearest(s, ws[m + 1]) = {}
              => Selectable(s, ws, m + 1) = Selectable(s, ws, m)
           /\ Nearest(s, ws[m + 1]) # {}
              => /\ Selectable(s, ws, m + 1) = Selectable(s, ws, m) \cup {m + 1}
                 /\ Cardinality(Selectable(s, ws, m + 1))
                    = Cardinality(Selectable(s, ws, m)) + 1
<1>1. IsFiniteSet(Selectable(s, ws, m)) /\ Cardinality(Selectable(s, ws, m)) \in Nat
  <2>1. IsFiniteSet(1 .. m)
    BY FS_Interval
  <2>2. Selectable(s, ws, m) \in SUBSET (1 .. m)
    BY DEF Selectable
  <2>3. IsFiniteSet(Selectable(s, ws, m))
    BY <2>1, <2>2, FS_Subset
  <2> QED BY <2>3, FS_CardinalityType
<1>2. \A k \in 1 .. m + 1 : k \in 1 .. m \/ k = m + 1
  OBVIOUS
<1>3. m + 1 \in 1 .. m + 1 /\ m + 1 \notin 1 .. m /\ \A k \in 1 .. m : k \in 1 .. m + 1
  OBVIOUS
<1>4. Nearest(s, ws[m + 1]) = {} => Selectable(s, ws, m + 1) = Selectable(s, ws, m)
  BY <1>2, <1>3 DEF Selectable
<1>5. ASSUME Nearest(s, ws[m + 1]) # {}
      PROVE  /\ Selectable(s, ws, m + 1) = Selectable(s, ws, m) \cup {m + 1}
             /\ m + 1 \notin Selectable(s, ws, m)
  BY <1>2, <1>3, <1>5 DEF Selectable
<1> QED BY <1>1, <1>4, <1>5, FS_AddElement

\* Nothing is asked for by no wavelengths.
LEMMA SelectableNone ==
    ASSUME NEW s, NEW ws
    PROVE  Selectable(s, ws, 0) = {} /\ Cardinality(Selectable(s, ws, 0)) = 0
<1>1. Selectable(s, ws, 0) = {}
  BY DEF Selectable
<1> QED BY <1>1, FS_EmptySet

\* A served wavelength has a slot of its own, below the number of those served.
LEMMA SlotBelow ==
    ASSUME NEW s, NEW ws, NEW n \in Nat, NEW j \in Selectable(s, ws, n)
    PROVE  /\ j \in 1 .. n
           /\ Slot(s, ws, j) \in Nat
           /\ Slot(s, ws, j) < Cardinality(Selectable(s, ws, n))
<1>1. j \in 1 .. n /\ j - 1 \in Nat /\ (j - 1) + 1 = j /\ Nearest(s, ws[j]) # {}
  BY DEF Selectable
<1>2. /\ Slot(s, ws, j) \in Nat
      /\ Cardinality(Selectable(s, ws, j)) = Slot(s, ws, j) + 1
  BY <1>1, SelectableNext DEF Slot
<1>3. Selectable(s, ws, j) \in SUBSET Selectable(s, ws, n)
  <2>1. \A k \in 1 .. j : k \in 1 .. n
    BY <1>1
  <2> QED BY <2>1 DEF Selectable
<1>4. IsFiniteSet(Selectable(s, ws, n)) /\ Cardinality(Selectable(s, ws, n)) \in Nat
  BY SelectableNext
<1>5. Cardinality(Selectable(s, ws, j)) <= Cardinality(Selectable(s, ws, n))
  BY <1>3, <1>4, FS_Subset
<1> QED BY <1>1, <1>2, <1>4, <1>5

\* What is served, and where, depends on the wavelengths asked for alone.
LEMMA SelectableAgrees ==
    ASSUME NEW s, NEW ws, NEW vs, NEW n \in Nat, \A k \in 1 .. n : ws[k] = vs[k]
    PROVE  /\ Selectable(s, ws, n) = Selectable(s, vs, n)
           /\ \A j \in 1 .. n : Slot(s, ws, j) = Slot(s, vs, j)
<1>1. \A m \in 0 .. n : Selectable(s, ws, m) = Selectable(s, vs, m)
  <2> SUFFICES ASSUME NEW m \in 0 .. n
               PROVE  Selectable(s, ws, m) = Selectable(s, vs, m)
    OBVIOUS
  <2>1. \A k \in 1 .. m : ws[k] = vs[k]
    OBVIOUS
  <2> QED BY <2>1 DEF Selectable
<1>2. n \in 0 .. n /\ \A j \in 1 .. n : j - 1 \in 0 .. n
  OBVIOUS
<1> QED BY <1>1, <1>2 DEF Slot

\* Every band's own wavelength has a nearest band, and that one has the same.
LEMMA NearOwn ==
    ASSUME NEW s, s.n_bands \in Nat, NEW b \in 0 .. s.n_bands - 1,
           \A m \in 0 .. s.n_bands - 1 : s.wavelengths[m] \in Nat
    PROVE  \E m \in Nearest(s, s.wavelengths[b]) : s.wavelengths[b] = s.wavelengths[m]
<1> DEFINE T == {m \in 0 .. s.n_bands - 1 : s.wavelengths[m] = s.wavelengths[b]}
<1>1. T \subseteq Nat /\ T # {}
  OBVIOUS
<1>2. PICK y \in T : \A z \in T : ~ (<<z, y>> \in OpToRel(<, Nat))
  <2> HIDE DEF T
  <2> QED BY <1>1, NatLessThanWellFounded, WFMin
<1>3. /\ y \in 0 .. s.n_bands - 1 /\ s.wavelengths[y] = s.wavelengths[b]
      /\ \A z \in T : ~(z < y)
  BY <1>1, <1>2 DEF OpToRel
<1>4. \A u, v \in Nat : Distance(u, v) \in Nat /\ (Distance(u, v) = 0 <=> u = v)
  BY DEF Distance
<1>5. Distance(s.wavelengths[b], s.wavelengths[y]) = 0
  BY <1>3, <1>4
<1>6. ASSUME NEW m \in 0 .. s.n_bands - 1
      PROVE  /\ 0 <= Distance(s.wavelengths[b], s.wavelengths[m])
             /\ m < y => 0 # Distance(s.wavelengths[b], s.wavelengths[m])
  <2>1. s.wavelengths[b] \in Nat /\ s.wavelengths[m] \in Nat
    OBVIOUS
  <2>2. Distance(s.wavelengths[b], s.wavelengths[m]) \in Nat
    BY <1>4, <2>1
  <2>3. m < y => s.wavelengths[b] # s.wavelengths[m]
    BY <1>3
  <2>4. m < y => Distance(s.wavelengths[b], s.wavelengths[m]) # 0
    BY <1>4, <2>1, <2>3
  <2> QED BY <2>2, <2>4
<1>7. y \in Nearest(s, s.wavelengths[b])
  BY <1>3, <1>5, <1>6 DEF Nearest, Tolerance
<1> QED BY <1>3, <1>7

\* After a reset every band of the scene is promised, and has its own wavelength.
LEMMA ResetServes ==
    ASSUME TypeInv, NEW dir \in Dirs, scene' = LoadedScene(dir), ResetBands(scene'),
           promised' = SceneWavelengths(scene')
    PROVE  (\A j \in Asked : Served(j))'
<1> DEFINE s == LoadedScene(dir)
           ws == [k \in 1 .. s.n_bands |-> s.wavelengths[k - 1]]
<1>1. s \in SceneType /\ s.n_bands <= MaxBands /\ scene' = s
  BY LoadedSceneType
<1> HIDE DEF s
<1>2. /\ s.n_bands \in Nat /\ MaxBands \in Nat
      /\ \A m \in 0 .. s.n_bands - 1 : m \in BandSlots /\ s.wavelengths[m] \in Nat
  <2>1. s.n_bands \in Nat /\ MaxBands \in Nat
    BY <1>1, Constants DEF SceneType, Byte
  <2>2. \A m \in 0 .. s.n_bands - 1 : m \in BandSlots
    BY <1>1, <2>1 DEF BandSlots
  <2>3. \A m \in BandSlots : s.wavelengths[m] \in Nat
    BY <1>1, Constants DEF SceneType, Word
  <2> QED BY <2>1, <2>2, <2>3
<1>3. /\ n_bands' = s.n_bands /\ promised' = ws /\ Len(ws) = s.n_bands
      /\ band_wavelengths' = [b \in BandSlots |->
             IF b < s.n_bands THEN s.wavelengths[b] ELSE band_wavelengths[b]]
  BY <1>1, <1>2 DEF ResetBands, SceneWavelengths
<1>4. \A j \in 1 .. s.n_bands : /\ j - 1 \in 0 .. s.n_bands - 1
                                /\ ws[j] = s.wavelengths[j - 1]
  BY <1>2
<1>5. ASSUME NEW j \in 1 .. s.n_bands
      PROVE  \E m \in Nearest(s, ws[j]) : s.wavelengths[j - 1] = s.wavelengths[m]
  BY <1>2, <1>4, NearOwn
<1> HIDE DEF ws
<1>6. ASSUME NEW m \in 0 .. s.n_bands
      PROVE  Selectable(s, ws, m) = 1 .. m /\ Cardinality(Selectable(s, ws, m)) = m
  <2>1. \A j \in 1 .. m : j \in 1 .. s.n_bands
    BY <1>2
  <2>2. \A j \in 1 .. m : Nearest(s, ws[j]) # {}
    BY <1>5, <2>1
  <2>3. Selectable(s, ws, m) = 1 .. m
    BY <2>2 DEF Selectable
  <2>4. Cardinality(1 .. m) = m
    BY <1>2, FS_Interval
  <2> QED BY <2>3, <2>4
<1>7. Asked' = 1 .. s.n_bands /\ Cardinality(Asked') = s.n_bands
  <2>1. Asked' = Selectable(s, ws, s.n_bands) /\ s.n_bands \in 0 .. s.n_bands
    BY <1>1, <1>2, <1>3 DEF Asked
  <2> QED BY <1>6, <2>1
<1>8. ASSUME NEW j \in 1 .. s.n_bands
      PROVE  Served(j)'
  <2>1. j - 1 \in 0 .. s.n_bands /\ j - 1 \in BandSlots /\ j - 1 < s.n_bands
    BY <1>2, <1>4
  <2>2. Slot(s, ws, j) = j - 1
    BY <1>6, <2>1 DEF Slot
  <2>3. band_wavelengths'[j - 1] = s.wavelengths[j - 1]
    BY <1>3, <2>1
  <2> QED BY <1>1, <1>2, <1>3, <1>5, <1>7, <2>1, <2>2, <2>3 DEF Served
<1> QED BY <1>7, <1>8

\* One wavelength looked at: it gets the next entry if some band is near to it.
LEMMA MatchServes ==
    ASSUME TypeInv, MatchedInv, MatchBand
    PROVE  MatchedInv'
<1> DEFINE ws == cmd.wavelengths
           S == Selectable(scene, ws, i)
<1>1. /\ pc = "match" /\ pc' = "match" /\ i < cmd.n_bands /\ i' = i + 1
      /\ UNCHANGED <<scene, cmd, n_bands, band_wavelengths, source_n_bands, promised>>
      /\ matched < MaxBands /\ cmd.n_bands <= MaxBands /\ matched <= i
      /\ matched = Cardinality(S) /\ SlotsHold(ws, i)
  BY DEF MatchBand, Matching, MatchedInv
<1>2. /\ i \in Nat /\ cmd.n_bands \in Nat /\ MaxBands \in Nat /\ matched \in Nat
      /\ band_indices \in [BandSlots -> BandSlots] /\ matched \in BandSlots
  <2>1. /\ i \in Nat /\ cmd.n_bands \in Nat /\ MaxBands \in Nat /\ matched \in Nat
        /\ band_indices \in [BandSlots -> BandSlots]
    BY Constants DEF TypeInv, ConfigOK, ServerOK, CommandOK, CommandType
  <2> QED BY <1>1, <2>1 DEF BandSlots
<1>3. cmd' = cmd /\ ws' = ws /\ scene' = scene
  BY <1>1
<1>4. CASE Nearest(scene, ws[i + 1]) = {}
  <2>1. UNCHANGED <<band_indices, matched>>
    BY <1>4 DEF MatchBand
  <2>2. Selectable(scene, ws, i + 1) = S
    BY <1>2, <1>4, SelectableNext
  <2>3. SlotsHold(ws, i)'
    BY <1>1, <1>3, <2>1, <2>2 DEF SlotsHold
  <2>4. (\A j \in Asked : Served(j))' <=> \A j \in Asked : Served(j)
    BY <1>1, <2>1 DEF Asked, Served, SourceBand, SrcBands
  <2>5. (Configured' <=> Configured) /\ (HalfWritten' <=> HalfWritten)
    BY <1>1, <2>1 DEF Configured, HalfWritten
  <2> HIDE DEF ws, S
  <2>6. i' <= cmd.n_bands /\ matched' <= i' /\ matched' = Cardinality(Selectable(scene, ws, i'))
    BY <1>1, <1>2, <2>1, <2>2
  <2> QED BY <1>1, <1>3, <2>3, <2>4, <2>5, <2>6 DEF MatchedInv, ws
<1>5. CASE Nearest(scene, ws[i + 1]) # {}
  <2>1. PICK m \in Nearest(scene, ws[i + 1]) :
            band_indices' = [band_indices EXCEPT ![matched] = m] /\ matched' = matched + 1
    BY <1>5 DEF MatchBand
  <2>2. /\ Selectable(scene, ws, i + 1) = S \cup {i + 1}
        /\ Cardinality(Selectable(scene, ws, i + 1)) = matched'
    BY <1>1, <1>2, <1>5, <2>1, SelectableNext
  <2>3. ASSUME NEW j \in Selectable(scene, ws, i + 1)
        PROVE  band_indices'[Slot(scene, ws, j)] \in Nearest(scene, ws[j])
    <3>1. CASE j = i + 1
      <4>1. (i + 1) - 1 = i
        BY <1>2
      <4>2. Slot(scene, ws, j) = matched
        BY <1>1, <3>1, <4>1 DEF Slot
      <4>3. band_indices'[matched] = m
        BY <1>2, <2>1
      <4> QED BY <2>1, <3>1, <4>2, <4>3
    <3>2. CASE j \in S
      <4>1. Slot(scene, ws, j) # matched
        BY <1>1, <1>2, <3>2, SlotBelow
      <4>2. band_indices'[Slot(scene, ws, j)] = band_indices[Slot(scene, ws, j)]
        <5>1. Slot(scene, ws, j) \in BandSlots
          BY <1>1, <1>2, <3>2, SlotBelow DEF BandSlots
        <5> QED BY <1>2, <2>1, <4>1, <5>1
      <4> QED BY <1>1, <3>2, <4>2 DEF SlotsHold
    <3> QED BY <2>2, <3>1, <3>2
  <2>4. SlotsHold(ws, i)'
    BY <1>1, <1>3, <2>3 DEF SlotsHold
  <2>5. HalfWritten'
    BY <1>1, <1>2, <2>1 DEF HalfWritten
  <2> HIDE DEF ws, S
  <2>6. i' <= cmd.n_bands /\ matched' <= i' /\ matched' = Cardinality(Selectable(scene, ws, i'))
    BY <1>1, <1>2, <2>1, <2>2
  <2> QED BY <1>1, <1>3, <2>4, <2>5, <2>6 DEF MatchedInv, ws
<1> QED BY <1>4, <1>5

\* The end of a command: every wavelength was looked at, and those that matched are
\* what the sessions announce and send from now on.
LEMMA FinishServes ==
    ASSUME TypeInv, MatchedInv, FinishReconfig
    PROVE  MatchedInv'
<1> DEFINE ws == cmd.wavelengths
           n  == cmd.n_bands
           S  == Selectable(scene, ws, n)
<1>1. /\ pc = "match" /\ ~Matching /\ n <= MaxBands /\ i <= n /\ matched <= i
      /\ matched = Cardinality(Selectable(scene, ws, i)) /\ SlotsHold(ws, i)
      /\ pc' = "acceptData" /\ UNCHANGED <<scene, band_indices>>
      /\ promised' = [k \in 1 .. n |-> ws[k]]
  BY DEF FinishReconfig, Answer, CloseControl, MatchedInv
<1>2. /\ i \in Nat /\ n \in Nat /\ MaxBands \in Nat /\ matched \in Nat
      /\ matched <= MaxBands
      /\ band_indices \in [BandSlots -> BandSlots] /\ scene.n_bands \in Nat
  BY Constants DEF TypeInv, ConfigOK, ServerOK, CommandOK, CommandType, SceneType, Byte
<1>3. i = n
  BY <1>1, <1>2 DEF Matching
<1>4. Len(promised') = n /\ \A k \in 1 .. n : promised'[k] = ws[k]
  BY <1>1, <1>2
<1> DEFINE q == promised'
<1> HIDE DEF n, ws
<1>5. /\ Selectable(scene, q, n) = S
      /\ \A j \in 1 .. n : Slot(scene, q, j) = Slot(scene, ws, j)
  <2> HIDE DEF q
  <2>1. \A k \in 1 .. n : q[k] = ws[k]
    BY <1>4 DEF q
  <2> QED BY <1>2, <2>1, SelectableAgrees
<1>6. Asked' = S
  BY <1>1, <1>4, <1>5 DEF Asked
<1>7. Cardinality(S) = matched
  BY <1>1, <1>3
<1>8. ASSUME NEW j \in S
      PROVE  Served(j)'
  <2>1. PICK b \in Nat : b = Slot(scene, ws, j)
    BY <1>2, SlotBelow
  <2>2. j \in 1 .. n /\ b < matched
    BY <1>2, <1>7, <2>1, SlotBelow
  <2>3. b \in BandSlots /\ Slot(scene', promised', j) = b /\ promised'[j] = ws[j]
    BY <1>1, <1>2, <1>4, <1>5, <2>1, <2>2 DEF BandSlots
  <2>4. band_indices[b] \in Nearest(scene, ws[j])
    BY <1>1, <1>3, <2>1 DEF SlotsHold
  <2>5. Reconfigured
    BY <1>2, <2>2 DEF Reconfigured
  <2>6. /\ n_bands' = matched /\ source_n_bands' = scene.n_bands
        /\ band_wavelengths'[b] = scene.wavelengths[band_indices[b]]
    BY <2>2, <2>3, <2>5 DEF FinishReconfig, MatchedWavelength
  <2>7. matched < scene.n_bands => SourceBand(b)' = band_indices[b]
    BY <1>1, <1>2, <2>6 DEF SourceBand, SrcBands
  <2> QED BY <1>1, <1>6, <1>7, <2>2, <2>3, <2>4, <2>6, <2>7 DEF Served
<1> QED BY <1>1, <1>6, <1>8 DEF MatchedInv

\* Steps that leave the configuration and the promise alone keep the invariant.
LEMMA MatchedUntouched ==
    ASSUME MatchedInv, UNCHANGED <<scene, bandConfig, promised>>,
           Configured' => Configured, HalfWritten => HalfWritten',
           pc' = "match" => \/ pc = "match" /\ UNCHANGED <<cmd, i, matched>>
                            \/ /\ cmd'.n_bands \in Nat /\ cmd'.n_bands <= MaxBands
                               /\ i' = 0 /\ matched' = 0
    PROVE  MatchedInv'
<1>1. /\ n_bands' = n_bands /\ band_indices' = band_indices
      /\ band_wavelengths' = band_wavelengths /\ source_n_bands' = source_n_bands
      /\ scene' = scene /\ promised' = promised
  BY DEF bandConfig
<1>2. (\A j \in Asked : Served(j))' <=> \A j \in Asked : Served(j)
  BY <1>1 DEF Asked, Served, SourceBand, SrcBands
<1>3. CASE pc' = "match" /\ i' = 0 /\ matched' = 0 /\ cmd'.n_bands \in Nat
           /\ cmd'.n_bands <= MaxBands
  <2>1. SlotsHold(cmd.wavelengths, i)'
    BY <1>3, SelectableNone DEF SlotsHold
  <2>2. matched' = Cardinality(Selectable(scene', cmd'.wavelengths, i'))
    BY <1>3, SelectableNone
  <2>3. cmd'.n_bands <= MaxBands /\ i' <= cmd'.n_bands /\ matched' <= i'
    BY <1>3
  <2> QED BY <1>2, <2>1, <2>2, <2>3 DEF MatchedInv
<1>4. CASE pc' = "match" /\ pc = "match" /\ UNCHANGED <<cmd, i, matched>>
  <2>1. SlotsHold(cmd.wavelengths, i)' <=> SlotsHold(cmd.wavelengths, i)
    BY <1>1, <1>4 DEF SlotsHold
  <2> QED BY <1>1, <1>2, <1>4, <2>1 DEF MatchedInv
<1>5. CASE pc' # "match"
  BY <1>2, <1>5 DEF MatchedInv
<1> QED BY <1>3, <1>4, <1>5

\* Every step keeps what the server has written down for a request in its place.
LEMMA MatchedStep ==
    ASSUME Loadable, TypeInv, MatchedInv, [Next]_vars
    PROVE  MatchedInv'
<1>1. CASE Boot
  <2>1. SceneDir \in Dirs
    BY DirInList DEF TypeInv, ConfigOK, SceneDir
  <2>2. (\A j \in Asked : Served(j))'
    BY <1>1, <2>1, ResetServes DEF Boot
  <2> QED BY <1>1, <2>2 DEF Boot, MatchedInv
<1>2. ASSUME NEW k \in 1 .. cmd.len, ReceiveReconfig(k)
      PROVE  MatchedInv'
  <2>1. /\ cmd' = Prefix(cmd, k) /\ cmd'.n_bands <= MaxBands /\ cmd'.n_bands \in Nat
        /\ i' = 0 /\ matched' = 0 /\ UNCHANGED <<scene, bandConfig, promised>>
        /\ Configured /\ ~HalfWritten
    BY <1>2
    DEF ReceiveReconfig, ParsesReconfig, Prefix, arguments, bandConfig, Configured,
        HalfWritten, TypeInv, ServerOK, CommandOK, CommandType
  <2> QED BY <2>1, MatchedUntouched
<1>3. ASSUME NEW k \in 1 .. cmd.len, ReceiveNextScene(k)
      PROVE  MatchedInv'
  <2> DEFINE c == Advanced(current, cmd.direction, Len(Scenes))
             dir == Scenes[c + 1]
  <2>1. dir \in Dirs
    <3>1. c \in 0 .. Len(Scenes) - 1
      BY AdvancedInRange DEF TypeInv, ConfigOK, ServerOK, CommandOK, CommandType
    <3> HIDE DEF c
    <3> QED BY <3>1, DirInList
  <2>2. /\ pc' # "match" /\ Configured /\ ~HalfWritten
        /\ \/ /\ scene' = LoadedScene(dir) /\ ResetBands(scene')
              /\ promised' = SceneWavelengths(scene')
           \/ UNCHANGED <<scene, bandConfig, promised>>
           \/ ~LoadSucceeds(dir)
    BY <1>3 DEF ReceiveNextScene, SwitchedDir, Answer, CloseControl, Configured, HalfWritten
  <2> HIDE DEF c, dir
  <2>3. LoadSucceeds(dir)
    BY <2>1 DEF Loadable
  <2>4. CASE scene' = LoadedScene(dir) /\ ResetBands(scene')
             /\ promised' = SceneWavelengths(scene')
    <3>1. (\A j \in Asked : Served(j))'
      BY <2>1, <2>3, <2>4, ResetServes
    <3> QED BY <2>2, <3>1 DEF MatchedInv
  <2>5. CASE UNCHANGED <<scene, bandConfig, promised>>
    BY <2>2, <2>5, MatchedUntouched
  <2> QED BY <2>2, <2>3, <2>4, <2>5
<1>4. CASE \/ AcceptControl \/ ReceiveTooLittle
           \/ \E k \in 1 .. cmd.len : ReceiveUnknown(k)
  <2>1. /\ UNCHANGED <<scene, bandConfig, promised>> /\ Configured /\ ~HalfWritten
        /\ pc' # "match"
    BY <1>4 DEF AcceptControl, ReceiveTooLittle, ReceiveUnknown, Answer, CloseControl,
                arguments, bandConfig, Configured, HalfWritten
  <2> QED BY <2>1, MatchedUntouched
<1>5. CASE \/ BootFails \/ AcceptData \/ AcceptDataFails \/ Stream \/ BrokenPipe
           \/ CloseSession \/ AcceptControlFails \/ Clients \/ Ended \/ UNCHANGED vars
  <2>1. /\ UNCHANGED <<scene, bandConfig, cmd, i, matched, promised>>
        /\ (Configured' => Configured) /\ (HalfWritten => HalfWritten')
        /\ (pc' = "match" => pc = "match")
    BY <1>5
    DEF BootFails, AcceptData, AcceptDataFails, Stream, StreamStep, BrokenPipe,
        CloseSession, AfterSession, AcceptControlFails, Clients, DataConnect,
        ControlConnect, Queued, DataHangup, Ended, vars, arguments, bandConfig, control,
        Configured, HalfWritten
  <2> QED BY <2>1, MatchedUntouched
<1> QED
  BY <1>1, <1>2, <1>3, <1>4, <1>5, MatchServes, FinishServes DEF Next, Server, Receive

\* A packet more says what the configuration says.
LEMMA SendKeepsSent ==
    ASSUME TypeInv, SentInv, UNCHANGED arguments,
           NEW p \in PacketType, wire' = Append(wire, p),
           p.id = "IMAGER_CONFIG" => p = ConfigPacket,
           p.id = "LINE_DATA" => p.pixels.from = SourceBand(p.spectral_band)
    PROVE  SentInv'
<1>1. wire \in Seq(PacketType) /\ Len(wire) \in Nat
  BY DEF TypeInv, StreamInv, StreamOK
<1>2. /\ DOMAIN wire' = 1 .. Len(wire) + 1 /\ DOMAIN wire = 1 .. Len(wire)
      /\ \A k \in 1 .. Len(wire) : wire'[k] = wire[k]
      /\ wire'[Len(wire) + 1] = p
      /\ \A k \in 1 .. Len(wire) + 1 : k \in 1 .. Len(wire) \/ k = Len(wire) + 1
  BY <1>1
<1>3. ConfigPacket' = ConfigPacket
  BY DEF ConfigPacket, arguments
<1>4. n_bands' = n_bands /\ band_indices' = band_indices /\ source_n_bands' = source_n_bands
  BY DEF arguments
<1>5. ASSUME NEW k \in DOMAIN wire'
      PROVE  /\ wire'[k].id = "IMAGER_CONFIG" => wire'[k] = ConfigPacket
             /\ wire'[k].id = "LINE_DATA"
                => wire'[k].pixels.from = SourceBand(wire'[k].spectral_band)
  BY <1>2 DEF SentInv
<1> QED BY <1>3, <1>4, <1>5 DEF SentInv, SourceBand, SrcBands

\* Every step keeps the packets already sent true to the configuration in force,
\* which changes only between connections.
LEMMA SentStep ==
    ASSUME TypeInv, SentInv, [Next]_vars
    PROVE  SentInv'
<1>0. /\ stage = "idle" => wire = <<>>
      /\ pc \notin {"stream", "killed"} => stage = "idle"
      /\ ConfigOK /\ StreamOK
  BY DEF TypeInv, StreamInv, Phase
<1>1. CASE Stream
  <2>0. UNCHANGED arguments /\ StreamStep
    BY <1>1 DEF Stream, StreamStep
  <2>1. CASE SendPreamble
    <3>1. Len(wire) + 1 \in 1 .. 5
      BY <2>1 DEF SendPreamble, TypeInv, StreamInv, StreamOK
    <3>2. Preamble[Len(wire) + 1] \in PacketType
      BY <1>0, <3>1, PreambleType
    <3>3. /\ Preamble[Len(wire) + 1].id # "LINE_DATA"
          /\ Preamble[Len(wire) + 1].id = "IMAGER_CONFIG"
             => Preamble[Len(wire) + 1] = ConfigPacket
      BY <3>1, PreamblePackets
    <3> QED BY <2>0, <2>1, <3>2, <3>3, SendKeepsSent DEF SendPreamble, Send
  <2>2. CASE SendLineData
    <3> DEFINE p == LineData(band, line, [stride |-> SrcBands, from |-> SourceBand(band)])
    <3>1. wire' = Append(wire, p)
      BY <2>2 DEF SendLineData, Send
    <3>2. p \in PacketType
      BY <1>0, LinePacketTypes
    <3>3. p.id = "LINE_DATA" /\ p.pixels.from = SourceBand(p.spectral_band)
      BY DEF LineData
    <3> HIDE DEF p
    <3> QED BY <2>0, <3>1, <3>2, <3>3, SendKeepsSent
  <2>3. CASE SendTelemetry \/ SendExposureStart \/ SendFinalTelemetry \/ SendSessionEnd
    <3>1. PICK p \in PacketType :
            wire' = Append(wire, p) /\ p.id \notin {"LINE_DATA", "IMAGER_CONFIG"}
      BY <1>0, <2>3, LinePacketTypes
      DEF SendTelemetry, SendExposureStart, SendFinalTelemetry, SendSessionEnd, Send,
          Telemetry, ExposureStart, SessionEnd
    <3> QED BY <2>0, <3>1, SendKeepsSent
  <2>4. CASE Allocate \/ LoadLine \/ LinesDone \/ SendFails
    <3>1. UNCHANGED wire
      BY <2>4 DEF Allocate, LoadLine, LinesDone, SendFails
    <3> QED BY <2>0, <3>1 DEF SentInv, ConfigPacket, SourceBand, SrcBands, arguments
  <2> QED BY <2>0, <2>1, <2>2, <2>3, <2>4 DEF StreamStep
<1>2. CASE AcceptData \/ DataHangup \/ BrokenPipe \/ DataConnect \/ ControlConnect
           \/ Ended \/ UNCHANGED vars
  <2>1. UNCHANGED <<arguments, wire>>
    BY <1>2 DEF AcceptData, Begin, DataHangup, Hangup, BrokenPipe, DataConnect,
                ControlConnect, Queued, Ended, vars, locals
  <2> QED BY <2>1 DEF SentInv, ConfigPacket, SourceBand, SrcBands, arguments
<1>3. CASE \/ CloseSession \/ Boot \/ BootFails \/ AcceptDataFails \/ AcceptControl
           \/ AcceptControlFails \/ ReceiveTooLittle \/ Receive \/ MatchBand
           \/ FinishReconfig
  <2>1. wire' = <<>>
    BY <1>0, <1>3
    DEF CloseSession, Return, Boot, BootFails, AcceptDataFails, AcceptControl,
        AcceptControlFails, ReceiveTooLittle, Receive, ReceiveReconfig,
        ReceiveNextScene, ReceiveUnknown, MatchBand, FinishReconfig, locals
  <2> QED BY <2>1 DEF SentInv
<1> QED BY <1>1, <1>2, <1>3 DEF Next, Server, Clients

\* Every session has one band for each wavelength of the promise that some band of
\* the scene is near to, at its place among those, announces it with its own
\* wavelength, and, while the selection is smaller than the scene, sends its pixels:
\* for every list of scenes that load and any commands at all, in any order.
THEOREM SessionsFollowMatches ==
    ASSUME Loadable
    PROVE  Spec => []StreamsWhatMatched
<1> DEFINE I == TypeInv /\ MatchedInv /\ SentInv
<1>1. Init => I
  <2>1. Init => MatchedInv
    BY DEF Init, MatchedInv, Configured
  <2>2. Init => SentInv
    BY DEF Init, SentInv
  <2> QED BY <2>1, <2>2, TypeInit
<1>2. I /\ [Next]_vars => I'
  BY TypeStep, MatchedStep, SentStep
<1>3. I => StreamsWhatMatched
  <2> SUFFICES ASSUME TypeInv, MatchedInv, SentInv, pc = "stream",
                      NEW j \in Asked
               PROVE  LET b       == Slot(scene, promised, j)
                          nearest == Nearest(scene, promised[j])
                      IN  /\ \A k \in Sent("IMAGER_CONFIG") :
                                /\ wire[k].spectral_bands = Cardinality(Asked)
                                /\ wire[k].wavelengths[b + 1]
                                       \in {scene.wavelengths[m] : m \in nearest}
                          /\ Cardinality(Asked) < scene.n_bands =>
                                \A k \in Sent("LINE_DATA") :
                                    wire[k].spectral_band = b
                                    => wire[k].pixels.from \in nearest
    BY DEF StreamsWhatMatched, Asked
  <2> DEFINE b == Slot(scene, promised, j)
  <2>1. Served(j)
    BY DEF MatchedInv, Configured, HalfWritten
  <2>2. b \in Nat /\ b < n_bands /\ n_bands \in Nat /\ n_bands = Cardinality(Asked)
    <3>1. Len(promised) \in Nat
      BY DEF TypeInv, ServerOK
    <3>2. n_bands \in Nat
      BY Constants DEF TypeInv, ConfigOK
    <3> QED BY <2>1, <3>1, <3>2, SlotBelow DEF Served, Asked
  <2>3. ASSUME NEW k \in Sent("IMAGER_CONFIG")
        PROVE  /\ wire[k].spectral_bands = n_bands
               /\ wire[k].wavelengths[b + 1] = band_wavelengths[b]
    <3> HIDE DEF b
    <3>1. wire[k] = ConfigPacket
      BY DEF Sent, SentInv
    <3>2. b + 1 \in 1 .. n_bands /\ (b + 1) - 1 = b
      BY <2>2
    <3> QED BY <2>2, <3>1, <3>2 DEF ConfigPacket, ImagerConfig
  <2>4. ASSUME NEW k \in Sent("LINE_DATA"), wire[k].spectral_band = b
        PROVE  wire[k].pixels.from = SourceBand(b)
    BY <2>4 DEF Sent, SentInv
  <2> QED BY <2>1, <2>2, <2>3, <2>4 DEF Served
<1> HIDE DEF I
<1> QED BY <1>1, <1>2, <1>3, PTL DEF Spec
=============================================================================
