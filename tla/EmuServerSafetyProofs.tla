----------------------- MODULE EmuServerSafetyProofs -----------------------
(***************************************************************************)
(* Safety of the emulator server for every value of the constants, from the   *)
(* type invariant of EmuServerProofs: identifiers are fresh, the session limit *)
(* is exact, and, for scenes that load and requests that name no more bands    *)
(* than a scene has, no pixel is read outside its own samples.               *)
(***************************************************************************)
EXTENDS EmuServerProofs

(***************************************************************************)
(* Identifiers.  What is proved of every step is that the first packet of a    *)
(* connection carries the identifier the server still holds; only the closing  *)
(* of the connection changes the one, and it forgets the other.              *)
(***************************************************************************)
AfterPreamble == {"line", "IMAGER_TELEMETRY", "EXPOSURE_START", "LINE_DATA",
                  "FINAL_TELEMETRY", "SESSION_END", "done"}

IdInv ==
    /\ stage \in AfterPreamble => wire # <<>>
    /\ wire # <<>> => wire[1] = SessionStart(session_id)

\* Appending leaves the first packet where it is.
LEMMA AppendFirst ==
    ASSUME NEW S, NEW s \in Seq(S), NEW e \in S
    PROVE  /\ Append(s, e) # <<>>
           /\ s # <<>> => Append(s, e)[1] = s[1]
           /\ s = <<>> => Append(s, e)[1] = e
  OBVIOUS

\* The next identifier differs from the current one: there are at least two.
LEMMA NextIdDiffers ==
    ASSUME NEW a \in 0 .. SessionIds - 1
    PROVE  (a + 1) % SessionIds # a
<1>1. SessionIds \in Nat /\ SessionIds > 1
  BY Constants
<1>2. CASE a + 1 < SessionIds
  <2>1. (a + 1) % SessionIds = a + 1
    BY <1>1, <1>2
  <2> QED BY <2>1
<1>3. CASE ~(a + 1 < SessionIds)
  <2>1. a + 1 = SessionIds
    BY <1>1, <1>3
  <2>2. (a + 1) % SessionIds = 0
    BY <1>1, <2>1
  <2> QED BY <1>1, <2>1, <2>2
<1> QED BY <1>2, <1>3

\* A packet of the session keeps the identifier in front.
LEMMA SendKeepsId ==
    ASSUME TypeInv, IdInv, UNCHANGED session_id,
           NEW p \in PacketType, wire' = Append(wire, p),
           wire = <<>> => p = SessionStart(session_id)
    PROVE  IdInv'
<1>1. wire \in Seq(PacketType)
  BY DEF TypeInv, StreamInv, StreamOK
<1>2. wire' # <<>> /\ wire'[1] = SessionStart(session_id)
  BY <1>1, AppendFirst DEF IdInv
<1> QED BY <1>2 DEF IdInv, SessionStart

\* Every statement of stream_session keeps the identifier in front.
LEMMA StreamStepKeepsId ==
    ASSUME TypeInv, IdInv, StreamStep
    PROVE  IdInv'
<1>1. ConfigOK /\ StreamOK /\ UNCHANGED session_id
  BY DEF TypeInv, StreamInv, StreamStep, arguments
<1>2. CASE SendPreamble
  <2>1. Len(wire) + 1 \in 1 .. 5
    BY <1>1, <1>2 DEF SendPreamble, TypeInv, StreamInv, StreamOK
  <2>2. Preamble[Len(wire) + 1] \in PacketType
    BY <1>1, <2>1, PreambleType
  <2>3. wire = <<>> => Preamble[Len(wire) + 1] = SessionStart(session_id)
    BY DEF Preamble
  <2> QED BY <1>1, <1>2, <2>2, <2>3, SendKeepsId DEF SendPreamble, Send
<1>3. CASE SendTelemetry \/ SendExposureStart \/ SendLineData \/ SendFinalTelemetry
           \/ SendSessionEnd
  <2>1. stage \in AfterPreamble
    BY <1>3 DEF SendTelemetry, SendExposureStart, SendLineData, SendFinalTelemetry,
                SendSessionEnd, AfterPreamble
  <2>2. PICK p \in PacketType : wire' = Append(wire, p)
    BY <1>1, <1>3, LinePacketTypes
    DEF SendTelemetry, SendExposureStart, SendLineData, SendFinalTelemetry,
        SendSessionEnd, Send
  <2> QED BY <1>1, <2>1, <2>2, SendKeepsId DEF IdInv
<1>4. CASE Allocate \/ LoadLine \/ LinesDone \/ SendFails
  <2>1. UNCHANGED wire
    BY <1>4 DEF Allocate, LoadLine, LinesDone, SendFails
  <2>2. stage' \in AfterPreamble => stage \in AfterPreamble
    BY <1>4 DEF Allocate, LoadLine, LinesDone, SendFails, AfterPreamble
  <2> QED BY <1>1, <2>1, <2>2 DEF IdInv, SessionStart
<1> QED BY <1>2, <1>3, <1>4 DEF StreamStep

\* A step keeps the identifier in front, or it closes the connection.
LEMMA IdStep ==
    ASSUME TypeInv, IdInv, [Next]_vars
    PROVE  IdInv' /\ (wire # <<>> /\ wire' = <<>> => session_id' # wire[1].session_id)
<1>1. CASE Stream
  <2>1. IdInv'
    BY <1>1, StreamStepKeepsId DEF Stream
  <2>2. wire' # <<>> \/ UNCHANGED wire
    <3>1. wire \in Seq(PacketType)
      BY DEF TypeInv, StreamInv, StreamOK
    <3>2. ASSUME NEW p PROVE Append(wire, p) # <<>>
      <4>1. wire \in Seq(PacketType \cup {p})
        BY <3>1
      <4> QED BY <4>1, AppendFirst
    <3> QED BY <1>1, <3>2
      DEF Stream, StreamStep, Allocate, SendPreamble, LoadLine, LinesDone, SendTelemetry,
          SendExposureStart, SendLineData, SendFinalTelemetry, SendSessionEnd, SendFails,
          Send
  <2> QED BY <2>1, <2>2
<1>2. CASE CloseSession
  <2>1. wire' = <<>> /\ stage' = "idle"
    BY <1>2 DEF CloseSession, Return
  <2>2. session_id' # session_id
    BY <1>2, NextIdDiffers DEF CloseSession, NextSessionId, TypeInv, ConfigOK
  <2> QED BY <2>1, <2>2 DEF IdInv, AfterPreamble, SessionStart
<1>3. CASE AcceptData
  BY <1>3 DEF AcceptData, Begin, IdInv, AfterPreamble, SessionStart, arguments
<1>4. CASE DataHangup
  BY <1>4 DEF DataHangup, Hangup, IdInv, AfterPreamble, SessionStart, arguments
<1>5. CASE \/ Boot \/ BootFails \/ AcceptDataFails \/ BrokenPipe \/ AcceptControl
           \/ AcceptControlFails \/ ReceiveTooLittle \/ Receive \/ MatchBand
           \/ FinishReconfig \/ DataConnect \/ ControlConnect \/ Ended \/ UNCHANGED vars
  <2>1. UNCHANGED <<stage, wire, session_id>>
    BY <1>5
    DEF Boot, BootFails, AcceptDataFails, BrokenPipe, AcceptControl, AcceptControlFails,
        ReceiveTooLittle, Receive, ReceiveReconfig, ReceiveNextScene, ReceiveUnknown,
        MatchBand, FinishReconfig, DataConnect, ControlConnect, Queued, Ended, vars, locals,
        arguments
  <2> QED BY <2>1 DEF IdInv, SessionStart
<1> QED BY <1>1, <1>2, <1>3, <1>4, <1>5 DEF Next, Server, Clients

\* A session never reuses the identifier of the one before it, however often the
\* counter wraps and however the session before it ended.
THEOREM SessionIdsAreFresh == Spec => FreshSessionId
<1>1. Init => IdInv
  BY DEF Init, IdInv, AfterPreamble
<1>2. TypeInv /\ IdInv /\ [Next]_vars => IdInv'
  BY IdStep
<1>3. TypeInv /\ IdInv /\ [Next]_vars
      => [wire # <<>> /\ wire' = <<>> => session_id' # wire[1].session_id]_vars
  BY IdStep
<1> QED BY <1>1, <1>2, <1>3, TypeInit, TypeStep, PTL DEF Spec, FreshSessionId

(***************************************************************************)
(* The limit.                                                               *)
(***************************************************************************)
LifeInv ==
    /\ pc # "exited" => rc = 0 /\ (MaxSessions > 0 => sessions_sent < MaxSessions)
    /\ BlocksUntilMaxSessions

\* Every step keeps the count of sessions below the limit, or ends at it.
LEMMA LifeStep ==
    ASSUME "accept" \notin Faults, TypeInv, LifeInv, [Next]_vars
    PROVE  LifeInv'
<1> USE DEF LifeInv, BlocksUntilMaxSessions
<1>1. MaxSessions \in Nat /\ sessions_sent \in Nat
  BY ServerAssumption DEF TypeInv, ServerOK
<1>2. CASE CloseSession
  <2>1. pc # "exited" /\ rc' = rc /\ sessions_sent' = NextCount /\ pc' = AfterSession
    BY <1>2 DEF CloseSession
  <2>2. CASE MaxSessions > 0
    BY <1>1, <2>1, <2>2 DEF NextCount, AfterSession, LimitReached
  <2>3. CASE ~(MaxSessions > 0)
    BY <1>1, <2>1, <2>3 DEF NextCount, AfterSession, LimitReached
  <2> QED BY <2>2, <2>3
<1>3. CASE BootFails
  BY <1>3 DEF BootFails
<1>4. CASE \/ Boot \/ AcceptData \/ Stream \/ BrokenPipe \/ AcceptControl
           \/ AcceptControlFails \/ ReceiveTooLittle \/ Receive \/ MatchBand
           \/ FinishReconfig \/ DataConnect \/ ControlConnect \/ DataHangup
  <2>1. pc # "exited" /\ pc' # "exited" /\ UNCHANGED <<rc, sessions_sent>>
    BY <1>4
    DEF Boot, AcceptData, Stream, BrokenPipe, AcceptControl, AcceptControlFails,
        ReceiveTooLittle, Receive, ReceiveReconfig, ReceiveNextScene, ReceiveUnknown,
        MatchBand, FinishReconfig, DataConnect, ControlConnect, Queued, DataHangup, Running,
        Answer, CloseControl
  <2> QED BY <2>1
<1>5. CASE AcceptDataFails
  BY <1>5 DEF AcceptDataFails
<1>6. CASE Ended \/ UNCHANGED vars
  BY <1>6 DEF Ended, vars
<1> QED BY <1>2, <1>3, <1>4, <1>5, <1>6 DEF Next, Server, Clients

\* While accept does not fail, xs_emu_run returns 0 only under a limit, and after
\* exactly as many sessions.
THEOREM LimitIsExact ==
    ASSUME "accept" \notin Faults
    PROVE  Spec => []BlocksUntilMaxSessions
<1>1. Init => LifeInv
  BY ServerAssumption DEF Init, LifeInv, BlocksUntilMaxSessions
<1>2. TypeInv /\ LifeInv /\ [Next]_vars => LifeInv'
  BY LifeStep
<1>3. LifeInv => BlocksUntilMaxSessions
  BY DEF LifeInv
<1> QED BY <1>1, <1>2, <1>3, TypeInit, TypeStep, PTL DEF Spec

(***************************************************************************)
(* Pixels.                                                                  *)
(***************************************************************************)
\* Every directory holds a scene, and no client asks for more bands than the
\* smallest of them has.
Modest == \A dir \in Dirs :
    LoadSucceeds(dir) /\ \A c \in Commands : c.n_bands <= LoadedScene(dir).n_bands

Configured == pc \notin {"boot", "exited"}

\* The configuration in force selects bands of the loaded scene, all of them in
\* order or some of them under the scene's own stride, and the one being matched
\* is on its way to do so.
SelectionInv ==
    /\ scene \in {LoadedScene(dir) : dir \in Dirs}
    /\ n_bands <= scene.n_bands
    /\ source_n_bands = 0 => n_bands = scene.n_bands
    /\ source_n_bands # 0 => source_n_bands = scene.n_bands
    /\ \A b \in BandSlots : b < n_bands => band_indices[b] < scene.n_bands

MatchInv ==
    /\ \A dir \in Dirs : cmd.n_bands <= LoadedScene(dir).n_bands
    /\ pc = "match" =>
          /\ matched <= i /\ i <= cmd.n_bands
          /\ \A b \in BandSlots : b < matched => band_indices[b] < scene.n_bands

PixelInv ==
    /\ Configured => SelectionInv
    /\ MatchInv
    /\ stage = "LINE_DATA" => band < n_bands

\* What the type invariant says of the numbers involved.
LEMMA PixelNumbers ==
    ASSUME TypeInv
    PROVE  /\ n_bands \in Nat /\ n_bands >= 1 /\ n_bands <= MaxBands
           /\ source_n_bands \in Nat /\ scene.n_bands \in Nat
           /\ scene.n_bands <= MaxBands
           /\ matched \in Nat /\ matched <= MaxBands /\ i \in Nat /\ band \in Nat
           /\ cmd.n_bands \in Nat /\ MaxBands \in Nat
           /\ \A b \in BandSlots : b \in Nat /\ band_indices[b] \in Nat
           /\ \A b \in Nat : b < MaxBands => b \in BandSlots
<1>1. ConfigOK /\ StreamOK /\ ServerOK /\ MaxBands \in Nat /\ BandSlots \subseteq Nat
  BY Constants DEF TypeInv, StreamInv
<1>2. scene.n_bands \in Nat /\ cmd.n_bands \in Nat
  BY <1>1 DEF ConfigOK, SceneType, Byte, ServerOK, CommandOK, CommandType
<1>3. n_bands \in Nat /\ n_bands >= 1 /\ n_bands <= MaxBands /\ source_n_bands \in Nat
      /\ scene.n_bands <= MaxBands
  BY <1>1 DEF ConfigOK
<1>4. matched \in Nat /\ matched <= MaxBands /\ i \in Nat /\ band \in Nat
  BY <1>1 DEF ServerOK, StreamOK
<1>5. \A b \in BandSlots : b \in Nat /\ band_indices[b] \in Nat
  BY <1>1 DEF ConfigOK
<1>6. \A b \in Nat : b < MaxBands => b \in BandSlots
  BY <1>1 DEF BandSlots
<1> QED BY <1>1, <1>2, <1>3, <1>4, <1>5, <1>6

\* Resetting the bands to those of a loaded scene selects all of them.
LEMMA ResetSelects ==
    ASSUME TypeInv, NEW dir \in Dirs, scene' = LoadedScene(dir), ResetBands(scene')
    PROVE  SelectionInv'
<1>1. /\ n_bands' = scene'.n_bands /\ source_n_bands' = 0
      /\ band_indices' = [b \in BandSlots |->
             IF b < scene'.n_bands THEN b ELSE band_indices[b]]
  BY DEF ResetBands
<1>2. scene'.n_bands \in Nat
  BY LoadedSceneType DEF SceneType, Byte
<1>3. \A b \in BandSlots : b < n_bands' => band_indices'[b] < scene'.n_bands
  BY <1>1
<1> QED BY <1>1, <1>2, <1>3 DEF SelectionInv

\* No command at all is within every scene, and so is a prefix of a command.
LEMMA SilentIsModest ==
    /\ \A dir \in Dirs : Silent.n_bands <= LoadedScene(dir).n_bands
    /\ \A k \in Nat : Prefix(cmd, k).n_bands = cmd.n_bands
<1>1. Silent.n_bands = 0
  BY DEF Silent, Unknown
<1>2. \A dir \in Dirs : LoadedScene(dir).n_bands \in Nat
  BY LoadedSceneType DEF SceneType, Byte
<1> QED BY <1>1, <1>2 DEF Prefix

\* The steps of a session change no argument of stream_session.
LEMMA StreamKeepsPixels ==
    ASSUME TypeInv, PixelInv, Stream
    PROVE  PixelInv'
<1>1. UNCHANGED <<arguments, pc, cmd, i, matched>>
  BY DEF Stream, StreamStep, control
<1>2. (Configured => SelectionInv)' /\ MatchInv'
  BY <1>1 DEF PixelInv, Configured, SelectionInv, MatchInv, arguments
<1>3. stage' = "LINE_DATA" => band' < n_bands'
  <2>1. n_bands' = n_bands /\ n_bands >= 1 /\ n_bands \in Nat /\ band \in Nat
    BY <1>1, PixelNumbers DEF arguments
  <2>2. CASE SendExposureStart
    BY <2>1, <2>2 DEF SendExposureStart
  <2>3. CASE SendLineData
    BY <2>1, <2>3 DEF SendLineData
  <2>4. CASE \/ Allocate \/ SendPreamble \/ LoadLine \/ LinesDone \/ SendTelemetry
             \/ SendFinalTelemetry \/ SendSessionEnd \/ SendFails
    BY <2>4 DEF Allocate, SendPreamble, LoadLine, AfterLoad, LinesDone, SendTelemetry,
                SendFinalTelemetry, SendSessionEnd, SendFails
  <2> QED BY <2>2, <2>3, <2>4 DEF Stream, StreamStep
<1> QED BY <1>2, <1>3 DEF PixelInv

\* One requested wavelength: the entry written selects a band of the scene.
LEMMA MatchKeepsPixels ==
    ASSUME TypeInv, PixelInv, MatchBand
    PROVE  PixelInv'
<1>1. SelectionInv /\ MatchInv /\ pc = "match" /\ i < cmd.n_bands /\ matched <= i
  BY DEF PixelInv, MatchBand, Configured, MatchInv, Matching
<1>2. /\ UNCHANGED <<scene, n_bands, source_n_bands, pc, cmd, stage, band>>
      /\ i' = i + 1
  BY DEF MatchBand, locals
<1>3. CASE UNCHANGED <<band_indices, matched>>
  <2>1. SelectionInv' /\ MatchInv'
    BY <1>1, <1>2, <1>3, PixelNumbers DEF SelectionInv, MatchInv
  <2> QED BY <1>2, <2>1 DEF PixelInv
<1>4. ASSUME NEW j \in Nearest(scene, cmd.wavelengths[i + 1]),
             band_indices' = [band_indices EXCEPT ![matched] = j],
             matched' = matched + 1
      PROVE  PixelInv'
  <2>1. j < scene.n_bands
    BY PixelNumbers DEF Nearest
  <2>2. \A b \in BandSlots : band_indices'[b] = IF b = matched THEN j ELSE band_indices[b]
    BY <1>4 DEF TypeInv, ConfigOK
  <2>3. SelectionInv'
    BY <1>1, <1>2, <2>1, <2>2 DEF SelectionInv
  <2>4. \A b \in BandSlots : b < matched' => band_indices'[b] < scene'.n_bands
    BY <1>1, <1>2, <1>4, <2>1, <2>2, PixelNumbers DEF MatchInv
  <2>5. matched' <= i' /\ i' <= cmd'.n_bands
    BY <1>1, <1>2, <1>4, PixelNumbers
  <2>6. MatchInv'
    BY <1>1, <1>2, <2>4, <2>5 DEF MatchInv
  <2> QED BY <1>2, <2>3, <2>6 DEF PixelInv
<1> QED BY <1>3, <1>4 DEF MatchBand

\* The end of the matching: as many bands as matched, under the scene's stride.
LEMMA FinishKeepsPixels ==
    ASSUME Modest, TypeInv, PixelInv, FinishReconfig
    PROVE  PixelInv'
<1>1. SelectionInv /\ MatchInv /\ pc = "match"
  BY DEF PixelInv, FinishReconfig, Configured
<1>2. UNCHANGED <<scene, band_indices, stage, band>> /\ cmd' = Silent /\ pc' = "acceptData"
  BY DEF FinishReconfig, Answer, CloseControl, locals
<1>3. stage # "LINE_DATA"
  BY <1>1 DEF TypeInv, Phase
<1>4. MatchInv'
  BY <1>2, SilentIsModest DEF MatchInv
<1>5. SelectionInv'
  <2>1. CASE ~Reconfigured
    BY <1>1, <1>2, <2>1 DEF FinishReconfig, SelectionInv
  <2>2. CASE Reconfigured
    <3>1. n_bands' = matched /\ source_n_bands' = scene.n_bands /\ matched > 0
      BY <2>2 DEF FinishReconfig, Reconfigured
    <3>2. PICK dir \in Dirs : scene = LoadedScene(dir)
      BY <1>1 DEF SelectionInv
    <3>3. cmd.n_bands <= scene.n_bands
      BY <1>1, <3>2 DEF MatchInv
    <3>4. n_bands' <= scene.n_bands /\ source_n_bands' # 0
      BY <1>1, <3>1, <3>3, PixelNumbers DEF MatchInv
    <3>5. \A b \in BandSlots : b < n_bands' => band_indices'[b] < scene'.n_bands
      BY <1>1, <1>2, <3>1 DEF MatchInv
    <3> QED BY <1>1, <1>2, <3>1, <3>4, <3>5 DEF SelectionInv
  <2> QED BY <2>1, <2>2
<1> QED BY <1>2, <1>3, <1>4, <1>5 DEF PixelInv

\* A scene switch: in a modest environment the load succeeds, or fails before it
\* has touched anything.
LEMMA SwitchKeepsPixels ==
    ASSUME Modest, TypeInv, PixelInv, NEW k \in 1 .. cmd.len, ReceiveNextScene(k)
    PROVE  PixelInv'
<1> DEFINE c == Advanced(current, cmd.direction, Len(Scenes))
           dir == Scenes[c + 1]
<1>1. dir \in Dirs
  <2>1. c \in 0 .. Len(Scenes) - 1
    BY AdvancedInRange DEF TypeInv, ConfigOK, ServerOK, CommandOK, CommandType
  <2> HIDE DEF c
  <2> QED BY <2>1, DirInList
<1>2. /\ CloseControl /\ UNCHANGED <<stage, band>> /\ pc = "recv"
      /\ \/ scene' = LoadedScene(dir) /\ ResetBands(scene')
         \/ UNCHANGED <<scene, bandConfig>>
         \/ ~LoadSucceeds(dir)
  BY DEF ReceiveNextScene, SwitchedDir, Answer, locals
<1> HIDE DEF c, dir
<1>3. LoadSucceeds(dir)
  BY <1>1 DEF Modest
<1>4. SelectionInv /\ UNCHANGED <<scene, bandConfig>> => SelectionInv'
  BY DEF SelectionInv, bandConfig
<1>5. SelectionInv'
  <2>1. CASE scene' = LoadedScene(dir) /\ ResetBands(scene')
    BY <1>1, <2>1, ResetSelects
  <2>2. CASE UNCHANGED <<scene, bandConfig>>
    BY <1>2, <1>4, <2>2 DEF PixelInv, Configured
  <2> QED BY <1>2, <1>3, <2>1, <2>2
<1>6. MatchInv'
  BY <1>2, SilentIsModest DEF CloseControl, MatchInv
<1>7. stage' # "LINE_DATA"
  BY <1>2 DEF TypeInv, Phase
<1> QED BY <1>5, <1>6, <1>7 DEF PixelInv

\* Every step keeps the bands that are read inside the scene.
LEMMA PixelStep ==
    ASSUME Modest, TypeInv, PixelInv, [Next]_vars
    PROVE  PixelInv'
<1>1. CASE Boot
  <2>1. SceneDir \in Dirs
    BY DirInList DEF TypeInv, ConfigOK, SceneDir
  <2>2. SelectionInv'
    BY <1>1, <2>1, ResetSelects DEF Boot
  <2>3. MatchInv'
    BY <1>1 DEF Boot, PixelInv, MatchInv, control
  <2>4. stage' # "LINE_DATA"
    BY <1>1 DEF Boot, locals, TypeInv, Phase
  <2> QED BY <2>2, <2>3, <2>4 DEF PixelInv
<1>2. CASE Stream
  BY <1>2, StreamKeepsPixels
<1>3. CASE MatchBand
  BY <1>3, MatchKeepsPixels
<1>4. CASE FinishReconfig
  BY <1>4, FinishKeepsPixels
<1>5. CASE AcceptControl
  <2>1. UNCHANGED <<arguments, locals>> /\ pc = "acceptCtrl" /\ pc' = "recv"
        /\ cmd' = Head(ctrlQ) /\ ctrlQ # <<>>
    BY <1>5 DEF AcceptControl
  <2>2. cmd' \in Commands
    BY <2>1 DEF TypeInv, ServerOK
  <2>3. MatchInv'
    BY <2>1, <2>2 DEF Modest, MatchInv
  <2> QED BY <2>1, <2>3 DEF PixelInv, Configured, SelectionInv, arguments, locals
<1>6. ASSUME NEW k \in 1 .. cmd.len, ReceiveReconfig(k)
      PROVE  PixelInv'
  <2>1. UNCHANGED <<arguments, locals>> /\ pc = "recv" /\ pc' = "match"
        /\ cmd' = Prefix(cmd, k) /\ i' = 0 /\ matched' = 0
    BY <1>6 DEF ReceiveReconfig
  <2>2. k \in Nat
    BY DEF TypeInv, ServerOK, CommandOK, CommandType
  <2>3. cmd'.n_bands = cmd.n_bands
    BY <2>1, <2>2, SilentIsModest
  <2>4. MatchInv'
    BY <2>1, <2>3, PixelNumbers DEF PixelInv, MatchInv
  <2> QED BY <2>1, <2>4 DEF PixelInv, Configured, SelectionInv, arguments, locals
<1>7. ASSUME NEW k \in 1 .. cmd.len, ReceiveNextScene(k)
      PROVE  PixelInv'
  BY <1>7, SwitchKeepsPixels
<1>8. CASE ReceiveTooLittle \/ \E k \in 1 .. cmd.len : ReceiveUnknown(k)
  <2>1. UNCHANGED <<arguments, locals>> /\ pc = "recv" /\ CloseControl
    BY <1>8 DEF ReceiveTooLittle, ReceiveUnknown, Answer
  <2>2. MatchInv'
    BY <2>1, SilentIsModest DEF CloseControl, MatchInv
  <2> QED BY <2>1, <2>2
      DEF PixelInv, Configured, SelectionInv, CloseControl, arguments, locals
<1>9. CASE AcceptData \/ CloseSession \/ DataHangup
  <2>1. /\ UNCHANGED <<scene, n_bands, band_indices, source_n_bands, control>>
        /\ pc \in {"acceptData", "stream"} /\ pc' # "match"
        /\ stage' # "LINE_DATA" \/ UNCHANGED <<stage, band>>
    BY <1>9
    DEF AcceptData, Begin, CloseSession, Return, AfterSession, DataHangup, Hangup,
        bandConfig, arguments
  <2> QED BY <2>1 DEF PixelInv, Configured, SelectionInv, MatchInv, control
<1>10. CASE \/ BootFails \/ AcceptDataFails \/ BrokenPipe \/ AcceptControlFails
            \/ DataConnect \/ ControlConnect \/ Ended \/ UNCHANGED vars
  <2>1. /\ UNCHANGED <<arguments, locals, control>>
        /\ Configured' => Configured
        /\ pc' = "match" => pc = "match"
    BY <1>10
    DEF BootFails, AcceptDataFails, BrokenPipe, AcceptControlFails, DataConnect,
        ControlConnect, Queued, Ended, vars, Configured
  <2> QED BY <2>1
      DEF PixelInv, SelectionInv, MatchInv, control, arguments, locals
<1> QED
  BY <1>1, <1>2, <1>3, <1>4, <1>5, <1>6, <1>7, <1>8, <1>9, <1>10
  DEF Next, Server, Clients, Receive

\* In a modest environment every line is read with the stride of the scene it is
\* read from, and every packet's band is one of that scene: no pixel is read from
\* the next one, or from beyond the line. Any commands, timeouts, faults and any
\* number of scene switches may come in between.
THEOREM PixelsStayInside ==
    ASSUME Modest
    PROVE  Spec => []ReadsInsideThePixel
<1>1. Init => PixelInv
  <2>1. Init => MatchInv
    BY SilentIsModest DEF Init, MatchInv
  <2> QED BY <2>1 DEF Init, PixelInv, Configured
<1>2. TypeInv /\ PixelInv /\ [Next]_vars => PixelInv'
  BY PixelStep
<1>3. TypeInv /\ PixelInv => ReadsInsideThePixel
  <2> SUFFICES ASSUME TypeInv, PixelInv, stage = "LINE_DATA"
               PROVE  SrcBands = scene.n_bands /\ SourceBand(band) < scene.n_bands
    BY DEF ReadsInsideThePixel
  <2>1. SelectionInv /\ band < n_bands
    BY DEF PixelInv, Configured, TypeInv, Phase
  <2>2. SrcBands = scene.n_bands
    BY <2>1, PixelNumbers DEF SrcBands, SelectionInv
  <2>3. band_indices[band] < scene.n_bands
    BY <2>1, PixelNumbers DEF SelectionInv
  <2> QED BY <2>1, <2>2, <2>3, PixelNumbers DEF SourceBand, SelectionInv
<1> QED BY <1>1, <1>2, <1>3, TypeInit, TypeStep, PTL DEF Spec

(***************************************************************************)
(* The current scene.                                                        *)
(***************************************************************************)
\* The metadata in memory is that of the directory the list stands at.
SceneInv == Configured => scene = LoadedScene(SceneDir)

\* Every directory holds a scene, and what is there can be read whenever it is asked
\* for.
Loadable == \A dir \in Dirs : LoadSucceeds(dir)
SteadyFiles == "files" \notin Faults

\* Every step keeps the scene in memory that of the current directory.
LEMMA SceneStep ==
    ASSUME Loadable, SteadyFiles, TypeInv, SceneInv, [Next]_vars
    PROVE  SceneInv'
<1>1. CASE Boot
  BY <1>1 DEF Boot, SceneInv, SceneDir
<1>2. ASSUME NEW k \in 1 .. cmd.len, ReceiveNextScene(k)
      PROVE  SceneInv'
  <2> DEFINE c == Advanced(current, cmd.direction, Len(Scenes))
             dir == Scenes[c + 1]
  <2>1. c \in 0 .. Len(Scenes) - 1
    BY AdvancedInRange DEF TypeInv, ConfigOK, ServerOK, CommandOK, CommandType
  <2>2. current' = c /\ (scene' = LoadedScene(dir) \/ ~LoadSucceeds(dir))
    BY <1>2 DEF ReceiveNextScene, SwitchedDir, SteadyFiles
  <2> HIDE DEF c
  <2>3. LoadSucceeds(dir)
    BY <2>1, DirInList DEF Loadable
  <2>4. scene' = LoadedScene(dir) /\ SceneDir' = dir
    BY <2>2, <2>3 DEF SceneDir
  <2> QED BY <2>4 DEF SceneInv
<1>3. CASE \/ BootFails \/ AcceptData \/ AcceptDataFails \/ Stream \/ BrokenPipe
           \/ CloseSession \/ AcceptControl \/ AcceptControlFails \/ ReceiveTooLittle
           \/ (\E k \in 1 .. cmd.len : ReceiveReconfig(k) \/ ReceiveUnknown(k))
           \/ MatchBand \/ FinishReconfig \/ Clients \/ Ended \/ UNCHANGED vars
  <2>1. UNCHANGED <<current, scene>>
    BY <1>3
    DEF BootFails, AcceptData, AcceptDataFails, Stream, StreamStep, BrokenPipe,
        CloseSession, AcceptControl, AcceptControlFails, ReceiveTooLittle,
        ReceiveReconfig, ReceiveUnknown, MatchBand, FinishReconfig, Clients,
        DataConnect, ControlConnect, Queued, DataHangup, Ended, vars, arguments
  <2>2. Configured' => Configured
    BY <1>3
    DEF BootFails, AcceptData, AcceptDataFails, Stream, BrokenPipe, CloseSession,
        AcceptControl, AcceptControlFails, ReceiveTooLittle, ReceiveReconfig,
        ReceiveUnknown, MatchBand, FinishReconfig, Clients, DataConnect, ControlConnect, Queued,
        DataHangup, Running, Ended, vars, Configured
  <2> QED BY <2>1, <2>2 DEF SceneInv, SceneDir
<1> QED BY <1>1, <1>2, <1>3 DEF Next, Server, Receive

\* Where every directory holds a scene that can be read, the scene a session announces
\* is the one whose directory its lines are read from, after any sequence of switches.
THEOREM StreamsTheCurrentScene ==
    ASSUME Loadable, SteadyFiles
    PROVE  Spec => []StreamedSceneIsCurrent
<1>1. Init => SceneInv
  BY DEF Init, SceneInv, Configured
<1>2. TypeInv /\ SceneInv /\ [Next]_vars => SceneInv'
  BY SceneStep
<1>3. SceneInv => StreamedSceneIsCurrent
  BY DEF SceneInv, Configured, StreamedSceneIsCurrent
<1> QED BY <1>1, <1>2, <1>3, TypeInit, TypeStep, PTL DEF Spec
=============================================================================
