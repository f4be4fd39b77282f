-------------------------- MODULE ClientServerProofs --------------------------
(***************************************************************************)
(* The client and the server together, for every list of scenes, window,       *)
(* backlog, number of keys and interleaving of the three threads.  Seen from     *)
(* the server the client is one of its clients, so all that was proved of the    *)
(* server holds in the composition; on that rest the types of the client, what  *)
(* it shows when it is at rest, and that a complete session was whole.          *)
(***************************************************************************)
EXTENDS ClientServer, StreamOrderProofs, FiniteSetTheorems

(***************************************************************************)
(* The wavelengths that travel: from the scenes through the configuration,     *)
(* the packets and the band list back into a command.                         *)
(***************************************************************************)
NamesShown(p) ==
    p.id = "IMAGER_CONFIG" =>
        p.wavelengths \in Seq(Shown) /\ Len(p.wavelengths) \in 1 .. MaxBands

Arrived == {p \in PacketType : NamesShown(p)}

SourceInv ==
    /\ \A b \in BandSlots : scene.wavelengths[b] \in Shown /\ band_wavelengths[b] \in Shown
    /\ \A k \in DOMAIN wire : NamesShown(wire[k])

\* What the client's threads hold.
ReceiverOK ==
    /\ rpc \in ReceiverPCs /\ stats \in StatsType /\ scene_image \in ImageType
    /\ stats.bands \in Seq(Shown) /\ Len(stats.bands) <= MaxBands
    /\ accum \in Seq(Arrived)
    /\ rpc \in {"process", "paint"} <=> accum # <<>>
    /\ rpc = "paint" => Painted(Head(accum).id)

UiOK ==
    /\ upc \in UiPCs /\ mode \in Modes
    /\ list \in Seq(Shown) /\ Len(list) <= MaxBands
    /\ enabled \in [BandSlots -> BOOLEAN]
    /\ outgoing \in Commands \cup {Silent}
    /\ upc \in {"send", "await"} <=> outgoing # Silent

SocketsOK == inbox \in Seq(Arrived) /\ eof \in BOOLEAN /\ answer \in Answers

ClientInv == ReceiverOK /\ UiOK /\ SocketsOK /\ reconnect \in BOOLEAN

\* Wavelengths of scenes are words, and 0 stands for one that is missing.
LEMMA ShownWords == Shown \subseteq Word /\ 0 \in Shown /\ Shown \subseteq Nat
<1>1. 0 \in Shown /\ 0 \in Word /\ Word \subseteq Nat
  BY Constants DEF Shown, Word
<1>2. ASSUME NEW dir \in Dirs, NEW b \in BandSlots
      PROVE  LoadedScene(dir).wavelengths[b] \in Word
  BY LoadedSceneType DEF SceneType
<1>3. Shown \subseteq Word
  <2> SUFFICES ASSUME NEW w \in Shown PROVE w \in Word
    OBVIOUS
  <2> QED BY <1>1, <1>2 DEF Shown
<1> QED BY <1>1, <1>3

\* What a packet that arrives holds, by its kind.
LEMMA ArrivedFields ==
    ASSUME NEW p \in Arrived
    PROVE  /\ p.id = "IMAGER_CONFIG" =>
                 p.wavelengths \in Seq(Shown) /\ Len(p.wavelengths) \in 1 .. MaxBands
           /\ p.id = "SCENE_START" => p.scene_height \in 0 .. U24 - 1
           /\ p.id = "LINE_DATA" => /\ p.line_number \in 0 .. U24 - 1
                                    /\ p.spectral_band \in BandSlots
<1>1. p \in PacketType /\ NamesShown(p)
  BY DEF Arrived
<1>2. p.id = "SCENE_START" => p.scene_height \in 0 .. U24 - 1
  BY <1>1 DEF PacketType
<1>3. p.id = "LINE_DATA" => p.line_number \in 0 .. U24 - 1 /\ p.spectral_band \in BandSlots
  BY <1>1 DEF PacketType
<1> QED BY <1>1, <1>2, <1>3 DEF NamesShown

(***************************************************************************)
(* The server's side of the travel.                                          *)
(***************************************************************************)
\* A scene that was loaded holds wavelengths of a scene.
LEMMA LoadedShown ==
    ASSUME NEW dir \in Dirs, NEW b \in BandSlots
    PROVE  LoadedScene(dir).wavelengths[b] \in Shown
  BY DEF Shown

\* The preamble names the wavelengths of the configuration.
LEMMA PreambleShown ==
    ASSUME TypeInv, SourceInv, NEW k \in 1 .. 5
    PROVE  NamesShown(Preamble[k])
<1> DEFINE ws == [m \in 1 .. n_bands |-> band_wavelengths[m - 1]]
<1>1. n_bands \in 1 .. MaxBands /\ MaxBands \in Nat
  BY Constants DEF TypeInv, ConfigOK
<1>2. ws \in Seq(Shown) /\ Len(ws) = n_bands
  <2>1. \A m \in 1 .. n_bands : band_wavelengths[m - 1] \in Shown
    BY <1>1 DEF SourceInv, BandSlots
  <2> QED BY <1>1, <2>1
<1>3. Preamble[3] = ImagerConfig(ws)
  BY DEF Preamble
<1> HIDE DEF ws
<1>4. NamesShown(Preamble[3])
  BY <1>1, <1>2, <1>3 DEF NamesShown, ImagerConfig
<1>5. k # 3 => Preamble[k].id # "IMAGER_CONFIG"
  BY PreambleOpens DEF L!Opening
<1> QED BY <1>4, <1>5 DEF NamesShown

\* Every step of the server keeps wavelengths those of scenes.
LEMMA SourceStep ==
    ASSUME TypeInv, SourceInv, [Next]_vars
    PROVE  SourceInv'
<1> DEFINE Bands == \A b \in BandSlots : /\ scene.wavelengths[b] \in Shown
                                         /\ band_wavelengths[b] \in Shown
           Sendings == \A k \in DOMAIN wire : NamesShown(wire[k])
<1>0. Bands /\ Sendings /\ wire \in Seq(PacketType)
  BY StreamFacts DEF SourceInv
<1>1. ASSUME NEW p, wire' = Append(wire, p), NamesShown(p)
      PROVE  Sendings'
  BY <1>0, <1>1
<1>2. ASSUME wire' = <<>> \/ wire' = wire
      PROVE  Sendings'
  BY <1>0, <1>2
<1>3. ASSUME UNCHANGED <<scene, band_wavelengths>>
      PROVE  Bands'
  BY <1>0, <1>3
<1>4. ASSUME NEW dir \in Dirs, scene' = LoadedScene(dir),
             ResetBands(scene') \/ UNCHANGED band_wavelengths
      PROVE  Bands'
  BY <1>0, <1>4, LoadedShown DEF ResetBands
<1> HIDE DEF Bands, Sendings
<1>5. CASE Boot
  <2>1. SceneDir \in Dirs
    BY DirInList DEF SceneDir, TypeInv, ConfigOK
  <2>2. Bands' /\ Sendings'
    BY <1>2, <1>4, <1>5, <2>1 DEF Boot, locals
  <2> QED BY <2>2 DEF SourceInv, Bands, Sendings
<1>6. CASE Stream
  <2>1. Bands'
    BY <1>3, <1>6 DEF Stream, StreamStep, arguments
  <2>2. Sendings'
    <3>1. CASE SendPreamble
      <4>1. Len(wire) + 1 \in 1 .. 5
        BY <1>0, <3>1 DEF SendPreamble, TypeInv, StreamInv
      <4>2. NamesShown(Preamble[Len(wire) + 1])
        BY <1>0, <4>1, PreambleShown DEF Bands, Sendings
      <4> QED BY <1>1, <3>1, <4>2 DEF SendPreamble, Send
    <3>2. CASE SendTelemetry \/ SendFinalTelemetry
      BY <1>1, <3>2 DEF SendTelemetry, SendFinalTelemetry, Send, Telemetry, NamesShown
    <3>3. CASE SendExposureStart
      BY <1>1, <3>3 DEF SendExposureStart, Send, ExposureStart, NamesShown
    <3>4. CASE SendLineData
      BY <1>1, <3>4 DEF SendLineData, Send, LineData, NamesShown
    <3>5. CASE SendSessionEnd
      BY <1>1, <3>5 DEF SendSessionEnd, Send, SessionEnd, NamesShown
    <3>6. CASE Allocate \/ LoadLine \/ LinesDone \/ SendFails
      BY <1>2, <3>6 DEF Allocate, LoadLine, LinesDone, SendFails
    <3> QED BY <1>6, <3>1, <3>2, <3>3, <3>4, <3>5, <3>6 DEF Stream, StreamStep
  <2> QED BY <2>1, <2>2 DEF SourceInv, Bands, Sendings
<1>7. CASE CloseSession
  <2>1. Bands' /\ Sendings'
    BY <1>2, <1>3, <1>7 DEF CloseSession, Return, bandConfig
  <2> QED BY <2>1 DEF SourceInv, Bands, Sendings
<1>8. ASSUME NEW k \in 1 .. cmd.len, ReceiveNextScene(k)
      PROVE  SourceInv'
  <2> DEFINE c == Advanced(current, cmd.direction, Len(Scenes))
             dir == Scenes[c + 1]
  <2>1. c \in 0 .. Len(Scenes) - 1
    BY AdvancedInRange DEF TypeInv, ConfigOK, ServerOK, CommandOK, CommandType
  <2>2. /\ scene' \in {LoadedScene(dir), scene} /\ wire' = wire
        /\ \/ scene' = LoadedScene(dir) /\ ResetBands(scene')
           \/ UNCHANGED band_wavelengths
    BY <1>8 DEF ReceiveNextScene, SwitchedDir, SceneAfterLoad, bandConfig, locals
  <2> HIDE DEF c
  <2>3. dir \in Dirs
    BY <2>1, DirInList
  <2>4. Bands'
    <3>1. CASE scene' = LoadedScene(dir)
      BY <1>4, <2>2, <2>3, <3>1
    <3>2. CASE scene' # LoadedScene(dir)
      BY <1>3, <2>2, <3>2
    <3> QED BY <3>1, <3>2
  <2> QED BY <1>2, <2>2, <2>4 DEF SourceInv, Bands, Sendings
<1>9. CASE FinishReconfig
  <2>1. UNCHANGED scene /\ UNCHANGED wire
    BY <1>9 DEF FinishReconfig, locals
  <2>2. CASE UNCHANGED band_wavelengths
    BY <1>2, <1>3, <2>1, <2>2 DEF SourceInv, Bands, Sendings
  <2>3. CASE band_wavelengths' = [b \in BandSlots |->
                 IF b < matched THEN MatchedWavelength(b) ELSE band_wavelengths[b]]
    <3>1. ASSUME NEW b \in BandSlots PROVE MatchedWavelength(b) \in Shown
      BY <1>0 DEF MatchedWavelength, TypeInv, ConfigOK, Bands
    <3>2. Bands'
      BY <1>0, <2>1, <2>3, <3>1 DEF Bands
    <3> QED BY <1>2, <2>1, <3>2 DEF SourceInv, Bands, Sendings
  <2> QED BY <1>9, <2>2, <2>3 DEF FinishReconfig
<1>10. CASE \/ BootFails \/ AcceptData \/ AcceptDataFails \/ BrokenPipe \/ AcceptControl
            \/ AcceptControlFails \/ ReceiveTooLittle \/ MatchBand \/ Clients \/ Ended
            \/ UNCHANGED vars
            \/ \E k \in 1 .. cmd.len : ReceiveReconfig(k) \/ ReceiveUnknown(k)
  <2>1. UNCHANGED <<scene, band_wavelengths, wire>>
    BY <1>10
    DEF BootFails, AcceptData, Begin, AcceptDataFails, BrokenPipe, AcceptControl,
        AcceptControlFails, ReceiveTooLittle, ReceiveReconfig, ReceiveUnknown, MatchBand,
        Clients, DataConnect, ControlConnect, Queued, DataHangup, Hangup, Ended, vars,
        arguments, locals
  <2> QED BY <1>2, <1>3, <2>1 DEF SourceInv, Bands, Sendings
<1> QED
  BY <1>5, <1>6, <1>7, <1>8, <1>9, <1>10 DEF Next, Server, Receive

(***************************************************************************)
(* What the selector asks for.                                               *)
(***************************************************************************)
\* In a finite set of numbers there is one with exactly k smaller ones, for every k
\* below their number: the ranks are distinct, and as many as the numbers.
LEMMA EveryRank ==
    ASSUME NEW S \in SUBSET Nat, IsFiniteSet(S), NEW k \in 0 .. Cardinality(S) - 1
    PROVE  \E b \in S : Cardinality({c \in S : c < b}) = k
<1> DEFINE Below(b) == {c \in S : c < b}
           m == Cardinality(S)
           T == 0 .. m - 1
           rank == [b \in S |-> Cardinality(Below(b))]
<1>1. m \in Nat /\ IsFiniteSet(T) /\ Cardinality(T) = m
  <2>1. m \in Nat
    BY FS_CardinalityType
  <2> QED BY <2>1, FS_Interval
<1>2. ASSUME NEW b \in S
      PROVE  IsFiniteSet(Below(b)) /\ Cardinality(Below(b)) \in Nat
  BY FS_Subset, FS_CardinalityType
<1>3. ASSUME NEW b \in S
      PROVE  Cardinality(Below(b)) \in T
  <2>1. Below(b) \in SUBSET S /\ b \notin Below(b)
    OBVIOUS
  <2>2. Cardinality(Below(b)) <= m /\ (m = Cardinality(Below(b)) => S = Below(b))
    BY <2>1, FS_Subset
  <2>3. Cardinality(Below(b)) # m
    BY <2>1, <2>2
  <2> QED BY <1>1, <1>2, <2>2, <2>3
<1>4. ASSUME NEW b \in S, NEW d \in S, b < d
      PROVE  Cardinality(Below(b)) < Cardinality(Below(d))
  <2>1. Below(b) \in SUBSET Below(d) /\ b \in Below(d) /\ b \notin Below(b)
    <3>1. \A x, y, z \in Nat : ~(x < x) /\ (x < y /\ y < z => x < z)
      OBVIOUS
    <3>2. b \in Nat /\ d \in Nat /\ \A c \in S : c \in Nat
      OBVIOUS
    <3> QED BY <1>4, <3>1, <3>2
  <2>2. /\ Cardinality(Below(b)) <= Cardinality(Below(d))
        /\ Cardinality(Below(d)) = Cardinality(Below(b)) => Below(d) = Below(b)
    BY <1>2, <2>1, FS_Subset
  <2>3. Cardinality(Below(b)) # Cardinality(Below(d))
    BY <2>1, <2>2
  <2> QED BY <1>2, <2>2, <2>3
<1>5. rank \in Injection(S, T)
  <2>1. rank \in [S -> T]
    BY <1>3
  <2>2. ASSUME NEW b \in S, NEW d \in S, rank[b] = rank[d]
        PROVE  b = d
    <3>1. ~(b < d) /\ ~(d < b)
      BY <1>2, <1>4, <2>2
    <3> QED BY <3>1
  <2> HIDE DEF rank
  <2> QED BY <2>1, <2>2 DEF Injection, IsInjective
<1>6. rank \in Surjection(S, T)
  <2> HIDE DEF rank, T
  <2> QED BY <1>1, <1>5, FS_Injection
<1>7. k \in T
  OBVIOUS
<1>8. PICK b \in S : rank[b] = k
  <2> HIDE DEF rank, T
  <2> QED BY <1>6, <1>7 DEF Surjection
<1> QED BY <1>8

\* What Enter sends is a command of the server's: between one and MaxBands
\* wavelengths, each of a scene or made up for the band it stands at.
LEMMA RequestIsCommand ==
    ASSUME ClientInv, Chosen # {}
    PROVE  Reconfig(Request) \in Commands
<1>0. list \in Seq(Shown) /\ Len(list) \in Nat /\ Len(list) <= MaxBands /\ MaxBands \in Nat
  BY Constants DEF ClientInv, UiOK
<1>1. Chosen \in SUBSET Nat /\ Chosen \in SUBSET (0 .. Len(list) - 1)
  BY <1>0 DEF Chosen, Listed
<1>2. IsFiniteSet(Chosen) /\ Cardinality(Chosen) \in 1 .. MaxBands
  <2>1. IsFiniteSet(0 .. Len(list) - 1) /\ Cardinality(0 .. Len(list) - 1) = Len(list)
    <3>1. 0 \in Int /\ Len(list) - 1 \in Int
      BY <1>0
    <3>2. /\ IsFiniteSet(0 .. Len(list) - 1)
          /\ Cardinality(0 .. Len(list) - 1)
                = IF 0 > Len(list) - 1 THEN 0 ELSE Len(list) - 1 - 0 + 1
      BY <3>1, FS_Interval
    <3> QED BY <1>0, <3>2
  <2>2. IsFiniteSet(Chosen) /\ Cardinality(Chosen) <= Len(list)
    BY <1>1, <2>1, FS_Subset
  <2>3. Cardinality(Chosen) \in Nat /\ Cardinality(Chosen) # 0
    BY <2>2, FS_CardinalityType, FS_EmptySet
  <2> QED BY <1>0, <2>2, <2>3
<1>3. ASSUME NEW b \in Chosen
      PROVE  Requested(b) \in Asked
  <2>1. b \in 0 .. Len(list) - 1 /\ Len(list) \in 1 .. MaxBands
    BY <1>0, <1>1
  <2>2. list[b + 1] \in Shown
    BY <1>0, <2>1
  <2>3. CASE list[b + 1] > 0
    BY <2>2, <2>3 DEF Requested, Asked
  <2>4. CASE ~(list[b + 1] > 0)
    BY <2>1, <2>4 DEF Requested, Asked
  <2> QED BY <2>3, <2>4
<1>4. ASSUME NEW k \in 1 .. Cardinality(Chosen)
      PROVE  Request[k] \in Asked
  <2> DEFINE P(b) == Cardinality({c \in Chosen : c < b}) = k - 1
             d == CHOOSE b \in Chosen : P(b)
  <2>1. k - 1 \in 0 .. Cardinality(Chosen) - 1
    BY <1>2
  <2>2. \E b \in Chosen : P(b)
    BY <1>1, <1>2, <2>1, EveryRank
  <2>3. Request[k] = Requested(d)
    BY DEF Request
  <2> HIDE DEF P
  <2>4. d \in Chosen
    BY <2>2
  <2> QED BY <1>3, <2>3, <2>4
<1>5. Request \in [1 .. Cardinality(Chosen) -> Asked]
  BY <1>4 DEF Request
<1> QED BY <1>2, <1>5, ClientCommandsAssumption

(***************************************************************************)
(* Every step keeps the client's types.                                       *)
(***************************************************************************)
\* A new status is one of the statistics' type.
LEMMA StatusType ==
    ASSUME stats \in StatsType, NEW s \in Statuses, Status(s)
    PROVE  stats' \in StatsType /\ stats'.bands = stats.bands
  BY DEF StatsType, Status

\* The statistics after a packet.
LEMMA StatsAfterType ==
    ASSUME ReceiverOK, NEW p \in Arrived
    PROVE  /\ StatsAfter(p) \in StatsType
           /\ StatsAfter(p).bands \in Seq(Shown) /\ Len(StatsAfter(p).bands) <= MaxBands
<1>1. stats \in StatsType /\ stats.bands \in Seq(Shown) /\ Len(stats.bands) <= MaxBands
  BY DEF ReceiverOK
<1>2. Seq(Shown) \subseteq Seq(Word) /\ MaxBands \in Nat /\ U24 \in Nat
  <2>1. ASSUME NEW s \in Seq(Shown) PROVE s \in Seq(Word)
    <3>1. s \in [1 .. Len(s) -> Word] /\ Len(s) \in Nat
      <4>1. s \in [1 .. Len(s) -> Shown] /\ Len(s) \in Nat
        OBVIOUS
      <4> QED BY <4>1, ShownWords
    <3>2. \A m \in Nat : \A f \in [1 .. m -> Word] : f \in Seq(Word)
      OBVIOUS
    <3> QED BY <3>1, <3>2
  <2> QED BY <2>1, Constants
<1>3. CASE p.id = "IMAGER_CONFIG"
  <2>1. p.wavelengths \in Seq(Shown) /\ Len(p.wavelengths) <= MaxBands
    BY <1>2, <1>3, ArrivedFields
  <2>2. StatsAfter(p) = [stats EXCEPT !.bands = p.wavelengths]
    BY <1>3 DEF StatsAfter
  <2> QED BY <1>1, <1>2, <2>1, <2>2 DEF StatsType
<1>4. CASE p.id = "SCENE_START"
  <2>1. p.scene_height \in 0 .. U24 - 1
    BY <1>4, ArrivedFields
  <2>2. StatsAfter(p) = [stats EXCEPT !.scene_height = p.scene_height]
    BY <1>4 DEF StatsAfter
  <2> QED BY <1>1, <2>1, <2>2 DEF StatsType
<1>5. CASE p.id = "LINE_DATA"
  <2>1. p.line_number + 1 \in Nat
    BY <1>2, <1>5, ArrivedFields
  <2>2. StatsAfter(p) = [stats EXCEPT !.line_data = @ + 1,
               !.current_line = IF p.spectral_band = 0 THEN p.line_number + 1 ELSE @]
    BY <1>5 DEF StatsAfter
  <2>3. stats.line_data + 1 \in Nat /\ stats.current_line \in Nat
    BY <1>1 DEF StatsType
  <2>4. (IF p.spectral_band = 0 THEN p.line_number + 1 ELSE stats.current_line) \in Nat
    BY <2>1, <2>3
  <2> QED BY <1>1, <2>2, <2>3, <2>4 DEF StatsType
<1>6. CASE p.id = "SESSION_END"
  BY <1>1, <1>6 DEF StatsAfter, StatsType, Statuses
<1>7. CASE p.id \notin {"IMAGER_CONFIG", "SCENE_START", "LINE_DATA", "SESSION_END"}
  BY <1>1, <1>7 DEF StatsAfter
<1> QED BY <1>3, <1>4, <1>5, <1>6, <1>7

\* The image after a packet that is painted.
LEMMA ImageAfterType ==
    ASSUME ReceiverOK, NEW p \in Arrived, Painted(p.id)
    PROVE  ImageAfter(p) \in ImageType
<1>1. stats.scene_height \in Nat /\ scene_image \in ImageType
  BY Constants DEF ReceiverOK, StatsType
<1>2. CASE p.id = "SCENE_START"
  BY <1>1, <1>2 DEF ImageAfter, BlankImage, ImageType
<1>3. CASE p.id = "LINE_DATA" /\ scene_image.drawn
  <2>1. p.line_number \in Nat
    BY <1>3, ArrivedFields, Constants
  <2>2. Channel(p.spectral_band) \subseteq {"red", "green", "blue"}
    BY DEF Channel
  <2>3. ImageAfter(p) = [scene_image EXCEPT !.painted =
                            @ \cup {<<p.line_number, c>> : c \in Channel(p.spectral_band)}]
    BY <1>3 DEF ImageAfter
  <2> QED BY <1>1, <2>1, <2>2, <2>3 DEF ImageType
<1>4. CASE p.id = "LINE_DATA" /\ ~scene_image.drawn
  BY <1>1, <1>4 DEF ImageAfter
<1> QED BY <1>2, <1>3, <1>4 DEF Painted

\* Taking packets off the front of a sequence.
LEMMA Taken ==
    ASSUME NEW S, NEW s \in Seq(S)
    PROVE  /\ s # <<>> => /\ Head(s) = s[1] /\ s[1] \in S /\ Tail(s) \in Seq(S)
                          /\ Len(Tail(s)) = Len(s) - 1 /\ Len(s) >= 1
                          /\ \A j \in 1 .. Len(s) - 1 : Tail(s)[j] = s[j + 1]
           /\ \A k \in Nat : k <= Len(s) =>
                 /\ SubSeq(s, 1, k) \in Seq(S) /\ Len(SubSeq(s, 1, k)) = k
                 /\ SubSeq(s, k + 1, Len(s)) \in Seq(S)
                 /\ Len(SubSeq(s, k + 1, Len(s))) = Len(s) - k
                 /\ \A j \in 1 .. k : SubSeq(s, 1, k)[j] = s[j]
                 /\ \A j \in 1 .. Len(s) - k : SubSeq(s, k + 1, Len(s))[j] = s[k + j]
  OBVIOUS

\* The receiver's own steps.
LEMMA ReceiverType ==
    ASSUME ClientInv, ReceiverAlone \/ Dial \/ DialFails \/ ReadFails
    PROVE  ClientInv'
<1> USE DEF ClientInv, ReceiverPCs
<1>0. ReceiverOK /\ SocketsOK /\ accum \in Seq(Arrived) /\ inbox \in Seq(Arrived)
      /\ rpc \in ReceiverPCs /\ stats \in StatsType /\ scene_image \in ImageType
  BY DEF ReceiverOK, SocketsOK
<1>1. ASSUME UNCHANGED ui, reconnect' \in BOOLEAN, ReceiverOK', SocketsOK'
      PROVE  ClientInv'
  BY <1>1 DEF UiOK, ui
<1>2. CASE Starting \/ Dialled \/ ReadEnds \/ DialFails \/ ReadFails
  <2>1. \E s \in Statuses : Status(s)
    BY <1>2 DEF Starting, Dialled, ReadEnds, DialFails, ReadFails, Statuses
  <2>2. stats' \in StatsType /\ stats'.bands = stats.bands
    BY <1>0, <2>1, StatusType
  <2>3. /\ UNCHANGED <<scene_image, accum, reconnect, ui, sockets>>
        /\ rpc \in {"start", "dial", "dialled", "read"} /\ rpc' \in {"dial", "read", "poll"}
    BY <1>2 DEF Starting, Dialled, ReadEnds, DialFails, ReadFails
  <2>4. ReceiverOK'
    BY <1>0, <2>2, <2>3 DEF ReceiverOK
  <2> QED BY <1>0, <1>1, <2>3, <2>4 DEF SocketsOK, sockets
<1>3. CASE Dial
  <2>1. ReceiverOK'
    BY <1>0, <1>3 DEF Dial, ReceiverOK
  <2>2. SocketsOK'
    <3>1. inbox' = <<>> /\ eof' = FALSE /\ answer' = answer /\ <<>> \in Seq(Arrived)
      BY <1>3 DEF Dial
    <3> QED BY <1>0, <3>1 DEF SocketsOK
  <2> QED BY <1>1, <1>3, <2>1, <2>2 DEF Dial
<1>4. ASSUME NEW k \in 1 .. MaxRead, Read(k)
      PROVE  ClientInv'
  <2>1. k \in Nat /\ k >= 1 /\ k <= Len(inbox) /\ accum' = SubSeq(inbox, 1, k)
        /\ inbox' = SubSeq(inbox, k + 1, Len(inbox))
    BY <1>4, ClientAssumption DEF Read
  <2>2. accum' \in Seq(Arrived) /\ Len(accum') = k /\ inbox' \in Seq(Arrived)
    BY <1>0, <2>1, Taken
  <2>3. accum' # <<>>
    BY <2>1, <2>2
  <2>4. stats' \in StatsType /\ stats'.bands = stats.bands
    BY <1>0, <1>4, StatusType DEF Read, Statuses
  <2>5. ReceiverOK'
    BY <1>0, <1>4, <2>2, <2>3, <2>4 DEF Read, ReceiverOK
  <2>6. SocketsOK'
    BY <1>0, <1>4, <2>2 DEF Read, SocketsOK
  <2> QED BY <1>1, <1>4, <2>5, <2>6 DEF Read
<1>5. CASE ReadTimesOut
  BY <1>5 DEF ReadTimesOut, clientVars, receiver, ui, sockets, ReceiverOK, UiOK, SocketsOK
<1>6. CASE Process \/ Paint
  <2>1. accum # <<>>
    BY <1>6 DEF Process, Paint, ReceiverOK
  <2>2. Head(accum) \in Arrived /\ Tail(accum) \in Seq(Arrived)
    BY <1>0, <2>1, Taken
  <2>3. stats' \in StatsType /\ stats'.bands \in Seq(Shown) /\ Len(stats'.bands) <= MaxBands
    BY <1>6, <2>2, StatsAfterType DEF Process, Paint, ReceiverOK
  <2>4. scene_image' \in ImageType
    BY <1>6, <2>2, ImageAfterType DEF Process, Paint, ReceiverOK
  <2>5. /\ accum' \in Seq(Arrived) /\ rpc' \in ReceiverPCs
        /\ rpc' \in {"process", "paint"} <=> accum' # <<>>
        /\ rpc' = "paint" => Painted(Head(accum').id)
    <3>1. CASE NextPacket
      BY <2>2, <3>1 DEF NextPacket, RestOrRead
    <3>2. CASE rpc' = "paint" /\ UNCHANGED accum /\ Painted(Head(accum).id)
      BY <1>0, <2>1, <3>2
    <3> QED BY <1>6, <3>1, <3>2 DEF Process, Paint
  <2>6. UNCHANGED <<reconnect, ui, sockets>>
    BY <1>6 DEF Process, Paint
  <2>7. ReceiverOK'
    BY <2>3, <2>4, <2>5 DEF ReceiverOK
  <2> QED BY <1>0, <1>1, <2>6, <2>7 DEF SocketsOK, sockets
<1>7. CASE Poll \/ Clear
  <2>1. ReceiverOK'
    <3>1. NoImage \in ImageType
      BY DEF NoImage, ImageType
    <3> QED BY <1>0, <1>7, <3>1 DEF Poll, Clear, ReceiverOK
  <2> QED BY <1>0, <1>1, <1>7, <2>1 DEF Poll, TakeSignal, Clear, SocketsOK, sockets
<1>8. CASE Reset
  <2>1. StatsAtReset \in StatsType /\ StatsAtReset.bands = <<>>
    <3>1. NoStats \in StatsType /\ NoStats.bands = <<>> /\ "Reconnecting" \in Statuses
      <4>1. "" \in Statuses /\ <<>> \in Seq(Word) /\ 0 \in 0 .. U24 - 1
        BY Constants DEF Statuses
      <4> QED BY <4>1 DEF NoStats, StatsType, Statuses
    <3> QED BY <3>1 DEF StatsAtReset, StatsType
  <2>2. ReceiverOK'
    BY <1>0, <1>8, <2>1, Constants DEF Reset, ReceiverOK
  <2> QED BY <1>0, <1>1, <1>8, <2>2 DEF Reset, SocketsOK, sockets
<1> QED
  BY <1>2, <1>3, <1>4, <1>5, <1>6, <1>7, <1>8 DEF ReceiverAlone

\* No command is silence.
LEMMA CommandsAreLoud ==
    /\ \A direction : NextScene(direction) # Silent
    /\ \A ws : Reconfig(ws) # Silent
<1>1. Silent.magic = "none"
  BY DEF Silent, Unknown
<1> QED BY <1>1 DEF NextScene, Reconfig

\* The interface's own steps, the keys and the commands.
LEMMA UiType ==
    ASSUME ClientInv, UiAlone \/ Keys \/ SendCommand \/ ConnectFails
    PROVE  ClientInv'
<1>0. ReceiverOK /\ UiOK /\ SocketsOK /\ reconnect \in BOOLEAN
  BY DEF ClientInv
<1>1. ASSUME UNCHANGED receiver, reconnect' \in BOOLEAN, UiOK', SocketsOK'
      PROVE  ClientInv'
  BY <1>0, <1>1 DEF ClientInv, ReceiverOK, receiver
<1>2. UNCHANGED sockets => SocketsOK'
  BY <1>0 DEF SocketsOK, sockets
<1> USE DEF UiPCs, Modes
<1>3. CASE SyncBands
  <2>1. CASE Offered /\ list' = stats.bands
             /\ enabled' = [b \in BandSlots |-> b < Len(stats.bands) \/ enabled[b]]
    <3>1. stats.bands \in Seq(Shown) /\ Len(stats.bands) <= MaxBands
      BY <1>0 DEF ReceiverOK
    <3>2. enabled' \in [BandSlots -> BOOLEAN]
      <4>1. \A b \in BandSlots : (b < Len(stats.bands) \/ enabled[b]) \in BOOLEAN
        OBVIOUS
      <4> QED BY <2>1, <4>1, Zenon
    <3>3. UiOK'
      BY <1>0, <1>3, <2>1, <3>1, <3>2 DEF SyncBands, UiOK
    <3> QED BY <1>0, <1>1, <1>2, <1>3, <3>3 DEF SyncBands
  <2>2. CASE UNCHANGED <<list, enabled>>
    BY <1>0, <1>1, <1>2, <1>3, <2>2 DEF SyncBands, UiOK
  <2> QED BY <1>3, <2>1, <2>2 DEF SyncBands
<1>4. CASE NoKey \/ PressBands \/ PressEsc
  BY <1>0, <1>1, <1>2, <1>4 DEF NoKey, PressBands, PressEsc, AtKey, UiOK
<1>5. ASSUME NEW direction \in SceneKeys, PressScene(direction)
      PROVE  ClientInv'
  BY <1>0, <1>1, <1>2, <1>5, CommandsAreLoud, ClientCommandsAssumption
  DEF PressScene, AtKey, UiOK
<1>6. CASE PressSpace \/ PressAll
  <2>1. enabled' \in [BandSlots -> BOOLEAN]
    <3>1. CASE PressSpace
      BY <1>0, <3>1 DEF PressSpace, UiOK
    <3>2. CASE PressAll
      <4> DEFINE E(b) == IF b \in Listed THEN \E c \in Listed : ~enabled[c] ELSE enabled[b]
      <4>1. enabled' = [b \in BandSlots |-> E(b)]
        BY <3>2 DEF PressAll
      <4>2. \A b \in BandSlots : E(b) \in BOOLEAN
        BY <1>0 DEF UiOK
      <4> HIDE DEF E
      <4> QED BY <4>1, <4>2
    <3> QED BY <1>6, <3>1, <3>2
  <2> QED BY <1>0, <1>1, <1>2, <1>6, <2>1 DEF PressSpace, PressAll, AtKey, UiOK
<1>7. CASE PressEnter
  <2>1. CASE Chosen # {} /\ outgoing' = Reconfig(Request) /\ upc' = "send"
    <3>1. outgoing' \in Commands /\ outgoing' # Silent
      BY <1>0, <2>1, RequestIsCommand, CommandsAreLoud DEF ClientInv
    <3> QED BY <1>0, <1>1, <1>2, <1>7, <2>1, <3>1 DEF PressEnter, AtKey, UiOK
  <2>2. CASE upc' = "after" /\ UNCHANGED outgoing
    BY <1>0, <1>1, <1>2, <1>7, <2>2 DEF PressEnter, AtKey, UiOK
  <2> QED BY <1>7, <2>1, <2>2 DEF PressEnter
<1>8. CASE SendCommand \/ ConnectFails \/ AckEnds \/ AckTimesOut
  <2>1. UiOK'
    BY <1>0, <1>8 DEF SendCommand, ConnectFails, AckEnds, AckTimesOut, UiOK
  <2>2. SocketsOK'
    BY <1>0, <1>2, <1>8
    DEF SendCommand, ConnectFails, AckEnds, AckTimesOut, SocketsOK, Answers
  <2> QED BY <1>0, <1>1, <1>8, <2>1, <2>2 DEF SendCommand, ConnectFails, AckEnds, AckTimesOut
<1>9. CASE AfterCommand
  <2>1. list' \in Seq(Shown) /\ Len(list') <= MaxBands
    BY <1>0, <1>9, Constants DEF AfterCommand, UiOK
  <2> QED BY <1>0, <1>1, <1>2, <1>9, <2>1 DEF AfterCommand, Signal, UiOK
<1> QED
  BY <1>3, <1>4, <1>5, <1>6, <1>7, <1>8, <1>9 DEF UiAlone, Keys

(***************************************************************************)
(* The composition.                                                         *)
(***************************************************************************)
TypesInv == TypeInv /\ SourceInv /\ ClientInv

\* Seen from the server every step is one of its own, one of a client's, or none.
LEMMA StepOfServer ==
    ASSUME ClientInv, [NextBoth]_allVars
    PROVE  [Next]_vars
<1>1. CASE ServerStep
  BY <1>1 DEF ServerStep, Next
<1>2. CASE DialServer
  BY <1>2 DEF DialServer, Next, Clients, DataConnect
<1>3. CASE SendToServer
  <2>1. outgoing \in Commands
    BY <1>3 DEF SendToServer, SendCommand, ClientInv, UiOK
  <2> QED BY <1>3, <2>1 DEF SendToServer, Next, Clients, ControlConnect
<1>4. CASE UNCHANGED vars
  BY <1>4
<1> QED
  BY <1>1, <1>2, <1>3, <1>4
  DEF NextBoth, ReceiverStep, DialNobody, ReadReset, UiStep, SendToNobody, UserStep, allVars

\* A server step touches the client's sockets only.
LEMMA ServerStepType ==
    ASSUME TypesInv, TypeInv', SourceInv', ServerStep
    PROVE  ClientInv'
<1>0. inbox \in Seq(Arrived) /\ eof \in BOOLEAN /\ answer \in Answers
  BY DEF TypesInv, ClientInv, SocketsOK
<1>1. inbox' \in Seq(Arrived)
  <2>1. CASE Len(wire') > Len(wire)
    <3>1. wire' \in Seq(PacketType) /\ Len(wire) \in Nat
      BY StreamFacts DEF TypesInv, TypeInv, StreamInv, StreamOK
    <3>2. Len(wire') \in DOMAIN wire' /\ wire'[Len(wire')] \in PacketType
      BY <2>1, <3>1
    <3>3. wire'[Len(wire')] \in Arrived
      BY <3>2 DEF SourceInv, Arrived
    <3> QED BY <1>0, <2>1, <3>3 DEF ServerStep, Deliver
  <2>2. CASE ~(Len(wire') > Len(wire))
    BY <1>0, <2>2 DEF ServerStep, Deliver
  <2> QED BY <2>1, <2>2
<1>2. eof' \in BOOLEAN
  BY <1>0 DEF ServerStep, CloseData
<1>3. answer' \in Answers
  BY <1>0 DEF ServerStep, Respond, Outcome, Answers
<1>4. UNCHANGED <<receiver, reconnect, ui>>
  BY DEF ServerStep
<1> QED
  BY <1>1, <1>2, <1>3, <1>4
  DEF TypesInv, ClientInv, ReceiverOK, UiOK, SocketsOK, receiver, ui

\* Every step of the composition keeps the types on both sides.
LEMMA TypesStep ==
    ASSUME TypesInv, [NextBoth]_allVars
    PROVE  TypesInv'
<1>1. TypeInv' /\ SourceInv'
  BY StepOfServer, TypeStep, SourceStep DEF TypesInv
<1>2. ClientInv'
  <2>1. CASE ServerStep
    BY <1>1, <2>1, ServerStepType
  <2>2. CASE ReceiverStep
    BY <2>2, ReceiverType DEF TypesInv, ReceiverStep, DialServer, DialNobody, ReadReset
  <2>3. CASE UiStep \/ UserStep
    BY <2>3, UiType DEF TypesInv, UiStep, SendToServer, SendToNobody, UserStep
  <2>4. CASE UNCHANGED allVars
    BY <2>4
    DEF TypesInv, ClientInv, ReceiverOK, UiOK, SocketsOK, allVars, clientVars, receiver, ui,
        sockets
  <2> QED BY <2>1, <2>2, <2>3, <2>4 DEF NextBoth
<1> QED BY <1>1, <1>2 DEF TypesInv

\* It starts with them.
LEMMA TypesInit == InitBoth => TypesInv
<1> SUFFICES ASSUME InitBoth PROVE TypesInv
  OBVIOUS
<1>1. TypeInv
  BY TypeInit DEF InitBoth
<1>2. SourceInv
  BY ShownWords DEF InitBoth, Init, SourceInv, BlankScene
<1>3. ReceiverOK
  <2>1. NoStats \in StatsType /\ NoStats.bands = <<>>
    <3>1. "" \in Statuses /\ <<>> \in Seq(Word) /\ 0 \in 0 .. U24 - 1
      BY Constants DEF Statuses
    <3> QED BY <3>1 DEF NoStats, StatsType
  <2>2. NoImage \in ImageType
    BY DEF NoImage, ImageType
  <2> QED BY <2>1, <2>2, Constants DEF InitBoth, ClientInit, ReceiverOK, ReceiverPCs
<1>4. UiOK /\ SocketsOK /\ reconnect \in BOOLEAN
  <2>1. <<>> \in Seq(Arrived) /\ <<>> \in Seq(Shown) /\ Len(<<>>) <= MaxBands
    BY Constants
  <2>2. UiOK
    BY <2>1 DEF InitBoth, ClientInit, UiOK, UiPCs, Modes
  <2> QED BY <2>1, <2>2 DEF InitBoth, ClientInit, SocketsOK, Answers
<1> QED BY <1>1, <1>2, <1>3, <1>4 DEF TypesInv, ClientInv

\* The types hold throughout.
LEMMA AlwaysTyped == SpecBoth => []TypesInv
BY TypesInit, TypesStep, PTL DEF SpecBoth

\* What was proved of the server for all clients holds with this one: the composition
\* implements the server's specification.
THEOREM ServerInComposition == SpecBoth => Init /\ [][Next]_vars
<1>1. InitBoth => Init
  BY DEF InitBoth
<1>2. TypesInv /\ [NextBoth]_allVars => [Next]_vars
  BY StepOfServer DEF TypesInv
<1> QED BY <1>1, <1>2, AlwaysTyped, PTL DEF SpecBoth

\* The client's variables keep their types, its threads never look for a packet in an
\* empty buffer, and what they write is always a command, for any scenes, faults
\* and reads of any size.
THEOREM ClientTypes == SpecBoth => []ClientTypeOK
<1>1. TypesInv => ClientTypeOK
  <2> SUFFICES ASSUME TypesInv PROVE ClientTypeOK
    OBVIOUS
  <2>1. list \in Seq(Word)
    <3>1. list \in [1 .. Len(list) -> Shown] /\ Len(list) \in Nat
      BY DEF TypesInv, ClientInv, UiOK
    <3>2. \A m \in Nat : \A f \in [1 .. m -> Word] : f \in Seq(Word)
      OBVIOUS
    <3> QED BY <3>1, <3>2, ShownWords
  <2>2. CommandOK(outgoing)
    BY SilentType, CommandsAssumption DEF TypesInv, ClientInv, UiOK
  <2> QED
    BY <2>1, <2>2 DEF TypesInv, ClientInv, ReceiverOK, UiOK, SocketsOK, ClientTypeOK
<1> QED BY <1>1, AlwaysTyped, PTL

(***************************************************************************)
(* The connection and the answer: where each end of them stands.               *)
(***************************************************************************)
\* The receiver holds a connection, or what is left of one.
Live == rpc \in {"dialled", "read", "process", "paint"}

\* One connection at most, which no end resets: it waits in the backlog, or is streamed
\* on, until the server has closed it.
ConnInv ==
    /\ pc # "killed" /\ conn \in {"none", "open"}
    /\ pc = "stream" <=> conn = "open"
    /\ pc = "boot" => ~Live
    /\ IF Running /\ Live /\ ~eof
       THEN dataQ = IF conn = "open" THEN 0 ELSE 1
       ELSE conn = "none" /\ (pc # "exited" => dataQ = 0)

\* An acknowledgement leaves no command under way.
AnswerInv ==
    /\ answer = "waiting" => upc = "await"
    /\ answer = "ok" => ctrlQ = <<>> /\ pc \notin {"boot", "recv", "match"}

\* What a step of the server does to the data connection.
Quiet == /\ pc \notin {"stream", "exited", "killed"}
         /\ pc' \notin {"boot", "stream", "killed"}
         /\ UNCHANGED locals /\ UNCHANGED dataQ
Accepts == /\ pc = "acceptData" /\ pc' = "stream" /\ dataQ > 0 /\ dataQ' = dataQ - 1
           /\ conn' = "open" /\ UNCHANGED wire
Streams == /\ pc = "stream" /\ pc' = "stream" /\ StreamStep /\ UNCHANGED <<conn, dataQ>>
Closes  == /\ pc = "stream" /\ pc' \in {"exited", "acceptCtrl"} /\ CloseSession
           /\ conn' = "none" /\ UNCHANGED dataQ /\ wire' = <<>>

\* It does one of these four things, or finds the connection reset.
LEMMA ServerMoves ==
    ASSUME Server, conn # "gone"
    PROVE  Quiet \/ Accepts \/ Streams \/ Closes
<1>1. CASE \/ Boot \/ BootFails \/ AcceptDataFails \/ AcceptControl \/ AcceptControlFails
           \/ ReceiveTooLittle \/ Receive \/ MatchBand \/ FinishReconfig
  <2>1. Quiet
    BY <1>1
    DEF Boot, BootFails, AcceptDataFails, AcceptControl, AcceptControlFails,
        ReceiveTooLittle, Receive, ReceiveReconfig, ReceiveNextScene, ReceiveUnknown, Answer,
        CloseControl, MatchBand, FinishReconfig, Quiet
  <2> QED BY <2>1
<1>2. CASE AcceptData
  BY <1>2 DEF AcceptData, Begin, Accepts
<1>3. CASE Stream
  <2>1. UNCHANGED conn
    BY <1>3
    DEF Stream, StreamStep, Allocate, SendPreamble, LoadLine, LinesDone, SendTelemetry,
        SendExposureStart, SendLineData, SendFinalTelemetry, SendSessionEnd, SendFails
  <2> QED BY <1>3, <2>1 DEF Stream, Streams
<1>4. CASE BrokenPipe
  BY <1>4 DEF BrokenPipe
<1>5. CASE CloseSession
  BY <1>5 DEF CloseSession, Return, AfterSession, Closes
<1> QED BY <1>1, <1>2, <1>3, <1>4, <1>5 DEF Server

\* What a step of the server does to the commands and to the configuration.
LEMMA CommandMoves ==
    ASSUME Server
    PROVE  /\ UNCHANGED ctrlQ \/ (pc = "acceptCtrl" /\ ctrlQ # <<>>)
           /\ pc' = "recv" => pc = "acceptCtrl" /\ ctrlQ # <<>>
           /\ pc' = "match" => pc \in {"recv", "match"}
           /\ pc' # "boot"
           /\ pc \notin {"boot", "recv", "match"}
              => UNCHANGED <<scene, n_bands, band_wavelengths>>
<1>1. CASE Boot \/ BootFails \/ AcceptData \/ AcceptDataFails \/ BrokenPipe
  BY <1>1 DEF Boot, BootFails, AcceptData, AcceptDataFails, BrokenPipe, arguments
<1>2. CASE Stream
  BY <1>2 DEF Stream, StreamStep, arguments
<1>3. CASE CloseSession
  BY <1>3 DEF CloseSession, AfterSession, bandConfig
<1>4. CASE AcceptControl \/ AcceptControlFails \/ ReceiveTooLittle
  BY <1>4 DEF AcceptControl, AcceptControlFails, ReceiveTooLittle, CloseControl, arguments
<1>5. CASE Receive
  BY <1>5
  DEF Receive, ReceiveReconfig, ReceiveNextScene, ReceiveUnknown, Answer, CloseControl
<1>6. CASE MatchBand \/ FinishReconfig
  BY <1>6 DEF MatchBand, FinishReconfig, Answer, CloseControl
<1> QED BY <1>1, <1>2, <1>3, <1>4, <1>5, <1>6 DEF Server

\* The receiver leaves a connection when the server has closed it or is gone.
LEMMA ReceiverMoves ==
    ASSUME ReceiverStep, eof \in BOOLEAN
    PROVE  \/ /\ DialServer /\ ~Live /\ Live' /\ ~eof' /\ Running
           \/ /\ UNCHANGED vars /\ UNCHANGED eof
              /\ Live' => Live
              /\ Live /\ ~Live' => eof \/ ~Running
<1>1. CASE DialServer
  BY <1>1 DEF DialServer, Dial, Live
<1>2. CASE DialNobody \/ ReadReset
  BY <1>2 DEF DialNobody, DialFails, ReadReset, ReadFails, Live, sockets
<1>3. CASE ReceiverAlone /\ UNCHANGED vars
  BY <1>3
  DEF ReceiverAlone, Starting, Dialled, Read, ReadEnds, ReadTimesOut, Process, Paint,
      NextPacket, RestOrRead, Poll, Reset, Clear, Live, sockets, clientVars, receiver
<1> QED BY <1>1, <1>2, <1>3 DEF ReceiverStep

\* The interface's threads touch neither the connection nor the configuration.
LEMMA UiMoves ==
    ASSUME UiStep \/ UserStep
    PROVE  /\ UNCHANGED <<arguments, locals, pc, dataQ, receiver, inbox, eof>>
           /\ UNCHANGED ctrlQ \/ SendToServer
<1>1. CASE SendToServer \/ SendToNobody
  BY <1>1 DEF SendToServer, SendToNobody, SendCommand, Queued, ConnectFails, vars
<1>2. CASE (UiAlone \/ Keys) /\ UNCHANGED vars
  BY <1>2
  DEF UiAlone, SyncBands, NoKey, AckEnds, AckTimesOut, AfterCommand, Keys, PressScene,
      PressBands, PressEsc, PressSpace, PressAll, PressEnter, sockets, vars
<1> QED BY <1>1, <1>2 DEF UiStep, UserStep

\* Every step keeps the connection's state.
LEMMA ConnStep ==
    ASSUME TypesInv, ConnInv, [NextBoth]_allVars
    PROVE  ConnInv'
<1>0. eof \in BOOLEAN /\ dataQ \in Nat
  BY Constants DEF TypesInv, ClientInv, SocketsOK, TypeInv, ServerOK
<1>1. CASE ServerStep
  <2>1. Quiet \/ Accepts \/ Streams \/ Closes
    BY <1>1, ServerMoves DEF ServerStep, ConnInv
  <2>2. UNCHANGED rpc /\ eof' = (eof \/ (conn # "none" /\ conn' = "none"))
    BY <1>1 DEF ServerStep, CloseData, receiver
  <2>3. CASE Quiet
    BY <1>0, <2>2, <2>3 DEF Quiet, locals, ConnInv, Live, Running
  <2>4. CASE Accepts
    BY <1>0, <2>2, <2>4 DEF Accepts, ConnInv, Live, Running
  <2>5. CASE Streams
    BY <1>0, <2>2, <2>5 DEF Streams, ConnInv, Live, Running
  <2>6. CASE Closes
    BY <1>0, <2>2, <2>6 DEF Closes, ConnInv, Live, Running
  <2> QED BY <2>1, <2>3, <2>4, <2>5, <2>6
<1>2. CASE ReceiverStep
  <2>1. CASE DialServer /\ ~Live /\ Live' /\ ~eof' /\ Running
    <3>1. dataQ' = dataQ + 1 /\ UNCHANGED <<pc, conn>>
      BY <2>1 DEF DialServer, locals
    <3> QED BY <1>0, <2>1, <3>1 DEF ConnInv, Running
  <2>2. CASE /\ UNCHANGED vars /\ UNCHANGED eof
             /\ Live' => Live
             /\ Live /\ ~Live' => eof \/ ~Running
    BY <1>0, <2>2 DEF ConnInv, Running, vars, locals
  <2> QED BY <1>0, <1>2, <2>1, <2>2, ReceiverMoves
<1>3. CASE UiStep \/ UserStep
  BY <1>3, UiMoves DEF ConnInv, Live, Running, locals, receiver
<1>4. CASE UNCHANGED allVars
  BY <1>4 DEF allVars, vars, clientVars, receiver, sockets, locals, ConnInv, Live, Running
<1> QED BY <1>1, <1>2, <1>3, <1>4 DEF NextBoth

\* Every step keeps the acknowledgement's meaning.
LEMMA AnswerStep ==
    ASSUME AnswerInv, [NextBoth]_allVars
    PROVE  AnswerInv'
<1>1. CASE ServerStep
  <2>1. UNCHANGED upc /\ Server /\ Respond
    BY <1>1 DEF ServerStep, ui
  <2>2. answer' = "waiting" => answer = "waiting"
    BY <2>1 DEF Respond, Outcome
  <2>3. CASE answer' = "ok" /\ answer = "ok"
    BY <2>1, <2>2, <2>3, CommandMoves DEF AnswerInv
  <2>4. CASE answer' = "ok" /\ answer # "ok"
    <3>1. ctrlQ = <<>> /\ pc \in {"recv", "match"} /\ pc' = "acceptData"
      BY <2>1, <2>4 DEF Respond
    <3> QED BY <2>1, <2>4, <3>1, CommandMoves DEF AnswerInv
  <2>5. CASE answer' # "ok"
    BY <2>1, <2>2, <2>5 DEF AnswerInv
  <2> QED BY <2>3, <2>4, <2>5
<1>2. CASE ReceiverStep
  <2>1. UNCHANGED <<upc, answer, ctrlQ, pc>>
    <3>1. CASE DialServer
      BY <3>1 DEF DialServer, Dial, ui
    <3>2. CASE DialNobody \/ ReadReset
      BY <3>2 DEF DialNobody, DialFails, ReadReset, ReadFails, ui, sockets, vars
    <3>3. CASE ReceiverAlone /\ UNCHANGED vars
      BY <3>3
      DEF ReceiverAlone, Starting, Dialled, Read, ReadEnds, ReadTimesOut, Process, Paint,
          Poll, Reset, Clear, ui, sockets, clientVars, vars
    <3> QED BY <1>2, <3>1, <3>2, <3>3 DEF ReceiverStep
  <2> QED BY <2>1 DEF AnswerInv
<1>3. CASE SendToServer
  BY <1>3 DEF SendToServer, SendCommand, AnswerInv
<1>4. CASE SendToNobody \/ ((UiAlone \/ Keys) /\ UNCHANGED vars)
  BY <1>4
  DEF SendToNobody, ConnectFails, UiAlone, SyncBands, NoKey, AckEnds, AckTimesOut,
      AfterCommand, Keys, PressScene, PressBands, PressEsc, PressSpace, PressAll, PressEnter,
      AtKey, sockets, vars, AnswerInv
<1>5. CASE UNCHANGED allVars
  BY <1>5 DEF allVars, vars, clientVars, ui, sockets, AnswerInv
<1> QED BY <1>1, <1>2, <1>3, <1>4, <1>5 DEF NextBoth, UiStep, UserStep

(***************************************************************************)
(* What the packets of a connection say of its lines.  The client counts every *)
(* line-data packet, but takes the line's number from those of the first band,  *)
(* which it paints blue.                                                     *)
(***************************************************************************)
IsBlue(p) == p.id = "LINE_DATA" /\ p.spectral_band = 0

\* Among the first m packets: the line data, those of the first band, and whether
\* the last of these is of line l.
LinesIn(ps, m)      == {k \in 1 .. m : ps[k].id = "LINE_DATA"}
Blue(ps, m)         == {k \in 1 .. m : IsBlue(ps[k])}
LastBlue(ps, m, l)  == \E k \in Blue(ps, m) :
                          ps[k].line_number = l /\ \A j \in Blue(ps, m) : j <= k

\* The first band of every line below b is among them, and of no line after it.
UpTo(ps, m, b) ==
    /\ \A l \in 0 .. b - 1 : \E k \in Blue(ps, m) : ps[k].line_number = l
    /\ b > 0 => LastBlue(ps, m, b - 1)

\* One packet more.
LEMMA BlueNext ==
    ASSUME NEW ps, NEW m \in Nat
    PROVE  /\ IsBlue(ps[m + 1]) => Blue(ps, m + 1) = Blue(ps, m) \cup {m + 1}
           /\ ~IsBlue(ps[m + 1]) => Blue(ps, m + 1) = Blue(ps, m)
           /\ Blue(ps, m) \subseteq 1 .. m
           /\ \A k \in Blue(ps, m) : k \in Nat /\ k <= m + 1
<1>1. \A k \in 1 .. m + 1 : k \in 1 .. m \/ k = m + 1
  OBVIOUS
<1>2. m + 1 \in 1 .. m + 1 /\ \A k \in 1 .. m : k \in 1 .. m + 1 /\ k \in Nat /\ k <= m + 1
  OBVIOUS
<1> QED BY <1>1, <1>2 DEF Blue

\* Only the packets counted matter.
LEMMA BlueSame ==
    ASSUME NEW ps, NEW qs, NEW m, \A k \in 1 .. m : qs[k] = ps[k]
    PROVE  /\ Blue(qs, m) = Blue(ps, m) /\ LinesIn(qs, m) = LinesIn(ps, m)
           /\ \A l : LastBlue(qs, m, l) = LastBlue(ps, m, l)
           /\ \A b : UpTo(qs, m, b) = UpTo(ps, m, b)
<1>1. Blue(qs, m) = Blue(ps, m) /\ LinesIn(qs, m) = LinesIn(ps, m)
  BY DEF Blue, LinesIn
<1>2. \A k \in Blue(ps, m) : qs[k] = ps[k]
  BY DEF Blue
<1>3. \A l : LastBlue(qs, m, l) = LastBlue(ps, m, l)
  BY <1>1, <1>2 DEF LastBlue
<1> QED BY <1>1, <1>2, <1>3 DEF UpTo

\* A packet of another kind, or of another band, leaves the last one the last.
LEMMA LastBlueNext ==
    ASSUME NEW ps, NEW m \in Nat, NEW l
    PROVE  /\ ~IsBlue(ps[m + 1]) => LastBlue(ps, m + 1, l) = LastBlue(ps, m, l)
           /\ IsBlue(ps[m + 1]) => LastBlue(ps, m + 1, ps[m + 1].line_number)
<1>1. CASE ~IsBlue(ps[m + 1])
  BY <1>1, BlueNext DEF LastBlue
<1>2. CASE IsBlue(ps[m + 1])
  <2>1. Blue(ps, m + 1) = Blue(ps, m) \cup {m + 1}
    BY <1>2, BlueNext
  <2>2. m + 1 <= m + 1
    OBVIOUS
  <2>3. \A j \in Blue(ps, m + 1) : j <= m + 1
    BY <2>1, <2>2, BlueNext
  <2> QED BY <1>2, <2>1, <2>3 DEF LastBlue
<1> QED BY <1>1, <1>2

\* The lines grow with the packet of the next one's first band, and with no other.
LEMMA UpToNext ==
    ASSUME NEW ps, NEW m \in Nat, NEW b \in Nat, UpTo(ps, m, b)
    PROVE  /\ ~IsBlue(ps[m + 1]) => UpTo(ps, m + 1, b)
           /\ IsBlue(ps[m + 1]) /\ ps[m + 1].line_number = b => UpTo(ps, m + 1, b + 1)
<1>1. CASE ~IsBlue(ps[m + 1])
  BY <1>1, BlueNext, LastBlueNext DEF UpTo
<1>2. ASSUME IsBlue(ps[m + 1]), ps[m + 1].line_number = b
      PROVE  UpTo(ps, m + 1, b + 1)
  <2>1. Blue(ps, m + 1) = Blue(ps, m) \cup {m + 1}
    BY <1>2, BlueNext
  <2>2. ASSUME NEW l \in 0 .. b
        PROVE  \E k \in Blue(ps, m + 1) : ps[k].line_number = l
    <3>1. CASE l = b
      BY <1>2, <2>1, <3>1
    <3>2. CASE l # b
      <4>1. l \in 0 .. b - 1
        BY <3>2
      <4> QED BY <2>1, <4>1 DEF UpTo
    <3> QED BY <3>1, <3>2
  <2>3. b + 1 - 1 = b
    OBVIOUS
  <2>4. LastBlue(ps, m + 1, b)
    BY <1>2, LastBlueNext
  <2> QED BY <2>2, <2>3, <2>4 DEF UpTo
<1> QED BY <1>1, <1>2

\* The same for a packet that is appended.
LEMMA UpToAppend ==
    ASSUME NEW S, NEW ps \in Seq(S), NEW p \in S, NEW b \in Nat, UpTo(ps, Len(ps), b)
    PROVE  LET qs == Append(ps, p) IN
           /\ ~IsBlue(p) => UpTo(qs, Len(qs), b)
           /\ IsBlue(p) /\ p.line_number = b => UpTo(qs, Len(qs), b + 1)
<1> DEFINE qs == Append(ps, p)
<1>1. /\ Len(ps) \in Nat /\ Len(qs) = Len(ps) + 1 /\ qs[Len(ps) + 1] = p
      /\ \A k \in 1 .. Len(ps) : qs[k] = ps[k]
  BY L!LongerBy
<1> HIDE DEF qs
<1>2. UpTo(qs, Len(ps), b)
  <2>1. UpTo(qs, Len(ps), b) = UpTo(ps, Len(ps), b)
    BY <1>1, BlueSame
  <2> QED BY <2>1
<1>3. /\ ~IsBlue(p) => UpTo(qs, Len(qs), b)
      /\ IsBlue(p) /\ p.line_number = b => UpTo(qs, Len(qs), b + 1)
  BY <1>1, <1>2, UpToNext
<1> QED BY <1>3 DEF qs

LaterIds == {"IMAGER_TELEMETRY", "EXPOSURE_START", "LINE_DATA", "SESSION_END"}

InOrder(ps) == L!Opened(ps) /\ \A k \in DOMAIN ps : k > 5 => ps[k].id \in LaterIds

\* The opening has no line data, and no packet after it is of the opening's kinds.
LEMMA IdsInOrder ==
    ASSUME NEW S, NEW ps \in Seq(S), InOrder(ps), NEW k \in 1 .. Len(ps)
    PROVE  /\ ps[k].id = "IMAGER_CONFIG" <=> k = 3
           /\ ps[k].id = "SCENE_START" <=> k = 5
           /\ ps[k].id = "LINE_DATA" => k > 5
<1>1. k \in DOMAIN ps /\ k \in Nat /\ k >= 1
  OBVIOUS
<1>2. CASE k <= 5
  <2>1. ps[k].id = L!Opening[k]
    BY <1>1, <1>2 DEF InOrder, L!Opened
  <2>2. k \in {1, 2, 3, 4, 5}
    BY <1>1, <1>2
  <2> QED BY <2>1, <2>2 DEF L!Opening
<1>3. CASE k > 5
  <2>1. ps[k].id \in LaterIds
    BY <1>1, <1>3 DEF InOrder
  <2> QED BY <1>1, <1>3, <2>1 DEF LaterIds
<1> QED BY <1>1, <1>2, <1>3

(***************************************************************************)
(* The packets on the server's side.  What the wire carries was announced by    *)
(* the configuration in force, which changes only while no session runs.       *)
(***************************************************************************)
ShortScenes   == \A dir \in Dirs : dir.n_lines < U24
NoMemoryFault == "memory" \notin Faults

\* Every scene can be streamed to its end: it loads, each of its lines loads, and one
\* fits the packet buffer.
Streamable ==
    /\ ShortScenes /\ NoMemoryFault /\ SteadyFiles /\ Loadable
    /\ \A dir \in Dirs :
          /\ \A l \in 0 .. dir.n_lines - 1 : LineLoads(dir, l, LoadedScene(dir))
          /\ Written(PktBufSize, LineDataPayload(2 * LoadedScene(dir).width)) > 0

Config == [k \in 1 .. n_bands |-> band_wavelengths[k - 1]]

Current(ps) ==
    /\ Len(ps) >= 3 => ps[3].wavelengths = Config
    /\ Len(ps) >= 5 => ps[5].scene_height = scene.n_lines % U24

WireInv ==
    /\ InOrder(wire) /\ Current(wire)
    /\ stage = "done" => L!Of(wire, "SESSION_END") # {}
    /\ NoMemoryFault /\ stage = "failed" => Len(wire) >= 5

\* Of the first band of every line: how many lines have been sent.
Begun == IF stage = "LINE_DATA" /\ band > 0 THEN line + 1 ELSE line

BlueInv ==
    /\ stage # "failed" => UpTo(wire, Len(wire), Begun)
    /\ stage \in {"SESSION_END", "done"} => line = scene.n_lines

\* Outside a session nothing is on the wire.
LEMMA NothingOnWire ==
    ASSUME TypeInv, pc \notin {"stream", "killed"}
    PROVE  stage = "idle" /\ wire = <<>>
BY DEF TypeInv, Phase, StreamInv

\* A statement of stream_session sends nothing, the next packet of the preamble, or one
\* of the lines.
LEMMA Sends ==
    ASSUME TypeInv, OrderInv, StreamStep
    PROVE  /\ UNCHANGED arguments
           /\ \/ UNCHANGED wire
              \/ \E p \in PacketType :
                    /\ wire' = Append(wire, p)
                    /\ Len(wire) < 5 => p = Preamble[Len(wire) + 1]
                    /\ Len(wire) >= 5 => p.id \in LaterIds
<1>0. UNCHANGED arguments /\ ConfigOK /\ StreamOK /\ Len(wire) \in Nat
  BY StreamFacts DEF StreamStep
<1>1. ASSUME Len(wire) >= 5, NEW p \in PacketType, wire' = Append(wire, p), p.id \in LaterIds
      PROVE  \E q \in PacketType :
                /\ wire' = Append(wire, q)
                /\ Len(wire) < 5 => q = Preamble[Len(wire) + 1]
                /\ Len(wire) >= 5 => q.id \in LaterIds
  BY <1>0, <1>1
<1>2. CASE SendPreamble
  <2>1. Len(wire) < 5 /\ Len(wire) + 1 \in 1 .. 5
    BY <1>0, <1>2 DEF SendPreamble, TypeInv, StreamInv
  <2>2. Preamble[Len(wire) + 1] \in PacketType
    BY <1>0, <2>1, PreambleType
  <2> QED BY <1>0, <1>2, <2>1, <2>2 DEF SendPreamble, Send
<1>3. CASE SendTelemetry \/ SendExposureStart \/ SendFinalTelemetry
  <2>1. Len(wire) >= 5
    BY <1>3
    DEF SendTelemetry, SendExposureStart, SendFinalTelemetry, OrderInv, BetweenLines,
        L!InSession
  <2>2. /\ Telemetry(timestamp).id \in LaterIds /\ ExposureStart(timestamp).id \in LaterIds
        /\ Telemetry(timestamp) \in PacketType /\ ExposureStart(timestamp) \in PacketType
    BY <1>0, LinePacketTypes DEF Telemetry, ExposureStart, LaterIds
  <2> QED
    BY <1>0, <1>1, <1>3, <2>1, <2>2
    DEF SendTelemetry, SendExposureStart, SendFinalTelemetry, Send
<1>4. CASE SendLineData
  <2> DEFINE p == LineData(band, line, [stride |-> SrcBands, from |-> SourceBand(band)])
  <2>1. Len(wire) >= 5 /\ wire' = Append(wire, p)
    BY <1>4 DEF SendLineData, Send, OrderInv, L!InSession
  <2>2. p \in PacketType /\ p.id \in LaterIds
    BY <1>0, LinePacketTypes DEF LineData, LaterIds
  <2> HIDE DEF p
  <2> QED BY <1>0, <1>1, <2>1, <2>2
<1>5. CASE SendSessionEnd
  <2>1. Len(wire) >= 5 /\ wire' = Append(wire, SessionEnd(session_id))
    BY <1>5 DEF SendSessionEnd, Send, OrderInv, Whole
  <2>2. SessionEnd(session_id) \in PacketType /\ SessionEnd(session_id).id \in LaterIds
    BY <1>0, LinePacketTypes DEF SessionEnd, LaterIds
  <2> QED BY <1>0, <1>1, <2>1, <2>2
<1>6. CASE Allocate \/ LoadLine \/ LinesDone \/ SendFails
  BY <1>0, <1>6 DEF Allocate, LoadLine, LinesDone, SendFails
<1> QED BY <1>2, <1>3, <1>4, <1>5, <1>6 DEF StreamStep

\* The server's steps keep what the wire carries in order and current.
LEMMA WireStep ==
    ASSUME TypeInv, OrderInv, WireInv, OrderInv', Server, conn # "gone"
    PROVE  WireInv'
<1>1. ASSUME wire' = <<>>, stage' \notin {"done", "failed"}
      PROVE  WireInv'
  BY <1>1 DEF WireInv, InOrder, L!Opened, Current
<1>2. CASE Quiet
  BY <1>1, <1>2, NothingOnWire DEF Quiet, locals
<1>3. CASE Accepts
  <2>1. stage' = "alloc"
    BY <1>3, NothingOnWire
    DEF Accepts, Server, Boot, BootFails, AcceptData, Begin, AcceptDataFails, Stream,
        BrokenPipe, CloseSession, AcceptControl, AcceptControlFails, ReceiveTooLittle,
        Receive, ReceiveReconfig, ReceiveNextScene, ReceiveUnknown, MatchBand,
        FinishReconfig
  <2> QED BY <1>1, <1>3, <2>1, NothingOnWire DEF Accepts
<1>4. CASE Closes
  BY <1>1, <1>4 DEF Closes, CloseSession, Return
<1>5. CASE Streams
  <2>0. wire \in Seq(PacketType) /\ Len(wire) \in Nat /\ UNCHANGED arguments
    BY <1>5, StreamFacts DEF Streams, StreamStep
  <2>1. InOrder(wire') /\ Current(wire)'
    <3>1. CASE UNCHANGED wire
      BY <2>0, <3>1 DEF WireInv, InOrder, Current, Config, arguments
    <3>2. ASSUME NEW p \in PacketType, wire' = Append(wire, p),
                 Len(wire) < 5 => p = Preamble[Len(wire) + 1],
                 Len(wire) >= 5 => p.id \in LaterIds
          PROVE  InOrder(wire') /\ Current(wire)'
      <4>1. /\ Len(wire') = Len(wire) + 1 /\ DOMAIN wire' = 1 .. Len(wire) + 1
            /\ \A k \in 1 .. Len(wire) : wire'[k] = wire[k]
            /\ wire'[Len(wire) + 1] = p /\ DOMAIN wire = 1 .. Len(wire)
        BY <2>0, <3>2, L!LongerBy
      <4>2. \A k \in DOMAIN wire' : k > 5 => wire'[k].id \in LaterIds
        <5>1. ASSUME NEW k \in DOMAIN wire', k > 5 PROVE wire'[k].id \in LaterIds
          <6>1. k \in 1 .. Len(wire) \/ (k = Len(wire) + 1 /\ Len(wire) >= 5)
            BY <2>0, <4>1, <5>1
          <6> QED BY <3>2, <4>1, <5>1, <6>1 DEF WireInv, InOrder
        <5> QED BY <5>1
      <4>3. InOrder(wire')
        BY <4>2 DEF InOrder, OrderInv, OpeningInv
      <4>4. Len(wire') >= 3 => wire'[3].wavelengths = Config'
        <5>1. Config' = Config
          BY <2>0 DEF Config, arguments
        <5>2. CASE Len(wire) >= 3
          <6>1. 3 \in 1 .. Len(wire)
            BY <2>0, <5>2
          <6> QED BY <4>1, <5>1, <5>2, <6>1 DEF WireInv, Current
        <5>3. CASE Len(wire) = 2
          <6>1. wire'[3] = Preamble[3]
            BY <3>2, <4>1, <5>3
          <6>2. Preamble[3].wavelengths = Config
            BY DEF Preamble, ImagerConfig, Config
          <6> QED BY <5>1, <6>1, <6>2
        <5> QED BY <2>0, <4>1, <5>2, <5>3
      <4>5. Len(wire') >= 5 => wire'[5].scene_height = (scene.n_lines % U24)'
        BY DEF OrderInv, OpeningInv, U24
      <4> QED BY <4>3, <4>4, <4>5 DEF Current, U24
    <3> QED BY <1>5, <3>1, <3>2, Sends DEF Streams
  <2>2. stage' = "done" => L!Of(wire', "SESSION_END") # {}
    <3>1. CASE SendSessionEnd
      <4>1. wire' = Append(wire, SessionEnd(session_id)) /\ SessionEnd(session_id) \in PacketType
        BY <3>1, StreamFacts, LinePacketTypes DEF SendSessionEnd, Send
      <4>2. SessionEnd(session_id).id = "SESSION_END"
        BY DEF SessionEnd
      <4> QED BY <2>0, <4>1, <4>2, L!OfAppend
    <3>2. CASE ~SendSessionEnd
      BY <1>5, <3>2
      DEF Streams, StreamStep, Allocate, SendPreamble, LoadLine, AfterLoad, LinesDone,
          SendTelemetry, SendExposureStart, SendLineData, SendFinalTelemetry, SendFails
    <3> QED BY <3>1, <3>2
  <2>3. NoMemoryFault /\ stage' = "failed" => Len(wire') >= 5
    <3>1. SUFFICES ASSUME NoMemoryFault, stage' = "failed"
                   PROVE  Len(wire') >= 5
      OBVIOUS
    <3>2. CASE LoadLine
      BY <3>2 DEF LoadLine, OrderInv, BetweenLines, L!InSession
    <3>3. CASE SendFails
      BY <3>3 DEF SendFails, OrderInv, L!InSession
    <3> QED
      BY <1>5, <3>1, <3>2, <3>3
      DEF Streams, StreamStep, Allocate, SendPreamble, LinesDone, SendTelemetry,
          SendExposureStart, SendLineData, SendFinalTelemetry, SendSessionEnd, NoMemoryFault
  <2> QED BY <2>1, <2>2, <2>3 DEF WireInv
<1> QED BY <1>2, <1>3, <1>4, <1>5, ServerMoves

\* The first band of each line goes out in the order of the lines.
LEMMA BlueStep ==
    ASSUME TypeInv, OrderInv, Short, BlueInv, Server, conn # "gone"
    PROVE  BlueInv'
<1>0. /\ wire \in Seq(PacketType) /\ Len(wire) \in Nat /\ line \in Nat /\ band \in Nat
      /\ n_bands \in Nat /\ n_bands > 0 /\ scene.n_lines \in Nat
  BY StreamFacts
<1>1. ASSUME wire' = <<>>, line' = 0, stage' \in {"idle", "alloc"}
      PROVE  BlueInv'
  BY <1>1 DEF BlueInv, Begun, UpTo
<1>2. CASE Quiet
  <2>1. wire = <<>> /\ stage = "idle" /\ line = 0
    BY <1>2, NothingOnWire DEF Quiet, OrderInv, LoopInv, BeforePreamble
  <2> QED BY <1>1, <1>2, <2>1 DEF Quiet, locals
<1>3. CASE Accepts
  <2>1. stage' = "alloc" /\ line' = line
    BY <1>3, NothingOnWire
    DEF Accepts, Server, Boot, BootFails, AcceptData, Begin, AcceptDataFails, Stream,
        BrokenPipe, CloseSession, AcceptControl, AcceptControlFails, ReceiveTooLittle,
        Receive, ReceiveReconfig, ReceiveNextScene, ReceiveUnknown, MatchBand,
        FinishReconfig
  <2>2. wire = <<>> /\ line = 0
    BY <1>3, NothingOnWire DEF Accepts, OrderInv, LoopInv, BeforePreamble
  <2> QED BY <1>1, <1>3, <2>1, <2>2 DEF Accepts
<1>4. CASE Closes
  BY <1>1, <1>4 DEF Closes, CloseSession, Return
<1>5. CASE Streams
  <2>0. UNCHANGED scene /\ UNCHANGED n_bands
    BY <1>5 DEF Streams, StreamStep, arguments
  <2>1. ASSUME wire' = wire, stage' = "failed" \/ Begun' = Begun, stage # "failed",
               stage' \notin {"SESSION_END", "done"}
        PROVE  BlueInv'
    BY <2>1 DEF BlueInv
  <2>2. ASSUME NEW p \in PacketType, wire' = Append(wire, p), stage # "failed",
               \/ ~IsBlue(p) /\ Begun' = Begun
               \/ IsBlue(p) /\ p.line_number = Begun /\ Begun' = Begun + 1,
               stage' \in {"SESSION_END", "done"} => line' = scene.n_lines
        PROVE  BlueInv'
    <3>1. UpTo(wire, Len(wire), Begun) /\ Begun \in Nat
      BY <1>0, <2>2 DEF BlueInv, Begun
    <3>2. UpTo(wire', Len(wire'), Begun')
      <4> DEFINE b == Begun
      <4>1. b \in Nat /\ UpTo(wire, Len(wire), b)
        BY <3>1
      <4>2. /\ ~IsBlue(p) => UpTo(wire', Len(wire'), b)
            /\ IsBlue(p) /\ p.line_number = b => UpTo(wire', Len(wire'), b + 1)
        <5> HIDE DEF b
        <5> QED BY <1>0, <2>2, <4>1, UpToAppend
      <4> QED BY <2>2, <4>2
    <3> QED BY <2>0, <2>2, <3>2 DEF BlueInv
  <2>3. CASE Allocate \/ LinesDone \/ LoadLine
    BY <2>1, <2>3 DEF Allocate, LinesDone, LoadLine, AfterLoad, Begun
  <2>4. CASE SendFails
    <3>1. stage # "failed" /\ stage' = "failed" /\ wire' = wire
      BY <2>4 DEF SendFails, SendStages
    <3> QED BY <2>1, <3>1
  <2>5. CASE SendPreamble
    <3>1. Len(wire) + 1 \in 1 .. 5 /\ stage = "PREAMBLE"
      BY <1>0, <2>5 DEF SendPreamble, TypeInv, StreamInv
    <3> DEFINE p == Preamble[Len(wire) + 1]
    <3>2. p \in PacketType
      BY <3>1, PreambleType DEF TypeInv
    <3>3. p.id # "LINE_DATA"
      <4>1. p.id = L!Opening[Len(wire) + 1]
        BY <3>1, PreambleOpens
      <4> QED BY <3>1, <4>1, L!OpeningIds
    <3>4. wire' = Append(wire, p) /\ stage' \in {"PREAMBLE", "line"} /\ line' = line
      BY <2>5 DEF SendPreamble, Send
    <3> HIDE DEF p
    <3> QED BY <2>2, <3>1, <3>2, <3>3, <3>4 DEF IsBlue, Begun
  <2>6. CASE SendTelemetry
    BY <1>0, <2>2, <2>6, LinePacketTypes, StreamFacts
    DEF SendTelemetry, Send, Telemetry, IsBlue, Begun
  <2>7. CASE SendExposureStart
    BY <1>0, <2>2, <2>7, LinePacketTypes, StreamFacts
    DEF SendExposureStart, Send, ExposureStart, IsBlue, Begun, clock
  <2>8. CASE SendLineData
    <3> DEFINE p == LineData(band, line, [stride |-> SrcBands, from |-> SourceBand(band)])
    <3>1. p \in PacketType
      BY StreamFacts, LinePacketTypes
    <3>2. line < scene.n_lines
      BY <2>8 DEF SendLineData, OrderInv, LoopInv
    <3>3. line % U24 = line
      BY <1>0, <3>2 DEF Short, U24
    <3>4. p.id = "LINE_DATA" /\ p.spectral_band = band /\ p.line_number = line
      BY <3>3 DEF LineData
    <3>5. wire' = Append(wire, p) /\ stage = "LINE_DATA"
      BY <2>8 DEF SendLineData, Send
    <3> HIDE DEF p
    <3>6. stage' \in {"LINE_DATA", "line"} /\ Begun' = line + 1
      <4>1. CASE band + 1 < n_bands
        <5>1. band' = band + 1 /\ line' = line /\ stage' = "LINE_DATA" /\ band + 1 > 0
          BY <1>0, <2>8, <4>1 DEF SendLineData
        <5> QED BY <5>1 DEF Begun
      <4>2. CASE ~(band + 1 < n_bands)
        <5>1. line' = line + 1 /\ stage' = "line"
          BY <1>0, <2>8, <4>2 DEF SendLineData
        <5> QED BY <5>1 DEF Begun
      <4> QED BY <4>1, <4>2
    <3>7. Begun = IF band > 0 THEN line + 1 ELSE line
      BY <3>5 DEF Begun
    <3>8. IsBlue(p) <=> band = 0
      BY <3>4 DEF IsBlue
    <3> QED BY <1>0, <2>2, <3>1, <3>4, <3>5, <3>6, <3>7, <3>8
  <2>9. CASE SendFinalTelemetry
    <3>1. line = scene.n_lines
      BY <2>9 DEF SendFinalTelemetry, OrderInv, LoopInv
    <3> QED
      BY <1>0, <2>2, <2>9, <3>1, LinePacketTypes, StreamFacts
      DEF SendFinalTelemetry, Send, Telemetry, IsBlue, Begun
  <2>10. CASE SendSessionEnd
    <3>1. line = scene.n_lines
      BY <2>10 DEF SendSessionEnd, BlueInv
    <3> QED
      BY <1>0, <2>2, <2>10, <3>1, LinePacketTypes, StreamFacts
      DEF SendSessionEnd, Send, SessionEnd, IsBlue, Begun
  <2> QED
    BY <1>5, <2>3, <2>4, <2>5, <2>6, <2>7, <2>8, <2>9, <2>10 DEF Streams, StreamStep
<1> QED BY <1>2, <1>3, <1>4, <1>5, ServerMoves

\* Where every scene can be streamed, a session fails only when its client is gone.
LEMMA NoFailStep ==
    ASSUME Streamable, TypeInv, SceneInv, conn # "gone", stage # "failed", Server
    PROVE  stage' # "failed"
<1>1. CASE Quiet \/ Accepts
  <2>1. pc \notin {"stream", "killed"}
    BY <1>1 DEF Quiet, Accepts
  <2> QED
    BY <2>1, NothingOnWire
    DEF Server, Boot, BootFails, AcceptData, Begin, AcceptDataFails, Stream, BrokenPipe,
        CloseSession, AcceptControl, AcceptControlFails, ReceiveTooLittle, Receive,
        ReceiveReconfig, ReceiveNextScene, ReceiveUnknown, MatchBand, FinishReconfig, locals
<1>2. CASE Closes
  BY <1>2 DEF Closes, CloseSession, Return
<1>3. CASE Streams
  <2>1. scene = LoadedScene(SceneDir) /\ SceneDir \in Dirs
    BY <1>3, DirInList DEF Streams, SceneInv, Configured, SceneDir, TypeInv, ConfigOK
  <2>2. LineFits
    BY <2>1 DEF Streamable, LineFits
  <2>3. line < scene.n_lines => LineLoads(SceneDir, line, scene)
    <3>1. scene.n_lines = SceneDir.n_lines /\ SceneDir.n_lines \in Nat /\ line \in Nat
      BY <2>1, StreamFacts DEF LoadedScene
    <3>2. line < scene.n_lines => line \in 0 .. SceneDir.n_lines - 1
      BY <3>1
    <3> QED BY <2>1, <3>2 DEF Streamable
  <2> QED
    BY <1>3, <2>2, <2>3
    DEF Streams, StreamStep, Allocate, SendPreamble, LoadLine, AfterLoad, LinesDone,
        SendTelemetry, SendExposureStart, SendLineData, SendFinalTelemetry, SendSessionEnd,
        SendFails, Streamable, NoMemoryFault, SteadyFiles
<1> QED BY <1>1, <1>2, <1>3, ServerMoves

(***************************************************************************)
(* A connection the server has closed.                                        *)
(***************************************************************************)
\* All lines that the opening announced, in every band, and the first band in order.
Finished(ps) ==
    /\ Len(ps) >= 5 /\ ps[5].scene_height > 0
    /\ UpTo(ps, Len(ps), ps[5].scene_height)
    /\ Cardinality(LinesIn(ps, Len(ps))) = ps[5].scene_height * Len(ps[3].wavelengths)

Closed(ps) == /\ NoMemoryFault => Len(ps) >= 5
              /\ Streamable => Finished(ps)

\* What holds on the server's side, and of the connection and the answer.
ServerInv ==
    /\ TypesInv /\ ConnInv /\ AnswerInv /\ OrderInv /\ WireInv
    /\ ShortScenes => Short /\ BlueInv
    /\ Streamable => SceneInv /\ stage # "failed"

\* A session that is closed was opened, and it was whole where it could be.
LEMMA ClosedWire ==
    ASSUME ServerInv, pc = "stream", stage \in {"done", "failed"}
    PROVE  Closed(wire)
<1>0. /\ TypeInv /\ OrderInv /\ WireInv /\ wire \in Seq(PacketType) /\ n_bands \in Nat
      /\ scene.n_lines \in Nat /\ Len(wire) \in Nat
  BY StreamFacts DEF ServerInv, TypesInv
<1>1. stage = "done" => Whole(scene.n_lines)
  BY <1>0 DEF WireInv, OrderInv
<1>2. NoMemoryFault => Len(wire) >= 5
  BY <1>0, <1>1 DEF WireInv, Whole
<1>3. ASSUME Streamable
      PROVE  Finished(wire)
  <2>1. /\ SceneInv /\ stage = "done" /\ Short /\ BlueInv
    BY <1>3 DEF ServerInv, Streamable
  <2>2. Len(wire) >= 5 /\ Len(wire) >= 3
    BY <1>0, <1>1, <2>1 DEF Whole
  <2>3. scene.n_lines # 0
    <3>1. scene = LoadedScene(SceneDir) /\ SceneDir \in Dirs
      BY <1>0, <2>1, DirInList DEF SceneInv, Configured, SceneDir, TypeInv, ConfigOK
    <3> QED BY <1>3, <3>1 DEF Streamable, Loadable, LoadSucceeds, SceneUsable
  <2>4. wire[5].scene_height = scene.n_lines
    <3>1. wire[5].scene_height = scene.n_lines % U24
      BY <1>0, <2>2 DEF WireInv, Current
    <3> QED BY <1>0, <2>1, <3>1 DEF Short, U24
  <2>5. Len(wire[3].wavelengths) = n_bands
    <3>1. wire[3].wavelengths = Config
      BY <1>0, <2>2 DEF WireInv, Current
    <3>2. Len(Config) = n_bands
      BY <1>0 DEF Config
    <3> QED BY <3>1, <3>2
  <2>6. Cardinality(LinesIn(wire, Len(wire))) = scene.n_lines * n_bands
    <3>1. L!Of(wire, "LINE_DATA") = LinesIn(wire, Len(wire))
      BY <1>0 DEF L!Of, LinesIn
    <3>2. L!Count(wire, "LINE_DATA") = scene.n_lines * n_bands
      BY <1>1, <2>1 DEF Whole
    <3> QED BY <3>1, <3>2 DEF L!Count, L!Cardinality, Cardinality
  <2>7. UpTo(wire, Len(wire), scene.n_lines)
    BY <2>1 DEF BlueInv, Begun
  <2> QED BY <1>0, <2>2, <2>3, <2>4, <2>5, <2>6, <2>7 DEF Finished
<1> QED BY <1>2, <1>3 DEF Closed

\* Every step keeps it.
LEMMA ServerInvStep ==
    ASSUME ServerInv, [NextBoth]_allVars
    PROVE  ServerInv'
<1>0. TypesInv /\ TypeInv /\ ConnInv /\ AnswerInv /\ OrderInv /\ WireInv /\ ClientInv
  BY DEF ServerInv, TypesInv
<1>1. TypesInv' /\ ConnInv' /\ AnswerInv' /\ [Next]_vars
  BY <1>0, TypesStep, ConnStep, AnswerStep, StepOfServer
<1>2. OrderInv'
  BY <1>0, <1>1, OrderStep
<1>3. Server \/ (UNCHANGED arguments /\ UNCHANGED locals)
  BY DEF NextBoth, ServerStep, ReceiverStep, DialServer, DialNobody, ReadReset, UiStep,
         SendToServer, Queued, SendToNobody, UserStep, allVars, vars
<1>4. conn # "gone"
  BY <1>0 DEF ConnInv
<1>5. WireInv'
  <2>1. CASE Server
    BY <1>0, <1>2, <1>4, <2>1, WireStep
  <2>2. CASE UNCHANGED arguments /\ UNCHANGED locals
    BY <1>0, <2>2 DEF WireInv, Current, Config, arguments, locals
  <2> QED BY <1>3, <2>1, <2>2
<1>6. ASSUME ShortScenes PROVE (Short /\ BlueInv)'
  <2>1. Short /\ BlueInv
    BY <1>6 DEF ServerInv
  <2>2. Short'
    BY <1>0, <1>1, <1>6, <2>1, ShortStep DEF ShortScenes
  <2>3. CASE Server
    BY <1>0, <1>4, <2>1, <2>2, <2>3, BlueStep
  <2>4. CASE UNCHANGED arguments /\ UNCHANGED locals
    BY <2>1, <2>2, <2>4 DEF BlueInv, Begun, arguments, locals
  <2> QED BY <1>3, <2>2, <2>3, <2>4
<1>7. ASSUME Streamable PROVE (SceneInv /\ stage # "failed")'
  <2>1. SceneInv /\ stage # "failed"
    BY <1>7 DEF ServerInv
  <2>2. SceneInv'
    BY <1>0, <1>1, <1>7, <2>1, SceneStep DEF Streamable
  <2>3. CASE Server
    BY <1>0, <1>4, <1>7, <2>1, <2>2, <2>3, NoFailStep
  <2>4. CASE UNCHANGED arguments /\ UNCHANGED locals
    BY <2>1, <2>2, <2>4 DEF locals
  <2> QED BY <1>3, <2>2, <2>3, <2>4
<1>8. (ShortScenes => Short /\ BlueInv)' /\ (Streamable => SceneInv /\ stage # "failed")'
  BY <1>6, <1>7
<1> QED BY <1>1, <1>2, <1>5, <1>8 DEF ServerInv

\* It holds at the start.
LEMMA ServerInvInit == InitBoth => ServerInv
<1> SUFFICES ASSUME InitBoth PROVE ServerInv
  OBVIOUS
<1>1. TypesInv
  BY TypesInit
<1>2. ConnInv /\ AnswerInv
  BY DEF InitBoth, Init, ClientInit, ConnInv, AnswerInv, Live, Running
<1>3. /\ wire = <<>> /\ stage = "idle" /\ line = 0 /\ timestamp = 0 /\ last_telemetry = 0
      /\ pc = "boot" /\ scene = BlankScene
  BY DEF InitBoth, Init
<1>4. OrderInv
  BY <1>3, OrderOfNothing DEF NothingSent
<1>5. WireInv
  BY <1>3 DEF WireInv, InOrder, L!Opened, Current
<1>6. Short /\ BlueInv
  BY <1>3 DEF Short, BlankScene, U24, BlueInv, Begun, UpTo
<1>7. SceneInv /\ stage # "failed"
  BY <1>3 DEF SceneInv, Configured
<1> QED BY <1>1, <1>2, <1>4, <1>5, <1>6, <1>7 DEF ServerInv

(***************************************************************************)
(* What the client has made of the packets of a connection.                   *)
(***************************************************************************)
\* The statistics s count the first m packets.
CountsOf(s, ps, m) ==
    /\ s.bands = IF m >= 3 THEN ps[3].wavelengths ELSE <<>>
    /\ s.scene_height = IF m >= 5 THEN ps[5].scene_height ELSE 0
    /\ s.line_data = Cardinality(LinesIn(ps, m))
    /\ IF Blue(ps, m) = {} THEN s.current_line = 0
       ELSE s.current_line > 0 /\ LastBlue(ps, m, s.current_line - 1)

\* The image shows the lines of the first m packets.
ImageOf(image, ps, m) ==
    m >= 5 => /\ image.drawn /\ image.height = ps[5].scene_height
              /\ \A k \in Blue(ps, m) : <<ps[k].line_number, "blue">> \in image.painted

\* Packets that come later change neither.
LEMMA CountsSame ==
    ASSUME NEW ps, NEW qs, NEW m \in Nat, \A k \in 1 .. m : qs[k] = ps[k], NEW s, NEW image
    PROVE  /\ CountsOf(s, ps, m) => CountsOf(s, qs, m)
           /\ ImageOf(image, ps, m) => ImageOf(image, qs, m)
<1>1. /\ Blue(qs, m) = Blue(ps, m) /\ LinesIn(qs, m) = LinesIn(ps, m)
      /\ \A l : LastBlue(qs, m, l) = LastBlue(ps, m, l)
  BY BlueSame
<1>2. (m >= 3 => qs[3] = ps[3]) /\ (m >= 5 => qs[5] = ps[5])
  OBVIOUS
<1>3. \A k \in Blue(ps, m) : qs[k] = ps[k]
  BY DEF Blue
<1>4. CountsOf(s, ps, m) => CountsOf(s, qs, m)
  BY <1>1, <1>2 DEF CountsOf
<1>5. ImageOf(image, ps, m) => ImageOf(image, qs, m)
  BY <1>1, <1>2, <1>3 DEF ImageOf
<1> QED BY <1>4, <1>5

\* The status is no count.
LEMMA CountsAnyStatus ==
    ASSUME stats \in StatsType, NEW status, NEW ps, NEW m, CountsOf(stats, ps, m)
    PROVE  CountsOf([stats EXCEPT !.status = status], ps, m)
BY DEF CountsOf, StatsType

\* One more line-data packet is one more to count.
LEMMA LinesNext ==
    ASSUME NEW ps, NEW m \in Nat
    PROVE  /\ Cardinality(LinesIn(ps, m)) \in Nat
           /\ ps[m + 1].id = "LINE_DATA"
              => Cardinality(LinesIn(ps, m + 1)) = Cardinality(LinesIn(ps, m)) + 1
           /\ ps[m + 1].id # "LINE_DATA" => LinesIn(ps, m + 1) = LinesIn(ps, m)
<1>1. IsFiniteSet(LinesIn(ps, m)) /\ Cardinality(LinesIn(ps, m)) \in Nat
  <2>1. IsFiniteSet(1 .. m)
    BY FS_Interval
  <2>2. LinesIn(ps, m) \in SUBSET (1 .. m)
    BY DEF LinesIn
  <2>3. IsFiniteSet(LinesIn(ps, m))
    BY <2>1, <2>2, FS_Subset
  <2> QED BY <2>3, FS_CardinalityType
<1>2. \A k \in 1 .. m + 1 : k \in 1 .. m \/ k = m + 1
  OBVIOUS
<1>3. m + 1 \in 1 .. m + 1 /\ m + 1 \notin 1 .. m /\ \A k \in 1 .. m : k \in 1 .. m + 1
  OBVIOUS
<1>4. ASSUME ps[m + 1].id = "LINE_DATA"
      PROVE  Cardinality(LinesIn(ps, m + 1)) = Cardinality(LinesIn(ps, m)) + 1
  <2>1. LinesIn(ps, m + 1) = LinesIn(ps, m) \cup {m + 1} /\ m + 1 \notin LinesIn(ps, m)
    BY <1>2, <1>3, <1>4 DEF LinesIn
  <2> QED BY <1>1, <2>1, FS_AddElement
<1>5. ps[m + 1].id # "LINE_DATA" => LinesIn(ps, m + 1) = LinesIn(ps, m)
  BY <1>2, <1>3 DEF LinesIn
<1> QED BY <1>1, <1>4, <1>5

\* process_packets keeps the count.
LEMMA CountsNext ==
    ASSUME NEW ps \in Seq(Arrived), InOrder(ps), NEW m \in Nat, m + 1 <= Len(ps),
           stats \in StatsType, CountsOf(stats, ps, m)
    PROVE  CountsOf(StatsAfter(ps[m + 1]), ps, m + 1)
<1> DEFINE p == ps[m + 1]
           s == StatsAfter(p)
<1>1. m + 1 \in 1 .. Len(ps) /\ p \in Arrived
  OBVIOUS
<1>2. /\ p.id = "IMAGER_CONFIG" <=> m + 1 = 3
      /\ p.id = "SCENE_START" <=> m + 1 = 5
  BY <1>1, IdsInOrder
<1>3. m + 1 >= 3 <=> m >= 3 \/ m + 1 = 3
  OBVIOUS
<1>4. m + 1 >= 5 <=> m >= 5 \/ m + 1 = 5
  OBVIOUS
<1>5. /\ s.bands = IF p.id = "IMAGER_CONFIG" THEN p.wavelengths ELSE stats.bands
      /\ s.scene_height = IF p.id = "SCENE_START" THEN p.scene_height ELSE stats.scene_height
      /\ s.line_data = IF p.id = "LINE_DATA" THEN stats.line_data + 1 ELSE stats.line_data
      /\ s.current_line = IF IsBlue(p) THEN p.line_number + 1 ELSE stats.current_line
  <2>1. CASE p.id = "IMAGER_CONFIG"
    BY <2>1 DEF StatsAfter, StatsType, IsBlue
  <2>2. CASE p.id = "SCENE_START"
    BY <2>2 DEF StatsAfter, StatsType, IsBlue
  <2>3. CASE p.id = "LINE_DATA"
    <3>1. s = [stats EXCEPT !.line_data = @ + 1,
               !.current_line = IF p.spectral_band = 0 THEN p.line_number + 1 ELSE @]
      BY <2>3 DEF StatsAfter
    <3> HIDE DEF s, p
    <3> QED BY <2>3, <3>1 DEF StatsType, IsBlue
  <2>4. CASE p.id = "SESSION_END"
    BY <2>4 DEF StatsAfter, StatsType, IsBlue
  <2>5. CASE p.id \notin {"IMAGER_CONFIG", "SCENE_START", "LINE_DATA", "SESSION_END"}
    BY <2>5 DEF StatsAfter, StatsType, IsBlue
  <2> QED BY <2>1, <2>2, <2>3, <2>4, <2>5
<1> HIDE DEF s
<1>6. s.bands = IF m + 1 >= 3 THEN ps[3].wavelengths ELSE <<>>
  BY <1>2, <1>3, <1>5 DEF CountsOf
<1>7. s.scene_height = IF m + 1 >= 5 THEN ps[5].scene_height ELSE 0
  BY <1>2, <1>4, <1>5 DEF CountsOf
<1>8. s.line_data = Cardinality(LinesIn(ps, m + 1))
  BY <1>5, LinesNext DEF CountsOf
<1>9. IF Blue(ps, m + 1) = {} THEN s.current_line = 0
      ELSE s.current_line > 0 /\ LastBlue(ps, m + 1, s.current_line - 1)
  <2>1. CASE IsBlue(p)
    <3>1. p.line_number \in Nat
      BY <1>1, <2>1, ArrivedFields, Constants DEF IsBlue
    <3>2. s.current_line - 1 = p.line_number /\ s.current_line > 0
      BY <1>5, <2>1, <3>1
    <3>3. LastBlue(ps, m + 1, p.line_number)
      BY <2>1, LastBlueNext
    <3>4. Blue(ps, m + 1) # {}
      BY <3>3 DEF LastBlue
    <3> QED BY <3>2, <3>3, <3>4
  <2>2. CASE ~IsBlue(p)
    <3>1. s.current_line = stats.current_line
      BY <1>5, <2>2
    <3>2. Blue(ps, m + 1) = Blue(ps, m)
      BY <2>2, BlueNext
    <3>3. LastBlue(ps, m + 1, stats.current_line - 1) = LastBlue(ps, m, stats.current_line - 1)
      BY <2>2, LastBlueNext
    <3> QED BY <3>1, <3>2, <3>3 DEF CountsOf
  <2> QED BY <2>1, <2>2
<1>10. CountsOf(s, ps, m + 1)
  BY <1>6, <1>7, <1>8, <1>9 DEF CountsOf
<1> QED BY <1>10 DEF s

\* update_image keeps the picture up with the count, and a packet that is not painted
\* has nothing to show.
LEMMA ImageNext ==
    ASSUME NEW ps \in Seq(Arrived), InOrder(ps), NEW m \in Nat, m + 1 <= Len(ps),
           scene_image \in ImageType, ImageOf(scene_image, ps, m)
    PROVE  /\ ~Painted(ps[m + 1].id) => ImageOf(scene_image, ps, m + 1)
           /\ Painted(ps[m + 1].id) /\ CountsOf(stats, ps, m + 1)
              => ImageOf(ImageAfter(ps[m + 1]), ps, m + 1)
<1> DEFINE p == ps[m + 1]
<1>1. m + 1 \in 1 .. Len(ps) /\ p \in Arrived /\ Len(ps) \in Nat
  OBVIOUS
<1>2. /\ p.id = "SCENE_START" <=> m + 1 = 5
      /\ p.id = "LINE_DATA" => m + 1 > 5
  BY <1>1, IdsInOrder
<1>3. m + 1 >= 5 <=> m >= 5 \/ m + 1 = 5
  OBVIOUS
<1>4. ~IsBlue(p) => Blue(ps, m + 1) = Blue(ps, m)
  BY BlueNext
<1>5. ASSUME ~Painted(p.id)
      PROVE  ImageOf(scene_image, ps, m + 1)
  <2>1. ~IsBlue(p) /\ m + 1 # 5
    BY <1>2, <1>5 DEF Painted, IsBlue
  <2> QED BY <1>3, <1>4, <2>1 DEF ImageOf
<1>6. ASSUME p.id = "SCENE_START", CountsOf(stats, ps, m + 1)
      PROVE  ImageOf(ImageAfter(p), ps, m + 1)
  <2>1. m + 1 = 5 /\ m + 1 >= 5
    BY <1>2, <1>6
  <2>2. ImageAfter(p) = BlankImage(stats.scene_height)
    BY <1>6 DEF ImageAfter
  <2>3. stats.scene_height = ps[5].scene_height
    BY <1>6, <2>1 DEF CountsOf
  <2>4. Blue(ps, m + 1) = {}
    <3>1. ASSUME NEW k \in 1 .. 5 PROVE ~IsBlue(ps[k])
      <4>1. k \in 1 .. Len(ps) /\ ~(k > 5)
        BY <1>1, <2>1
      <4> QED BY <4>1, IdsInOrder DEF IsBlue
    <3> QED BY <2>1, <3>1 DEF Blue
  <2> QED BY <2>2, <2>3, <2>4 DEF BlankImage, ImageOf
<1>7. ASSUME p.id = "LINE_DATA", CountsOf(stats, ps, m + 1)
      PROVE  ImageOf(ImageAfter(p), ps, m + 1)
  <2>1. m + 1 > 5 /\ m >= 5 /\ m + 1 >= 3
    BY <1>2, <1>7
  <2>2. /\ scene_image.drawn /\ scene_image.height = ps[5].scene_height
        /\ \A k \in Blue(ps, m) : <<ps[k].line_number, "blue">> \in scene_image.painted
    BY <2>1 DEF ImageOf
  <2> DEFINE new == {<<p.line_number, c>> : c \in Channel(p.spectral_band)}
  <2>3. ImageAfter(p) = [scene_image EXCEPT !.painted = @ \cup new]
    BY <1>7, <2>2 DEF ImageAfter
  <2>4. /\ ImageAfter(p).drawn /\ ImageAfter(p).height = ps[5].scene_height
        /\ ImageAfter(p).painted = scene_image.painted \cup new
    BY <2>2, <2>3 DEF ImageType
  <2>5. IsBlue(p) => <<p.line_number, "blue">> \in new
    <3> SUFFICES ASSUME IsBlue(p) PROVE "blue" \in Channel(p.spectral_band)
      OBVIOUS
    <3>1. 3 \in 1 .. Len(ps) /\ ps[3] \in Arrived
      BY <1>1, <2>1
    <3>2. ps[3].id = "IMAGER_CONFIG"
      BY <3>1, IdsInOrder
    <3>3. Len(ps[3].wavelengths) > 0
      BY <3>1, <3>2, ArrivedFields
    <3>4. stats.bands = ps[3].wavelengths
      BY <1>7, <2>1 DEF CountsOf
    <3> QED BY <3>3, <3>4 DEF Channel, IsBlue
  <2>6. IsBlue(p) => Blue(ps, m + 1) = Blue(ps, m) \cup {m + 1}
    BY BlueNext
  <2> HIDE DEF new
  <2>7. \A k \in Blue(ps, m + 1) : <<ps[k].line_number, "blue">> \in ImageAfter(p).painted
    BY <1>4, <2>2, <2>4, <2>5, <2>6
  <2> QED BY <2>4, <2>7 DEF ImageOf
<1> QED BY <1>5, <1>6, <1>7 DEF Painted

\* There is one last packet of the first band.
LEMMA OneLastBlue ==
    ASSUME NEW ps, NEW m, NEW a, NEW b, LastBlue(ps, m, a), LastBlue(ps, m, b), m \in Nat
    PROVE  a = b
<1>1. PICK k \in Blue(ps, m) : ps[k].line_number = a /\ \A j \in Blue(ps, m) : j <= k
  BY DEF LastBlue
<1>2. PICK n \in Blue(ps, m) : ps[n].line_number = b /\ \A j \in Blue(ps, m) : j <= n
  BY DEF LastBlue
<1>3. k <= n /\ n <= k /\ k \in Nat /\ n \in Nat
  BY <1>1, <1>2, BlueNext
<1> QED BY <1>1, <1>2, <1>3

\* At the end of a session that was whole, the statistics and the image are.
LEMMA WholeAtEnd ==
    ASSUME NEW ps \in Seq(Arrived), InOrder(ps), Finished(ps),
           stats \in StatsType, CountsOf(stats, ps, Len(ps)),
           ImageOf(scene_image, ps, Len(ps))
    PROVE  /\ stats.line_data = stats.scene_height * Len(stats.bands)
           /\ stats.current_line = stats.scene_height
           /\ scene_image.height = stats.scene_height
           /\ \A l \in 0 .. stats.scene_height - 1 : <<l, "blue">> \in scene_image.painted
<1> DEFINE h == ps[5].scene_height
           m == Len(ps)
<1>1. m \in Nat /\ m >= 5 /\ m >= 3 /\ h > 0 /\ UpTo(ps, m, h)
      /\ Cardinality(LinesIn(ps, m)) = h * Len(ps[3].wavelengths)
  BY DEF Finished
<1>2. /\ stats.bands = ps[3].wavelengths /\ stats.scene_height = h
      /\ stats.line_data = Cardinality(LinesIn(ps, m))
      /\ scene_image.height = h
      /\ \A k \in Blue(ps, m) : <<ps[k].line_number, "blue">> \in scene_image.painted
  BY <1>1 DEF CountsOf, ImageOf
<1>3. h \in Nat /\ stats.current_line \in Nat
  BY <1>2, Constants DEF StatsType
<1>4. stats.current_line = h
  <2>1. LastBlue(ps, m, h - 1)
    BY <1>1 DEF UpTo
  <2>2. Blue(ps, m) # {}
    BY <2>1 DEF LastBlue
  <2>3. LastBlue(ps, m, stats.current_line - 1)
    BY <2>2 DEF CountsOf
  <2>4. h - 1 = stats.current_line - 1
    BY <1>1, <2>1, <2>3, OneLastBlue
  <2> QED BY <1>3, <2>4
<1>5. \A l \in 0 .. h - 1 : <<l, "blue">> \in scene_image.painted
  <2> SUFFICES ASSUME NEW l \in 0 .. h - 1 PROVE <<l, "blue">> \in scene_image.painted
    OBVIOUS
  <2>1. PICK k \in Blue(ps, m) : ps[k].line_number = l
    BY <1>1 DEF UpTo
  <2> QED BY <1>2, <2>1
<1> HIDE DEF h, m
<1> QED BY <1>1, <1>2, <1>4, <1>5

(***************************************************************************)
(* The invariant of the composition: the client's connection carries packets    *)
(* of which it has taken a number in, and the rest of which is in its socket     *)
(* or not yet sent.                                                          *)
(***************************************************************************)
\* The last command was acknowledged, and no reconnection is pending.
Fresh == answer = "ok" /\ ~reconnect /\ upc \in {"sync", "key"}

Remaining(ps, n) ==
    /\ Len(ps) = n + Len(accum) + Len(inbox)
    /\ \A j \in 1 .. Len(accum) : accum[j] = ps[n + j]
    /\ \A j \in 1 .. Len(inbox) : inbox[j] = ps[n + Len(accum) + j]

Carried(ps) ==
    /\ InOrder(ps)
    /\ IF eof THEN Closed(ps) ELSE ps = wire
    /\ eof /\ Fresh => Current(ps)

Received(ps, n) ==
    /\ Carried(ps) /\ Remaining(ps, n)
    /\ CountsOf(stats, ps, IF rpc = "paint" THEN n + 1 ELSE n)
    /\ ImageOf(scene_image, ps, n)

SessionInv ==
    Live => \E ps \in Seq(Arrived) : \E n \in Nat : Received(ps, n)

\* Between two sessions the statistics count nothing.
RestInv ==
    rpc \in {"clear", "start", "dial"} =>
        /\ stats.bands = <<>> /\ stats.scene_height = 0
        /\ stats.line_data = 0 /\ stats.current_line = 0

\* After a session that came to its end they are those of the whole session, and if the
\* last command was acknowledged since, of the configuration in force.
DoneInv ==
    rpc = "poll" /\ stats.status = "Complete" =>
        /\ Streamable => /\ stats.line_data = stats.scene_height * Len(stats.bands)
                         /\ stats.current_line = stats.scene_height
                         /\ scene_image.height = stats.scene_height
                         /\ \A l \in 0 .. stats.scene_height - 1 :
                               <<l, "blue">> \in scene_image.painted
        /\ NoMemoryFault /\ Fresh => /\ stats.bands = Config
                                     /\ stats.scene_height = scene.n_lines % U24

ReceivedInv == SessionInv /\ RestInv /\ DoneInv

\* While an acknowledged command is the last, the configuration stays as it was, and only
\* the receiver's poll clears the flag.
LEMMA FreshKept ==
    ASSUME ConnInv, AnswerInv, [NextBoth]_allVars, Fresh', reconnect \in BOOLEAN
    PROVE  /\ rpc' # "reset" => Fresh
           /\ UNCHANGED <<scene, n_bands, band_wavelengths>>
<1>1. CASE ServerStep
  <2>1. UNCHANGED <<reconnect, upc>> /\ Server /\ Respond
    BY <1>1 DEF ServerStep, ui
  <2>2. answer = "ok" \/ answer = "waiting"
    BY <2>1 DEF Respond, Outcome, Fresh
  <2>3. answer = "ok"
    BY <2>1, <2>2 DEF AnswerInv, Fresh
  <2>4. pc \notin {"boot", "recv", "match"}
    BY <2>3 DEF AnswerInv
  <2> QED BY <2>1, <2>3, <2>4, CommandMoves DEF Fresh
<1>2. CASE ReceiverStep
  <2>1. UNCHANGED <<upc, answer, scene, n_bands, band_wavelengths>>
        /\ (UNCHANGED reconnect \/ rpc' = "reset")
    <3>1. CASE DialServer
      BY <3>1 DEF DialServer, Dial, ui, arguments
    <3>2. CASE DialNobody \/ ReadReset
      BY <3>2 DEF DialNobody, DialFails, ReadReset, ReadFails, ui, sockets, vars, arguments
    <3>3. CASE ReceiverAlone /\ UNCHANGED vars
      BY <3>3
      DEF ReceiverAlone, Starting, Dialled, Read, ReadEnds, ReadTimesOut, Process, Paint,
          Poll, Reset, Clear, ui, sockets, clientVars, vars, arguments
    <3> QED BY <1>2, <3>1, <3>2, <3>3 DEF ReceiverStep
  <2> QED BY <2>1 DEF Fresh
<1>3. CASE UiStep \/ UserStep
  <2>1. UNCHANGED arguments
    BY <1>3
    DEF UiStep, UserStep, SendToServer, Queued, SendToNobody, vars
  <2>2. Fresh
    BY <1>3
    DEF UiStep, UserStep, SendToServer, SendCommand, SendToNobody, ConnectFails, UiAlone,
        SyncBands, NoKey, AckEnds, AckTimesOut, AfterCommand, Signal, Keys, PressScene,
        PressBands, PressEsc, PressSpace, PressAll, PressEnter, AtKey, sockets, Fresh
  <2> QED BY <2>1, <2>2 DEF arguments
<1>4. CASE UNCHANGED allVars
  BY <1>4 DEF allVars, vars, clientVars, ui, sockets, arguments, Fresh
<1> QED BY <1>1, <1>2, <1>3, <1>4 DEF NextBoth

\* A closed connection stays one of the configuration in force as long as that matters.
LEMMA ClosedKept ==
    ASSUME ConnInv, AnswerInv, [NextBoth]_allVars, reconnect \in BOOLEAN, rpc' # "reset",
           NEW ps, Fresh => Current(ps), Fresh'
    PROVE  Current(ps)'
<1>1. Fresh /\ UNCHANGED <<scene, n_bands, band_wavelengths>>
  BY FreshKept
<1> QED BY <1>1 DEF Current, Config

(***************************************************************************)
(* The steps that are not the receiver's.                                     *)
(***************************************************************************)
\* A step that leaves the receiver alone and moves no packet.
LEMMA SessionFrame ==
    ASSUME ConnInv, AnswerInv, reconnect \in BOOLEAN, [NextBoth]_allVars, SessionInv,
           UNCHANGED <<receiver, inbox, eof, wire>>
    PROVE  SessionInv'
<1> SUFFICES ASSUME Live'
             PROVE  \E ps \in Seq(Arrived) : \E n \in Nat : Received(ps, n)'
  BY DEF SessionInv
<1>1. Live /\ rpc' # "reset" /\ UNCHANGED <<rpc, stats, scene_image, accum, inbox, eof, wire>>
  BY DEF Live, receiver
<1>2. PICK ps \in Seq(Arrived), n \in Nat : Received(ps, n)
  BY <1>1 DEF SessionInv
<1>3. Carried(ps)'
  <2>1. InOrder(ps)' /\ (IF eof THEN Closed(ps) ELSE ps = wire)'
    BY <1>1, <1>2 DEF Received, Carried
  <2>2. (eof /\ Fresh => Current(ps))'
    BY <1>1, <1>2, ClosedKept DEF Received, Carried
  <2> QED BY <2>1, <2>2 DEF Carried
<1>4. Received(ps, n)'
  BY <1>1, <1>2, <1>3 DEF Received, Remaining
<1> QED BY <1>4

\* The resting receiver, with the session it ended.
LEMMA RestFrame ==
    ASSUME ConnInv, AnswerInv, reconnect \in BOOLEAN, [NextBoth]_allVars, RestInv, DoneInv,
           UNCHANGED receiver
    PROVE  RestInv' /\ DoneInv'
<1>1. UNCHANGED <<rpc, stats, scene_image>>
  BY DEF receiver
<1>2. RestInv'
  BY <1>1 DEF RestInv
<1>3. rpc' = "poll" /\ Fresh' => Fresh /\ UNCHANGED <<scene, n_bands, band_wavelengths>>
  BY FreshKept
<1>4. DoneInv'
  BY <1>1, <1>3 DEF DoneInv, Config
<1> QED BY <1>2, <1>4

\* The server's steps: it sends a packet, which then waits in the socket, or closes the
\* connection.
LEMMA ServerReceived ==
    ASSUME ServerInv, ServerInv', SessionInv, ServerStep
    PROVE  SessionInv'
<1>0. /\ TypeInv /\ OrderInv /\ WireInv /\ ConnInv /\ AnswerInv /\ reconnect \in BOOLEAN
      /\ TypeInv' /\ SourceInv' /\ WireInv' /\ inbox \in Seq(Arrived) /\ eof \in BOOLEAN
      /\ accum \in Seq(Arrived) /\ wire \in Seq(PacketType) /\ wire' \in Seq(PacketType)
      /\ [NextBoth]_allVars
  BY DEF ServerInv, TypesInv, ClientInv, ReceiverOK, SocketsOK, TypeInv, StreamInv, StreamOK,
         NextBoth
<1>1. /\ UNCHANGED <<rpc, stats, scene_image, accum>> /\ UNCHANGED receiver
      /\ Server /\ Deliver /\ CloseData
  BY DEF ServerStep, receiver
<1>2. CASE Quiet \/ Accepts
  <2>1. UNCHANGED wire /\ UNCHANGED eof
    BY <1>0, <1>1, <1>2 DEF Quiet, Accepts, CloseData, locals
  <2>2. UNCHANGED inbox
    BY <1>0, <1>1, <2>1 DEF Deliver
  <2> QED BY <1>0, <1>1, <2>1, <2>2, SessionFrame
<1>3. CASE Streams /\ UNCHANGED wire
  <2>1. UNCHANGED eof /\ UNCHANGED inbox
    BY <1>0, <1>1, <1>3 DEF Streams, CloseData, Deliver
  <2> QED BY <1>0, <1>1, <1>3, <2>1, SessionFrame
<1>4. ASSUME Streams, NEW p \in PacketType, wire' = Append(wire, p)
      PROVE  SessionInv'
  <2> SUFFICES ASSUME Live'
               PROVE  \E qs \in Seq(Arrived) : \E n \in Nat : Received(qs, n)'
    BY DEF SessionInv
  <2>1. Live /\ ~eof /\ ~eof'
    BY <1>0, <1>1, <1>4 DEF Streams, ConnInv, CloseData, Live
  <2>2. PICK ps \in Seq(Arrived), n \in Nat : Received(ps, n)
    BY <2>1 DEF SessionInv
  <2>3. ps = wire /\ Remaining(ps, n)
    BY <2>1, <2>2 DEF Received, Carried
  <2> DEFINE qs == Append(ps, p)
  <2>4. /\ Len(ps) \in Nat /\ Len(qs) = Len(ps) + 1 /\ qs[Len(ps) + 1] = p
        /\ \A k \in 1 .. Len(ps) : qs[k] = ps[k]
        /\ qs = wire'
    BY <1>0, <1>4, <2>3, L!LongerBy
  <2> HIDE DEF qs
  <2>5. p \in Arrived
    <3>1. Len(ps) + 1 \in DOMAIN wire' /\ wire'[Len(ps) + 1] = p
      BY <1>0, <2>4
    <3> QED BY <1>0, <3>1 DEF SourceInv, Arrived
  <2>6. qs \in Seq(Arrived)
    BY <2>5 DEF qs
  <2>7. inbox' = Append(inbox, p)
    BY <1>1, <2>3, <2>4 DEF Deliver
  <2>8. Carried(qs)'
    BY <1>0, <2>1, <2>4 DEF Carried, WireInv
  <2>9. Remaining(qs, n)'
    <3>1. /\ Len(ps) = n + Len(accum) + Len(inbox) /\ Len(accum) \in Nat /\ Len(inbox) \in Nat
          /\ \A j \in 1 .. Len(accum) : accum[j] = ps[n + j]
          /\ \A j \in 1 .. Len(inbox) : inbox[j] = ps[n + Len(accum) + j]
      BY <1>0, <2>3 DEF Remaining
    <3>2. Len(inbox') = Len(inbox) + 1 /\ inbox'[Len(inbox) + 1] = p
          /\ \A j \in 1 .. Len(inbox) : inbox'[j] = inbox[j]
      BY <1>0, <2>5, <2>7
    <3>3. ASSUME NEW j \in 1 .. Len(accum) PROVE accum'[j] = qs[n + j]
      <4>1. n + j \in 1 .. Len(ps)
        BY <3>1
      <4> QED BY <1>1, <2>4, <3>1, <4>1
    <3>4. ASSUME NEW j \in 1 .. Len(inbox') PROVE inbox'[j] = qs[n + Len(accum) + j]
      <4>1. CASE j = Len(inbox) + 1
        <5>1. n + Len(accum) + j = Len(ps) + 1
          BY <3>1, <4>1
        <5> QED BY <2>4, <3>2, <4>1, <5>1
      <4>2. CASE j # Len(inbox) + 1
        <5>1. j \in 1 .. Len(inbox) /\ n + Len(accum) + j \in 1 .. Len(ps)
          BY <3>1, <3>2, <4>2
        <5> QED BY <2>4, <3>1, <3>2, <5>1
      <4> QED BY <4>1, <4>2
    <3>5. Len(qs) = n + Len(accum) + Len(inbox')
      BY <2>4, <3>1, <3>2
    <3> QED BY <1>1, <3>3, <3>4, <3>5 DEF Remaining
  <2>10. CountsOf(stats, qs, IF rpc = "paint" THEN n + 1 ELSE n)'
         /\ ImageOf(scene_image, qs, n)'
    <3>1. n \in Nat /\ n + 1 \in Nat /\ n <= Len(ps) /\ (rpc = "paint" => n + 1 <= Len(ps))
      <4>1. rpc = "paint" => accum # <<>>
        BY DEF ServerInv, TypesInv, ClientInv, ReceiverOK
      <4>2. rpc = "paint" => Len(accum) >= 1
        BY <1>0, <4>1
      <4> QED BY <1>0, <2>3, <4>2 DEF Remaining
    <3>2. ASSUME NEW m \in Nat, m <= Len(ps) PROVE \A k \in 1 .. m : qs[k] = ps[k]
      <4>1. \A k \in 1 .. m : k \in 1 .. Len(ps)
        BY <2>4, <3>2
      <4> QED BY <2>4, <4>1
    <3>3. ImageOf(scene_image, qs, n)
      BY <2>2, <3>1, <3>2, CountsSame DEF Received
    <3>4. CountsOf(stats, qs, IF rpc = "paint" THEN n + 1 ELSE n)
      <4>1. CASE rpc = "paint"
        BY <2>2, <3>1, <3>2, <4>1, CountsSame DEF Received
      <4>2. CASE rpc # "paint"
        BY <2>2, <3>1, <3>2, <4>2, CountsSame DEF Received
      <4> QED BY <4>1, <4>2
    <3> QED BY <1>1, <3>3, <3>4
  <2>11. Received(qs, n)'
    BY <2>8, <2>9, <2>10 DEF Received
  <2> QED BY <2>6, <2>11
<1>5. CASE Closes
  <2> SUFFICES ASSUME Live'
               PROVE  \E ps \in Seq(Arrived) : \E n \in Nat : Received(ps, n)'
    BY DEF SessionInv
  <2>1. /\ Live /\ ~eof /\ eof' /\ pc = "stream" /\ stage \in {"done", "failed"}
        /\ UNCHANGED inbox
    <3>1. pc = "stream" /\ stage \in {"done", "failed"} /\ conn' = "none" /\ wire' = <<>>
      BY <1>5 DEF Closes, CloseSession
    <3>2. conn = "open" /\ Live /\ ~eof
      BY <1>0, <3>1 DEF ConnInv, Live
    <3>3. ~(Len(wire') > Len(wire))
      BY <1>0, <3>1
    <3> QED BY <1>1, <3>1, <3>2, <3>3 DEF CloseData, Deliver
  <2>2. PICK ps \in Seq(Arrived), n \in Nat : Received(ps, n)
    BY <2>1 DEF SessionInv
  <2>3. ps = wire /\ Remaining(ps, n) /\ InOrder(ps)
    BY <2>1, <2>2 DEF Received, Carried
  <2>4. Closed(ps)
    BY <2>1, <2>3, ClosedWire
  <2>5. Current(ps)'
    <3>1. UNCHANGED <<scene, n_bands, band_wavelengths>>
      BY <1>1, <2>1, CommandMoves
    <3> QED BY <1>0, <2>3, <3>1 DEF WireInv, Current, Config
  <2>6. Carried(ps)'
    BY <2>1, <2>3, <2>4, <2>5 DEF Carried
  <2>7. Received(ps, n)'
    BY <1>1, <2>1, <2>2, <2>6 DEF Received, Remaining
  <2> QED BY <2>7
<1>6. CASE Streams
  <2>1. UNCHANGED wire \/ \E p \in PacketType : wire' = Append(wire, p)
    BY <1>0, <1>6, Sends DEF Streams
  <2> QED BY <1>3, <1>4, <1>6, <2>1
<1>7. conn # "gone"
  BY <1>0 DEF ConnInv
<1> QED BY <1>1, <1>2, <1>5, <1>6, <1>7, ServerMoves

(***************************************************************************)
(* The receiver's steps.                                                     *)
(***************************************************************************)
\* A new connection carries nothing yet.
LEMMA DialReceived ==
    ASSUME ServerInv, RestInv, [NextBoth]_allVars, DialServer, SessionInv
    PROVE  ReceivedInv'
<1>1. /\ rpc = "dial" /\ rpc' = "dialled" /\ inbox' = <<>> /\ eof' = FALSE
      /\ UNCHANGED <<stats, scene_image, accum, wire>>
  BY DEF DialServer, Dial, locals
<1>2. wire = <<>>
  <2>1. conn = "none" /\ pc # "killed"
    BY <1>1 DEF ServerInv, ConnInv, Live
  <2>2. pc # "stream"
    BY <2>1 DEF ServerInv, ConnInv
  <2> QED BY <2>1, <2>2, NothingOnWire DEF ServerInv, TypesInv
<1>3. accum = <<>>
  BY <1>1 DEF ServerInv, TypesInv, ClientInv, ReceiverOK
<1>4. Carried(<<>>)'
  BY <1>1, <1>2 DEF Carried, InOrder, L!Opened
<1>5. Remaining(<<>>, 0)'
  BY <1>1, <1>3 DEF Remaining
<1>6. CountsOf(stats, <<>>, 0) /\ ImageOf(scene_image, <<>>, 0)
  <2>1. LinesIn(<<>>, 0) = {} /\ Blue(<<>>, 0) = {}
    BY DEF LinesIn, Blue
  <2>2. Cardinality(LinesIn(<<>>, 0)) = 0
    BY <2>1, FS_EmptySet
  <2> QED BY <1>1, <2>1, <2>2 DEF RestInv, CountsOf, ImageOf
<1>7. Received(<<>>, 0)'
  BY <1>1, <1>4, <1>5, <1>6 DEF Received
<1>8. <<>> \in Seq(Arrived) /\ 0 \in Nat
  OBVIOUS
<1>9. SessionInv'
  BY <1>7, <1>8 DEF SessionInv
<1> QED BY <1>1, <1>9 DEF ReceivedInv, RestInv, DoneInv

\* A step inside the connection, which takes packets in or nothing: what is carried stays.
LEMMA CarriedKept ==
    ASSUME ConnInv, AnswerInv, reconnect \in BOOLEAN, [NextBoth]_allVars, rpc' # "reset",
           UNCHANGED <<eof, wire>>, NEW ps, Carried(ps)
    PROVE  Carried(ps)'
<1>1. InOrder(ps)' /\ (IF eof THEN Closed(ps) ELSE ps = wire)'
  BY DEF Carried
<1>2. (eof /\ Fresh => Current(ps))'
  BY ClosedKept DEF Carried
<1> QED BY <1>1, <1>2 DEF Carried

\* A read moves packets from the socket to the buffer.
LEMMA ReadReceived ==
    ASSUME ServerInv, SessionInv, [NextBoth]_allVars, NEW k \in 1 .. MaxRead, Read(k),
           UNCHANGED wire
    PROVE  SessionInv'
<1>0. /\ inbox \in Seq(Arrived) /\ k \in Nat /\ k <= Len(inbox) /\ Len(inbox) \in Nat
      /\ accum' = SubSeq(inbox, 1, k) /\ inbox' = SubSeq(inbox, k + 1, Len(inbox))
      /\ rpc = "read" /\ rpc' = "process" /\ UNCHANGED <<scene_image, eof>>
      /\ stats' = [stats EXCEPT !.status = "Streaming"]
      /\ ConnInv /\ AnswerInv /\ reconnect \in BOOLEAN /\ stats \in StatsType
  BY ClientAssumption
  DEF Read, Status, ServerInv, TypesInv, ClientInv, ReceiverOK, SocketsOK
<1>1. accum = <<>>
  BY <1>0 DEF ServerInv, TypesInv, ClientInv, ReceiverOK
<1>2. PICK ps \in Seq(Arrived), n \in Nat : Received(ps, n)
  BY <1>0 DEF SessionInv, Live
<1>3. Carried(ps)'
  BY <1>0, <1>2, CarriedKept DEF Received
<1>4. Remaining(ps, n)'
  <2>1. Len(ps) = n + Len(inbox) /\ \A j \in 1 .. Len(inbox) : inbox[j] = ps[n + j]
    BY <1>0, <1>1, <1>2 DEF Received, Remaining
  <2>2. /\ Len(accum') = k /\ Len(inbox') = Len(inbox) - k
        /\ \A j \in 1 .. k : accum'[j] = inbox[j]
        /\ \A j \in 1 .. Len(inbox) - k : inbox'[j] = inbox[k + j]
    BY <1>0, Taken
  <2>3. ASSUME NEW j \in 1 .. Len(inbox) - k PROVE inbox'[j] = ps[n + k + j]
    <3>1. k + j \in 1 .. Len(inbox) /\ n + (k + j) = n + k + j
      BY <1>0
    <3> QED BY <2>1, <2>2, <3>1
  <2>4. ASSUME NEW j \in 1 .. k PROVE accum'[j] = ps[n + j]
    <3>1. j \in 1 .. Len(inbox)
      BY <1>0
    <3> QED BY <2>1, <2>2, <3>1
  <2>5. Len(ps) = n + k + (Len(inbox) - k)
    BY <1>0, <2>1
  <2> QED BY <2>2, <2>3, <2>4, <2>5 DEF Remaining
<1>5. CountsOf(stats', ps, n) /\ ImageOf(scene_image', ps, n)
  BY <1>0, <1>2, CountsAnyStatus DEF Received
<1>6. Received(ps, n)'
  BY <1>0, <1>3, <1>4, <1>5 DEF Received
<1> QED BY <1>6 DEF SessionInv

\* The first packet of the buffer is the next of the connection.
LEMMA NextInBuffer ==
    ASSUME ServerInv, accum # <<>>, NEW ps \in Seq(Arrived), NEW n \in Nat, Remaining(ps, n)
    PROVE  /\ Head(accum) = ps[n + 1] /\ n + 1 <= Len(ps) /\ Len(ps) \in Nat
           /\ accum' = Tail(accum) /\ UNCHANGED inbox => Remaining(ps, n + 1)'
<1>1. /\ accum \in Seq(Arrived) /\ inbox \in Seq(Arrived)
      /\ Len(accum) \in Nat /\ Len(inbox) \in Nat /\ Len(ps) \in Nat
  BY DEF ServerInv, TypesInv, ClientInv, ReceiverOK, SocketsOK
<1>2. /\ Head(accum) = accum[1] /\ Len(accum) >= 1 /\ Len(Tail(accum)) = Len(accum) - 1
      /\ \A j \in 1 .. Len(accum) - 1 : Tail(accum)[j] = accum[j + 1]
  BY <1>1, Taken
<1>3. /\ Len(ps) = n + Len(accum) + Len(inbox)
      /\ \A j \in 1 .. Len(accum) : accum[j] = ps[n + j]
      /\ \A j \in 1 .. Len(inbox) : inbox[j] = ps[n + Len(accum) + j]
  BY DEF Remaining
<1>4. 1 \in 1 .. Len(accum) /\ n + 1 <= Len(ps)
  BY <1>1, <1>2, <1>3
<1>5. ASSUME accum' = Tail(accum), UNCHANGED inbox
      PROVE  Remaining(ps, n + 1)'
  <2>1. Len(accum') = Len(accum) - 1 /\ Len(ps) = n + 1 + Len(accum') + Len(inbox')
    BY <1>1, <1>2, <1>3, <1>5
  <2>2. ASSUME NEW j \in 1 .. Len(accum') PROVE accum'[j] = ps[n + 1 + j]
    <3>1. j \in 1 .. Len(accum) - 1 /\ j + 1 \in 1 .. Len(accum) /\ n + (j + 1) = n + 1 + j
      BY <1>1, <2>1
    <3> QED BY <1>2, <1>3, <1>5, <3>1
  <2>3. ASSUME NEW j \in 1 .. Len(inbox') PROVE inbox'[j] = ps[n + 1 + Len(accum') + j]
    <3>1. n + 1 + Len(accum') + j = n + Len(accum) + j
      BY <1>1, <2>1
    <3> QED BY <1>3, <1>5, <3>1
  <2> QED BY <2>1, <2>2, <2>3 DEF Remaining
<1> QED BY <1>2, <1>3, <1>4, <1>5

\* process_packets: a packet is counted, then painted if it is one to paint.
LEMMA ProcessReceived ==
    ASSUME ServerInv, SessionInv, [NextBoth]_allVars, Process \/ Paint, UNCHANGED wire
    PROVE  SessionInv'
<1>0. /\ rpc \in {"process", "paint"} /\ accum # <<>> /\ UNCHANGED <<inbox, eof>>
      /\ ConnInv /\ AnswerInv /\ reconnect \in BOOLEAN /\ stats \in StatsType
      /\ scene_image \in ImageType /\ rpc' # "reset"
  BY DEF Process, Paint, NextPacket, RestOrRead, sockets, ServerInv, TypesInv, ClientInv,
         ReceiverOK
<1>1. PICK ps \in Seq(Arrived), n \in Nat : Received(ps, n)
  BY <1>0 DEF SessionInv, Live
<1>2. /\ Carried(ps)' /\ InOrder(ps) /\ Remaining(ps, n)
      /\ CountsOf(stats, ps, IF rpc = "paint" THEN n + 1 ELSE n)
      /\ ImageOf(scene_image, ps, n)
  BY <1>0, <1>1, CarriedKept DEF Received, Carried
<1>3. /\ Head(accum) = ps[n + 1] /\ n + 1 <= Len(ps)
      /\ accum' = Tail(accum) => Remaining(ps, n + 1)'
  BY <1>0, <1>2, NextInBuffer
<1>4. CASE Process
  <2>1. /\ rpc = "process" /\ stats' = StatsAfter(ps[n + 1]) /\ UNCHANGED scene_image
    BY <1>3, <1>4 DEF Process
  <2>2. CountsOf(stats', ps, n + 1)
    BY <1>0, <1>2, <1>3, <2>1, CountsNext
  <2>3. CASE Painted(Head(accum).id)
    <3>1. rpc' = "paint" /\ UNCHANGED accum
      BY <1>4, <2>3 DEF Process
    <3>2. Received(ps, n)'
      BY <1>0, <1>2, <2>1, <2>2, <3>1 DEF Received, Remaining
    <3> QED BY <3>2 DEF SessionInv
  <2>4. CASE ~Painted(Head(accum).id)
    <3>1. rpc' # "paint" /\ accum' = Tail(accum)
      BY <1>4, <2>4 DEF Process, NextPacket, RestOrRead
    <3>2. ImageOf(scene_image, ps, n + 1)
      BY <1>0, <1>2, <1>3, <2>4, ImageNext
    <3>3. Received(ps, n + 1)'
      BY <1>2, <1>3, <2>1, <2>2, <3>1, <3>2 DEF Received
    <3> QED BY <3>3 DEF SessionInv
  <2> QED BY <2>3, <2>4
<1>5. CASE Paint
  <2>1. /\ rpc = "paint" /\ scene_image' = ImageAfter(ps[n + 1]) /\ UNCHANGED stats
        /\ rpc' # "paint" /\ accum' = Tail(accum)
    BY <1>3, <1>5 DEF Paint, NextPacket, RestOrRead
  <2>2. Painted(ps[n + 1].id)
    BY <1>3, <2>1 DEF ServerInv, TypesInv, ClientInv, ReceiverOK
  <2>3. CountsOf(stats, ps, n + 1)
    BY <1>2, <2>1
  <2>4. ImageOf(scene_image', ps, n + 1)
    BY <1>0, <1>2, <1>3, <2>1, <2>2, <2>3, ImageNext
  <2>5. Received(ps, n + 1)'
    BY <1>2, <1>3, <2>1, <2>3, <2>4 DEF Received
  <2> QED BY <2>5 DEF SessionInv
<1> QED BY <1>4, <1>5

\* The end of the stream: all that the connection carried has been counted and painted.
LEMMA EndReceived ==
    ASSUME ServerInv, SessionInv, [NextBoth]_allVars, ReadEnds, UNCHANGED vars
    PROVE  ReceivedInv'
<1>0. /\ rpc = "read" /\ rpc' = "poll" /\ inbox = <<>> /\ eof /\ accum = <<>>
      /\ UNCHANGED scene_image /\ stats' = [stats EXCEPT !.status = "Complete"]
      /\ stats \in StatsType /\ ConnInv /\ AnswerInv /\ reconnect \in BOOLEAN
      /\ UNCHANGED <<scene, n_bands, band_wavelengths>>
  BY DEF ReadEnds, Status, ServerInv, TypesInv, ClientInv, ReceiverOK, vars, arguments
<1>1. PICK ps \in Seq(Arrived), n \in Nat : Received(ps, n)
  BY <1>0 DEF SessionInv, Live
<1>2. /\ InOrder(ps) /\ Closed(ps) /\ (Fresh => Current(ps)) /\ n = Len(ps)
      /\ CountsOf(stats, ps, Len(ps)) /\ ImageOf(scene_image, ps, Len(ps))
  BY <1>0, <1>1 DEF Received, Carried, Remaining
<1>3. /\ stats'.bands = stats.bands /\ stats'.scene_height = stats.scene_height
      /\ stats'.line_data = stats.line_data /\ stats'.current_line = stats.current_line
  BY <1>0 DEF StatsType
<1>4. ASSUME Streamable
      PROVE  /\ stats'.line_data = stats'.scene_height * Len(stats'.bands)
             /\ stats'.current_line = stats'.scene_height
             /\ scene_image'.height = stats'.scene_height
             /\ \A l \in 0 .. stats'.scene_height - 1 :
                   <<l, "blue">> \in scene_image'.painted
  <2>1. Finished(ps)
    BY <1>2, <1>4 DEF Closed
  <2> QED BY <1>0, <1>2, <1>3, <2>1, WholeAtEnd
<1>5. ASSUME NoMemoryFault, Fresh'
      PROVE  stats'.bands = Config' /\ stats'.scene_height = (scene.n_lines % U24)'
  <2>1. Fresh
    BY <1>0, <1>5, FreshKept
  <2>2. Current(ps) /\ Len(ps) >= 5 /\ Len(ps) >= 3
    BY <1>2, <1>5, <2>1 DEF Closed
  <2>3. stats.bands = Config /\ stats.scene_height = scene.n_lines % U24
    BY <1>2, <2>2 DEF CountsOf, Current
  <2>4. Config' = Config
    BY <1>0 DEF Config
  <2> QED BY <1>0, <1>3, <2>3, <2>4
<1>6. DoneInv'
  BY <1>4, <1>5 DEF DoneInv
<1> QED BY <1>0, <1>6 DEF ReceivedInv, SessionInv, Live, RestInv

\* Connected: nothing has been read.
LEMMA DialledReceived ==
    ASSUME ServerInv, SessionInv, [NextBoth]_allVars, Dialled, UNCHANGED vars
    PROVE  SessionInv'
<1>0. /\ rpc = "dialled" /\ rpc' = "read" /\ UNCHANGED <<scene_image, accum, inbox, eof, wire>>
      /\ stats' = [stats EXCEPT !.status = "Connected"]
      /\ stats \in StatsType /\ ConnInv /\ AnswerInv /\ reconnect \in BOOLEAN
  BY DEF Dialled, Status, ServerInv, TypesInv, ClientInv, ReceiverOK, vars, locals, sockets
<1>1. PICK ps \in Seq(Arrived), n \in Nat : Received(ps, n)
  BY <1>0 DEF SessionInv, Live
<1>2. Carried(ps)'
  BY <1>0, <1>1, CarriedKept DEF Received
<1>3. CountsOf(stats', ps, n)
  BY <1>0, <1>1, CountsAnyStatus DEF Received
<1>4. Received(ps, n)'
  BY <1>0, <1>1, <1>2, <1>3 DEF Received, Remaining
<1> QED BY <1>4 DEF SessionInv

\* Every step keeps what the client has made of its connection.
LEMMA ReceivedStep ==
    ASSUME ServerInv, ServerInv', ReceivedInv, [NextBoth]_allVars
    PROVE  ReceivedInv'
<1>0. /\ SessionInv /\ RestInv /\ DoneInv /\ ConnInv /\ AnswerInv /\ reconnect \in BOOLEAN
      /\ stats \in StatsType
  BY DEF ReceivedInv, ServerInv, TypesInv, ClientInv, ReceiverOK
<1>1. CASE ServerStep
  <2>1. UNCHANGED receiver
    BY <1>1 DEF ServerStep
  <2> QED BY <1>0, <1>1, <2>1, ServerReceived, RestFrame DEF ReceivedInv
<1>2. ASSUME UNCHANGED <<receiver, inbox, eof, wire>>
      PROVE  ReceivedInv'
  BY <1>0, <1>2, SessionFrame, RestFrame DEF ReceivedInv
<1>3. CASE UiStep \/ UserStep
  BY <1>2, <1>3, UiMoves DEF locals
<1>4. CASE UNCHANGED allVars
  BY <1>2, <1>4 DEF allVars, vars, locals, clientVars, sockets
<1>5. ASSUME ~Live', rpc' \notin {"clear", "start", "dial"},
             rpc' # "poll" \/ stats'.status # "Complete"
      PROVE  ReceivedInv'
  BY <1>5 DEF ReceivedInv, SessionInv, RestInv, DoneInv
<1>6. ASSUME ~Live', rpc' # "poll", RestInv'
      PROVE  ReceivedInv'
  BY <1>6 DEF ReceivedInv, SessionInv, DoneInv
<1>7. ASSUME SessionInv', rpc' \in {"read", "process", "paint"}
      PROVE  ReceivedInv'
  BY <1>7 DEF ReceivedInv, RestInv, DoneInv
<1>8. CASE ReceiverStep
  <2>1. CASE DialServer
    BY <1>0, <2>1, DialReceived
  <2>2. CASE DialNobody \/ ReadReset
    BY <1>0, <1>5, <2>2
    DEF DialNobody, DialFails, ReadReset, ReadFails, Status, StatsType, Live
  <2>3. CASE ReceiverAlone /\ UNCHANGED vars
    <3>0. UNCHANGED vars /\ UNCHANGED wire
      BY <2>3 DEF vars, locals
    <3>1. CASE Starting
      <4>1. /\ rpc = "start" /\ rpc' = "dial"
            /\ stats' = [stats EXCEPT !.status = "Connecting"]
        BY <3>1 DEF Starting, Status
      <4>2. RestInv'
        BY <1>0, <4>1 DEF RestInv, StatsType
      <4> QED BY <1>6, <4>1, <4>2 DEF Live
    <3>2. CASE Dialled
      BY <1>0, <1>7, <3>0, <3>2, DialledReceived DEF Dialled
    <3>3. CASE \E k \in 1 .. MaxRead : Read(k)
      BY <1>0, <1>7, <3>0, <3>3, ReadReceived DEF Read
    <3>4. CASE ReadEnds
      BY <1>0, <3>0, <3>4, EndReceived
    <3>5. CASE ReadTimesOut
      BY <1>2, <3>0, <3>5 DEF ReadTimesOut, clientVars, sockets
    <3>6. CASE Process \/ Paint
      <4>1. rpc' \in {"read", "process", "paint"}
        BY <3>6 DEF Process, Paint, NextPacket, RestOrRead
      <4> QED BY <1>0, <1>7, <3>0, <3>6, <4>1, ProcessReceived
    <3>7. CASE Poll
      BY <1>5, <3>7 DEF Poll, Live
    <3>8. CASE Reset
      BY <1>6, <3>8 DEF Reset, StatsAtReset, NoStats, RestInv, Live
    <3>9. CASE Clear
      <4>1. rpc = "clear" /\ rpc' = "start" /\ UNCHANGED stats
        BY <3>9 DEF Clear
      <4> QED BY <1>0, <1>6, <4>1 DEF RestInv, Live
    <3> QED
      BY <2>3, <3>1, <3>2, <3>3, <3>4, <3>5, <3>6, <3>7, <3>8, <3>9 DEF ReceiverAlone
  <2> QED BY <1>8, <2>1, <2>2, <2>3 DEF ReceiverStep
<1> QED BY <1>1, <1>3, <1>4, <1>8 DEF NextBoth

\* It holds at the start.
LEMMA ReceivedInit == InitBoth => ReceivedInv
<1> SUFFICES ASSUME InitBoth PROVE ReceivedInv
  OBVIOUS
<1>1. rpc = "start" /\ stats = NoStats
  BY DEF InitBoth, ClientInit
<1>2. ~Live /\ rpc # "poll"
  BY <1>1 DEF Live
<1>3. RestInv
  BY <1>1 DEF RestInv, NoStats
<1> QED BY <1>2, <1>3 DEF ReceivedInv, SessionInv, DoneInv

(***************************************************************************)
(* The theorems about the composition.                                        *)
(***************************************************************************)
\* The inductive invariant holds throughout, for any scenes and faults.
LEMMA AlwaysReceived == SpecBoth => [](ServerInv /\ ReceivedInv)
<1>1. InitBoth => ServerInv /\ ReceivedInv
  BY ServerInvInit, ReceivedInit
<1>2. ServerInv /\ ReceivedInv /\ [NextBoth]_allVars => (ServerInv /\ ReceivedInv)'
  BY ServerInvStep, ReceivedStep
<1> QED BY <1>1, <1>2, PTL DEF SpecBoth

\* However commands, the two seconds of waiting for their acknowledgement, the reconnect
\* flag and sessions under way interleave, a client at rest after an acknowledged command
\* shows the bands and the height of the configuration the server holds (main.rs:546, 701,
\* 791): for scenes the 24-bit fields can number, when no allocation fails.
THEOREM RestingClientIsCurrent ==
    ASSUME NoMemoryFault, ShortScenes
    PROVE  SpecBoth => []ShownIsCurrent
<1>1. ServerInv /\ ReceivedInv => ShownIsCurrent
  <2> SUFFICES ASSUME ServerInv, ReceivedInv, Settled PROVE
                      /\ stats.bands = [k \in 1 .. n_bands |-> band_wavelengths[k - 1]]
                      /\ stats.scene_height = scene.n_lines
    BY DEF ShownIsCurrent
  <2>1. stats.bands = Config /\ stats.scene_height = scene.n_lines % U24
    BY DEF ReceivedInv, DoneInv, Settled, Fresh
  <2>2. scene.n_lines \in Nat /\ Short
    BY StreamFacts DEF ServerInv, TypesInv
  <2>3. scene.n_lines % U24 = scene.n_lines
    BY <2>2 DEF Short, U24
  <2> QED BY <2>1, <2>3 DEF Config
<1> QED BY <1>1, AlwaysReceived, PTL

\* "Streaming complete" (main.rs:108) is shown for a session of which every line of every
\* band was counted since the last reset, and painted, whatever a read returned and
\* however full the sockets were: where every scene can be streamed to its end.
THEOREM CompleteSessionsWereWhole ==
    ASSUME Streamable
    PROVE  SpecBoth => []CompleteIsWhole
<1>1. ReceivedInv => CompleteIsWhole
  BY DEF ReceivedInv, DoneInv, CompleteIsWhole
<1> QED BY <1>1, AlwaysReceived, PTL
=============================================================================
