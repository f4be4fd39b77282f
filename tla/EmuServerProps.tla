--------------------------- MODULE EmuServerProps ---------------------------
(***************************************************************************)
(* What the emulator server promises.  Each property says which environment   *)
(* it needs; the configurations of MCEmuServer choose the environments.       *)
(***************************************************************************)
EXTENDS EmuServer, FiniteSets

PacketType ==
    [id : {"SESSION_START", "SESSION_END"}, session_id : Nat]
    \cup [id : {"IMAGER_INFO", "TIME_SYNC"}]
    \cup [id : {"IMAGER_CONFIG"}, spectral_bands : Byte, wavelengths : Seq(Word)]
    \cup [id : {"SCENE_START"}, scene_height : 0 .. U24 - 1, scene_width : Word]
    \cup [id : {"IMAGER_TELEMETRY", "EXPOSURE_START"}, imager_time : Nat]
    \cup [id : {"LINE_DATA"}, spectral_band : BandSlots, line_number : 0 .. U24 - 1,
          pixels : [stride : Byte, from : BandSlots]]

\* What a session is streamed from: the band count is never 0 and never more than
\* the arrays hold, and every array entry is a value of its C type.
ConfigOK ==
    /\ current \in 0 .. Len(Scenes) - 1
    /\ scene \in SceneType /\ scene.n_bands <= MaxBands
    /\ n_bands \in 1 .. MaxBands /\ source_n_bands \in 0 .. MaxBands
    /\ band_indices \in [BandSlots -> BandSlots]
    /\ band_wavelengths \in [BandSlots -> Word]
    /\ session_id \in 0 .. SessionIds - 1

StreamOK ==
    /\ stage \in Stages /\ line \in Nat /\ band \in BandSlots
    /\ timestamp \in Nat /\ last_telemetry \in Nat
    /\ conn \in {"none", "open", "gone"}
    /\ wire \in Seq(PacketType)

ServerOK ==
    /\ pc \in PCs /\ rc \in {0, -1} /\ sessions_sent \in Nat
    /\ dataQ \in 0 .. Backlog
    /\ ctrlQ \in Seq(Commands) /\ Len(ctrlQ) <= Backlog
    /\ CommandOK(cmd) /\ cmd.direction >= -Len(Scenes)
    /\ i \in Nat /\ matched \in 0 .. MaxBands
    /\ reply \in {<<>>, <<AckOk>>, <<AckFailed>>}
    /\ promised \in Seq(Nat)

\* Of the control connections the server knows of, some are older than the timeout.
Known == Len(ctrlQ) + (IF pc \in {"recv", "match"} THEN 1 ELSE 0)
TimeoutsOK == accept_timeout \in BOOLEAN /\ untimed \in 0 .. Known

\* The types of the code's variables, together.
TypeOK == ConfigOK /\ StreamOK /\ ServerOK /\ TimeoutsOK

Sent(id) == {k \in DOMAIN wire : wire[k].id = id}

(***************************************************************************)
(* The stream (stream_session).                                              *)
(***************************************************************************)
Icd == INSTANCE IcdSession WITH packets <- wire, Interval <- TelemetryInterval

\* Whatever the scene directories hold, whatever commands come and wherever a
\* connection breaks, each connection carries a prefix of a well-formed session.
StreamFollowsIcd == Icd!Spec

\* README.md: telemetry "every 500ms" of imager time, neither late nor early.
TelemetryCadence == Icd!OnCadence(wire)

\* A reader that knows the number of lines and bands from the opening packets
\* gets every one of them before SESSION_END: no session ends short unannounced.
EndedSessionsAreWhole ==
    Sent("SESSION_END") # {} =>
        Cardinality(Sent("LINE_DATA")) = wire[5].scene_height * wire[3].spectral_bands

\* Every pixel is read from its own pixel's samples: the interleaving is that of
\* the loaded scene and the band is one the scene has.  Needs scenes that load
\* and requests of no more bands than the smallest scene has.
ReadsInsideThePixel ==
    stage = "LINE_DATA" =>
        SrcBands = scene.n_bands /\ SourceBand(band) < scene.n_bands

\* The wavelength IMAGER_CONFIG announces for a band is that of the source band
\* whose pixels the session then sends under it.
AnnouncedMatchesSent ==
    pc = "stream" => \A k \in Sent("LINE_DATA") :
        LET p == wire[k] IN
        wire[3].wavelengths[p.spectral_band + 1] = scene.wavelengths[p.pixels.from]

\* SCENE_START describes the scene its lines come from: server and directory
\* agree on which scene is current whenever a line goes out.
StreamedSceneIsCurrent ==
    pc = "stream" /\ Sent("LINE_DATA") # {} => scene = LoadedScene(SceneDir)

\* A session never reuses the identifier of the one before it.
FreshSessionId ==
    [][wire # <<>> /\ wire' = <<>> => session_id' # wire[1].session_id]_vars

(***************************************************************************)
(* Commands and sessions together.                                           *)
(***************************************************************************)
\* A session sends exactly what the last command answered "ok" asked for (or,
\* before any command, what the scene holds): as many bands, and for each the
\* scene's band nearest to the requested wavelength, whatever timeouts, broken
\* sessions, rejected or unanswered commands came in between.
StreamHonoursAcks ==
    pc = "stream" =>
        /\ \A k \in Sent("IMAGER_CONFIG") : wire[k].spectral_bands = Len(promised)
        /\ \A k \in Sent("LINE_DATA") :
              /\ wire[k].spectral_band < Len(promised)
              /\ wire[k].pixels.from
                    \in Nearest(scene, promised[wire[k].spectral_band + 1])

\* The wavelengths among the first n of a request that some band of the scene is near
\* to, and the slot one of them gets: it counts those before it.
Selectable(s, wavelengths, n) == {j \in 1 .. n : Nearest(s, wavelengths[j]) # {}}
Slot(s, wavelengths, j) == Cardinality(Selectable(s, wavelengths, j - 1))

\* Whatever a client asks for, in whatever order, however often, a session has a band
\* for every wavelength the scene could serve and for no other, in the order they were
\* asked for: it announces the band's own wavelength, and, while the selection is
\* smaller than the scene, sends that band's pixels.  A request that nothing matched
\* promises nothing.  Needs scenes that load.
StreamsWhatMatched ==
    pc = "stream" =>
        LET asked == Selectable(scene, promised, Len(promised)) IN
        \A j \in asked :
            LET b       == Slot(scene, promised, j)
                nearest == Nearest(scene, promised[j])
            IN  /\ \A k \in Sent("IMAGER_CONFIG") :
                      /\ wire[k].spectral_bands = Cardinality(asked)
                      /\ wire[k].wavelengths[b + 1] \in {scene.wavelengths[m] : m \in nearest}
                /\ Cardinality(asked) < scene.n_bands =>
                      \A k \in Sent("LINE_DATA") :
                          wire[k].spectral_band = b => wire[k].pixels.from \in nearest

(***************************************************************************)
(* The server's life.                                                        *)
(***************************************************************************)
\* emu_server.h: xs_emu_run "blocks until max_sessions reached or error".  While
\* accept does not fail, it returns 0 after exactly that many sessions, whole or
\* broken.
BlocksUntilMaxSessions ==
    pc = "exited" /\ rc = 0 =>
        MaxSessions > 0 /\ sessions_sent = MaxSessions

\* A client that hangs up costs the server its session, not its life.
SurvivesHangup == pc # "killed"

\* The one place where a client can hold the only thread: it connected to the control
\* port before the first session was over, so that its socket has no receive timeout,
\* and neither writes nor closes.
Stopped == pc \in {"exited", "killed"}
Held == pc = "recv" /\ cmd.len = 0 /\ untimed > 0

\* Whatever control clients do short of that, no data connection waits for ever: unless
\* none is waiting again and again, one is accepted again and again, in their order.
DataClientServed ==
    \/ []<>(dataQ = 0 \/ Stopped)
    \/ []<><<AcceptData>>_vars
    \/ <>[]Held

\* The same of the control port: a command is not overtaken for ever by the data
\* clients that keep coming, nor kept from its turn by silent connections before it,
\* those too early for a timeout aside.
CommandTaken ==
    \/ []<>(ctrlQ = <<>> \/ Stopped)
    \/ []<><<AcceptControl>>_vars
    \/ <>[]Held

\* Under a limit, the server stops, or is held.
Stops == <>Stopped \/ <>[]Held
=============================================================================
