-------------------------- MODULE StreamOrderProofs --------------------------
(***************************************************************************)
(* The order and the timing of the packets stream_session sends, for every    *)
(* list of scenes and all requests: each connection carries a prefix of a       *)
(* session of IcdSession, with telemetry on cadence, and a session that is      *)
(* closed is whole.                                                         *)
(***************************************************************************)
EXTENDS EmuServerSafetyProofs

L == INSTANCE IcdLemmas WITH packets <- wire, Interval <- TelemetryInterval

(***************************************************************************)
(* The inductive invariant: what the wire carries at each statement.           *)
(***************************************************************************)
BeforePreamble == {"idle", "alloc", "PREAMBLE"}
BetweenLines   == {"line", "IMAGER_TELEMETRY", "EXPOSURE_START", "FINAL_TELEMETRY"}

\* The argument of stream_session in the packets that announce it.
OpeningInv ==
    /\ L!Opened(wire)
    /\ Len(wire) >= 1 => wire[1] = SessionStart(session_id)
    /\ Len(wire) >= 3 => wire[3].spectral_bands = n_bands
    /\ Len(wire) >= 5 => wire[5].scene_height = scene.n_lines % U24

\* Where the loops are.
LoopInv ==
    /\ stage \in BeforePreamble => line = 0 /\ timestamp = 0 /\ last_telemetry = 0
    /\ stage \in BetweenLines => line <= scene.n_lines
    /\ stage \in {"IMAGER_TELEMETRY", "EXPOSURE_START", "LINE_DATA"} => line < scene.n_lines
    /\ stage = "IMAGER_TELEMETRY" => timestamp - last_telemetry >= TelemetryInterval
    /\ stage = "EXPOSURE_START" => timestamp - last_telemetry < TelemetryInterval
    /\ stage = "FINAL_TELEMETRY" => line = scene.n_lines

Whole(lines) ==
    /\ Len(wire) >= 5
    /\ L!Count(wire, "EXPOSURE_START") = lines
    /\ L!Count(wire, "LINE_DATA") = lines * n_bands

OrderInv ==
    /\ OpeningInv /\ LoopInv /\ L!OnCadence(wire)
    /\ stage \in BetweenLines => L!InSession(wire, line, line * n_bands, last_telemetry)
    /\ stage = "LINE_DATA" =>
          /\ L!InSession(wire, line + 1, line * n_bands + band, last_telemetry)
          /\ band < n_bands
    /\ stage = "SESSION_END" => /\ Whole(scene.n_lines)
                                /\ L!Last(wire).id = "IMAGER_TELEMETRY"
    /\ stage \in {"alloc"} \cup SendStages \cup {"line"} => L!Of(wire, "SESSION_END") = {}
    /\ L!Of(wire, "SESSION_END") # {} => Whole(scene.n_lines)

Short == scene.n_lines < U24

\* What every step may use of the types.
LEMMA StreamFacts ==
    ASSUME TypeInv
    PROVE  /\ wire \in Seq(PacketType) /\ Len(wire) \in Nat
           /\ n_bands \in Nat /\ n_bands > 0 /\ scene.n_lines \in Nat
           /\ line \in Nat /\ band \in Nat /\ timestamp \in Nat /\ last_telemetry \in Nat
           /\ TelemetryInterval \in Nat /\ TelemetryInterval > 0
           /\ ConfigOK /\ StreamOK
<1>1. ConfigOK /\ StreamOK
  BY DEF TypeInv, StreamInv
<1>2. n_bands \in 1 .. MaxBands /\ MaxBands \in Nat /\ scene \in SceneType
  BY <1>1, MaxBandsAssumption DEF ConfigOK
<1>3. band \in BandSlots /\ \A b \in BandSlots : b \in Nat
  BY <1>1, <1>2 DEF StreamOK, BandSlots
<1> QED BY <1>1, <1>2, <1>3, PeriodsAssumption DEF StreamOK, SceneType

\* A packet of the lines leaves the opening as it is.
LEMMA LaterPacket ==
    ASSUME TypeInv, OpeningInv, NEW p \in PacketType, wire' = Append(wire, p),
           Len(wire) >= 5, UNCHANGED arguments
    PROVE  /\ OpeningInv' /\ Len(wire') >= 5 /\ L!Last(wire') = p
           /\ L!Bands(wire) = n_bands /\ L!Lines(wire) = scene.n_lines % U24
           /\ wire[1].session_id = session_id
           /\ UNCHANGED <<n_bands, scene, session_id>>
           /\ wire \in Seq(PacketType)
<1>1. /\ wire \in Seq(PacketType) /\ L!Opened(wire) /\ Len(wire) \in Nat
      /\ wire[1] = SessionStart(session_id) /\ wire[3].spectral_bands = n_bands
      /\ wire[5].scene_height = scene.n_lines % U24
  <2>1. \A n \in Nat : n >= 5 => n >= 1 /\ n >= 3
    OBVIOUS
  <2>2. wire \in Seq(PacketType) /\ Len(wire) \in Nat
    BY StreamFacts
  <2> QED BY <2>1, <2>2 DEF OpeningInv
<1>2. /\ L!Opened(wire)' /\ Len(wire') >= 5 /\ L!Last(wire') = p
      /\ L!Bands(wire') = L!Bands(wire) /\ L!Lines(wire') = L!Lines(wire)
      /\ wire'[1] = wire[1]
  BY <1>1, L!KeptAppend
<1>3. UNCHANGED <<n_bands, scene, session_id>>
  BY DEF arguments
<1>4. wire[1].session_id = session_id
  BY <1>1 DEF SessionStart
<1>5. SessionStart(session_id)' = SessionStart(session_id)
  BY <1>3 DEF SessionStart
<1> QED BY <1>1, <1>2, <1>3, <1>4, <1>5 DEF OpeningInv, L!Bands, L!Lines

\* The packets of the preamble are those of the opening.
LEMMA PreambleOpens ==
    /\ Len(Preamble) = 5
    /\ \A k \in 1 .. 5 : Preamble[k].id = L!Opening[k]
    /\ Preamble[1] = SessionStart(session_id)
    /\ Preamble[5].scene_height = scene.n_lines % U24
<1>1. Len(Preamble) = 5
  BY DEF Preamble
<1>2. Preamble[1] = SessionStart(session_id) /\ Preamble[1].id = L!Opening[1]
  BY DEF Preamble, SessionStart, L!Opening
<1>3. Preamble[2].id = L!Opening[2]
  BY DEF Preamble, ImagerInfo, L!Opening
<1>4. Preamble[3].id = L!Opening[3]
  BY DEF Preamble, ImagerConfig, L!Opening
<1>5. Preamble[4].id = L!Opening[4]
  BY DEF Preamble, TimeSync, L!Opening
<1>6. /\ Preamble[5].id = L!Opening[5]
      /\ Preamble[5].scene_height = scene.n_lines % U24
  BY DEF Preamble, SceneStart, L!Opening
<1> QED BY <1>1, <1>2, <1>3, <1>4, <1>5, <1>6

\* IMAGER_CONFIG announces n_bands bands.
LEMMA AnnouncedBands == ConfigOK => Preamble[3].spectral_bands = n_bands
<1> DEFINE ws == [m \in 1 .. n_bands |-> band_wavelengths[m - 1]]
<1>1. Preamble[3] = ImagerConfig(ws)
  BY DEF Preamble
<1>2. ConfigOK => Len(ws) = n_bands
  BY Constants DEF ConfigOK
<1> HIDE DEF ws
<1> QED BY <1>1, <1>2 DEF ImagerConfig

\* The preamble is sent in the order of the opening.
LEMMA PreambleStep ==
    ASSUME TypeInv, OrderInv, SendPreamble, UNCHANGED arguments
    PROVE  OrderInv' /\ L!Next
<1> DEFINE p == Preamble[Len(wire) + 1]
<1>1. /\ stage = "PREAMBLE" /\ wire' = Append(wire, p) /\ Len(wire) < 5 /\ Len(wire) \in Nat
      /\ stage' = IF Len(wire) + 1 < 5 THEN "PREAMBLE" ELSE "line"
      /\ UNCHANGED <<line, timestamp, last_telemetry, n_bands, scene, session_id>>
      /\ L!Opened(wire) /\ wire \in Seq(PacketType) /\ ConfigOK
      /\ line = 0 /\ timestamp = 0 /\ last_telemetry = 0
  BY StreamFacts, PreambleOpens
  DEF SendPreamble, Send, TypeInv, StreamInv, clock, arguments, OrderInv, OpeningInv, LoopInv,
      BeforePreamble
<1>2. Len(wire) + 1 \in 1 .. 5
  BY <1>1
<1>3. /\ p \in PacketType /\ p.id = L!Opening[Len(wire) + 1]
      /\ Len(wire) = 0 => p = SessionStart(session_id)
      /\ Len(wire) = 2 => p.spectral_bands = n_bands
      /\ Len(wire) = 4 => p.scene_height = scene.n_lines % U24
  <2>1. 0 + 1 = 1 /\ 2 + 1 = 3 /\ 4 + 1 = 5
    OBVIOUS
  <2>2. p \in PacketType /\ p.id = L!Opening[Len(wire) + 1]
    BY <1>1, <1>2, PreambleType, PreambleOpens
  <2>3. Len(wire) = 0 => p = SessionStart(session_id)
    BY <2>1, PreambleOpens
  <2>4. Len(wire) = 2 => p.spectral_bands = n_bands
    BY <1>1, <2>1, AnnouncedBands
  <2>5. Len(wire) = 4 => p.scene_height = scene.n_lines % U24
    BY <2>1, PreambleOpens
  <2> QED BY <2>2, <2>3, <2>4, <2>5
<1> HIDE DEF p
<1>4. /\ Len(wire') = Len(wire) + 1 /\ \A k \in 1 .. Len(wire) : wire'[k] = wire[k]
      /\ wire'[Len(wire) + 1] = p
  BY <1>1, <1>3, L!LongerBy
<1>5. /\ L!Allowed(wire, p) /\ L!Opened(wire') /\ L!OnCadence(wire')
      /\ Len(wire) = 4 => L!InSession(wire', 0, 0, 0)
      /\ L!Of(wire', "SESSION_END") = {}
  BY <1>1, <1>3, L!OpeningAppend
<1>6. L!Next
  BY <1>1, <1>3, <1>5, L!SentIsReceived
<1>7. OpeningInv'
  <2>1. \A n \in Nat : /\ n + 1 >= 1 => n = 0 \/ 1 \in 1 .. n
                       /\ n + 1 >= 3 => n = 2 \/ (3 \in 1 .. n /\ n >= 3)
                       /\ n + 1 >= 5 /\ n < 5 => n = 4
                       /\ 1 \in 1 .. n => n >= 1
    OBVIOUS
  <2>2. 0 + 1 = 1 /\ 2 + 1 = 3 /\ 4 + 1 = 5
    OBVIOUS
  <2>3. Len(wire) = 0 \/ 1 \in 1 .. Len(wire)
    BY <1>1, <2>1
  <2>4. SessionStart(session_id)' = SessionStart(session_id)
    BY <1>1 DEF SessionStart
  <2>5. wire'[1] = SessionStart(session_id)
    BY <1>1, <1>3, <1>4, <2>1, <2>2, <2>3 DEF OrderInv, OpeningInv
  <2>6. Len(wire') >= 3 => wire'[3].spectral_bands = n_bands
    BY <1>1, <1>3, <1>4, <2>1, <2>2 DEF OrderInv, OpeningInv
  <2>7. Len(wire') >= 5 => wire'[5].scene_height = scene.n_lines % U24
    BY <1>1, <1>3, <1>4, <2>1, <2>2
  <2> QED BY <1>1, <1>5, <2>4, <2>5, <2>6, <2>7 DEF OpeningInv
<1>8. CASE Len(wire) = 4
  <2>1. stage' = "line"
    BY <1>1, <1>8
  <2>2. (L!InSession(wire, line, line * n_bands, last_telemetry))'
    BY <1>1, <1>5, <1>8, StreamFacts
  <2>3. LoopInv'
    BY <1>1, <2>1, StreamFacts DEF LoopInv, BeforePreamble, BetweenLines
  <2> QED
    BY <1>5, <1>6, <1>7, <2>1, <2>2, <2>3 DEF OrderInv, BetweenLines
<1>9. CASE Len(wire) # 4
  <2>1. stage' = "PREAMBLE"
    <3>1. \A n \in Nat : n < 5 /\ n # 4 => n + 1 < 5
      OBVIOUS
    <3> QED BY <1>1, <1>9, <3>1
  <2>2. LoopInv'
    BY <1>1, <2>1 DEF LoopInv, BeforePreamble, BetweenLines
  <2> QED
    BY <1>5, <1>6, <1>7, <2>1, <2>2 DEF OrderInv, BetweenLines
<1> QED BY <1>8, <1>9

\* Only SESSION_END ends a session.
LEMMA SentKeepsOpen ==
    ASSUME wire \in Seq(PacketType), NEW p \in PacketType, wire' = Append(wire, p),
           p.id # "SESSION_END", L!Of(wire, "SESSION_END") = {}
    PROVE  L!Of(wire', "SESSION_END") = {}
BY L!OfAppend

\* Telemetry in the loop is sent when it is due.
LEMMA TelemetryStep ==
    ASSUME TypeInv, OrderInv, SendTelemetry, UNCHANGED arguments
    PROVE  OrderInv' /\ L!Next
<1> DEFINE p == Telemetry(timestamp)
           c == line * n_bands
<1>1. /\ stage = "IMAGER_TELEMETRY" /\ stage' = "EXPOSURE_START" /\ wire' = Append(wire, p)
      /\ line' = line /\ last_telemetry' = timestamp /\ timestamp' = timestamp
  BY DEF SendTelemetry, Send
<1>2. /\ p \in PacketType /\ p.id = "IMAGER_TELEMETRY" /\ p.imager_time = timestamp
      /\ timestamp - last_telemetry >= TelemetryInterval
      /\ line < scene.n_lines /\ line \in Nat /\ c \in Nat /\ timestamp \in Nat
      /\ scene.n_lines \in Nat
  BY <1>1, StreamFacts, LinePacketTypes DEF OrderInv, LoopInv, Telemetry
<1>3. L!InSession(wire, line, c, last_telemetry) /\ wire \in Seq(PacketType)
  BY <1>1, StreamFacts DEF OrderInv, BetweenLines
<1>4. Len(wire) >= 5 /\ OpeningInv
  BY <1>3 DEF L!InSession, OrderInv
<1> HIDE DEF p, c
<1>5. (L!InSession(wire, line, line * n_bands, last_telemetry))'
  <2>1. L!InSession(Append(wire, p), line, c, timestamp)
    BY <1>2, <1>3, L!SessionAppend
  <2> QED BY <1>1, <2>1 DEF c, arguments
<1>6. L!Next
  <2>1. L!Bands(wire) = n_bands
    BY <1>1, <1>2, <1>4, LaterPacket
  <2>2. L!Allowed(wire, p)
    BY <1>2, <1>3, <2>1, L!AllowedBetween DEF c
  <2> QED BY <1>1, <1>2, <1>3, <2>2, L!SentIsReceived
<1>7. OpeningInv' /\ L!OnCadence(wire')
  BY <1>1, <1>2, <1>4, <1>5, LaterPacket, L!SessionOnCadence DEF L!InSession
<1>8. LoopInv'
  <2>1. timestamp' - last_telemetry' < TelemetryInterval
    BY <1>1, <1>2, StreamFacts
  <2> QED BY <1>1, <1>2, <2>1 DEF LoopInv, BeforePreamble, BetweenLines, arguments
<1>9. L!Of(wire', "SESSION_END") = {}
  BY <1>1, <1>2, <1>3, SentKeepsOpen DEF OrderInv, SendStages
<1> QED BY <1>1, <1>5, <1>6, <1>7, <1>8, <1>9 DEF OrderInv, BetweenLines

\* An exposure is sent when telemetry is not due.
LEMMA ExposureStep ==
    ASSUME TypeInv, OrderInv, SendExposureStart, UNCHANGED arguments
    PROVE  OrderInv' /\ (Short => L!Next)
<1> DEFINE p == ExposureStart(timestamp)
           c == line * n_bands
<1>1. /\ stage = "EXPOSURE_START" /\ stage' = "LINE_DATA" /\ wire' = Append(wire, p)
      /\ line' = line /\ last_telemetry' = last_telemetry /\ timestamp' = timestamp
      /\ band' = 0
  BY DEF SendExposureStart, Send, clock
<1>2. /\ p \in PacketType /\ p.id = "EXPOSURE_START" /\ p.imager_time = timestamp
      /\ timestamp - last_telemetry < TelemetryInterval
      /\ line < scene.n_lines /\ line \in Nat /\ c \in Nat
      /\ scene.n_lines \in Nat /\ n_bands \in Nat /\ n_bands > 0
  BY <1>1, StreamFacts, LinePacketTypes DEF OrderInv, LoopInv, ExposureStart
<1>3. L!InSession(wire, line, c, last_telemetry) /\ wire \in Seq(PacketType)
  BY <1>1, StreamFacts DEF OrderInv, BetweenLines
<1>4. Len(wire) >= 5 /\ OpeningInv
  BY <1>3 DEF L!InSession, OrderInv
<1> HIDE DEF p, c
<1>5. (L!InSession(wire, line + 1, line * n_bands + band, last_telemetry))' /\ band' < n_bands'
  <2>1. L!InSession(Append(wire, p), line + 1, c, last_telemetry)
    BY <1>2, <1>3, L!SessionAppend
  <2>2. c + 0 = c
    BY <1>2
  <2> QED BY <1>1, <1>2, <2>1, <2>2 DEF c, arguments
<1>6. ASSUME Short PROVE L!Next
  <2>1. L!Bands(wire) = n_bands /\ L!Lines(wire) = scene.n_lines % U24
    BY <1>1, <1>2, <1>4, LaterPacket
  <2>2. scene.n_lines % U24 = scene.n_lines /\ line # scene.n_lines
    BY <1>2, <1>6 DEF Short, U24
  <2>3. L!Allowed(wire, p)
    BY <1>2, <1>3, <2>1, <2>2, L!AllowedBetween DEF c
  <2> QED BY <1>1, <1>2, <1>3, <2>3, L!SentIsReceived
<1>7. OpeningInv' /\ L!OnCadence(wire')
  BY <1>1, <1>2, <1>4, <1>5, LaterPacket, L!SessionOnCadence DEF L!InSession
<1>8. LoopInv'
  BY <1>1, <1>2 DEF LoopInv, BeforePreamble, BetweenLines, arguments
<1>9. L!Of(wire', "SESSION_END") = {}
  BY <1>1, <1>2, <1>3, SentKeepsOpen DEF OrderInv, SendStages
<1> QED BY <1>1, <1>5, <1>6, <1>7, <1>8, <1>9 DEF OrderInv, BetweenLines

\* The bands of a line are sent in order, and the last of them ends the line.
LEMMA LineDataStep ==
    ASSUME TypeInv, OrderInv, SendLineData, UNCHANGED arguments
    PROVE  OrderInv' /\ (Short => L!Next)
<1> DEFINE p == LineData(band, line, [stride |-> SrcBands, from |-> SourceBand(band)])
           n == n_bands
           c == line * n + band
<1>1. /\ stage = "LINE_DATA" /\ wire' = Append(wire, p)
      /\ last_telemetry' = last_telemetry /\ n' = n /\ scene' = scene
      /\ \/ /\ band + 1 < n /\ band' = band + 1
            /\ stage' = "LINE_DATA" /\ line' = line /\ timestamp' = timestamp
         \/ /\ band + 1 >= n /\ line' = line + 1 /\ stage' = "line"
  BY DEF SendLineData, Send, arguments
<1>2. /\ p \in PacketType /\ p.id = "LINE_DATA" /\ p.spectral_band = band
      /\ p.line_number = line % U24 /\ line < scene.n_lines /\ scene.n_lines \in Nat
      /\ line \in Nat /\ n \in Nat /\ band \in Nat /\ band < n
  BY <1>1, StreamFacts, LinePacketTypes DEF OrderInv, LoopInv, LineData
<1>3. L!InSession(wire, line + 1, c, last_telemetry) /\ wire \in Seq(PacketType)
  BY <1>1, StreamFacts DEF OrderInv
<1>4. Len(wire) >= 5 /\ OpeningInv
  BY <1>3 DEF L!InSession, OrderInv
<1> HIDE DEF p
<1>5. /\ c \in Nat /\ (band + 1 = n => c + 1 = (line + 1) * n)
      /\ c + 1 = line * n + (band + 1) /\ line + 1 \in Nat
  <2> HIDE DEF n
  <2>1. line * n \in Nat /\ line + 1 \in Nat
    BY <1>2
  <2> QED BY <1>2, <2>1, L!MulApart
<1> HIDE DEF c, n
<1>6. L!InSession(Append(wire, p), line + 1, c + 1, last_telemetry)
  BY <1>2, <1>3, <1>5, L!SessionAppend
<1>7. ASSUME Short PROVE L!Next
  <2>1. L!Bands(wire) = n
    BY <1>1, <1>2, <1>4, LaterPacket DEF n
  <2>2. line % U24 = line
    BY <1>2, <1>7 DEF Short, U24
  <2>3. L!Allowed(wire, p)
    BY <1>2, <1>3, <1>5, <2>1, <2>2, L!AllowedInLine DEF c
  <2> QED BY <1>1, <1>2, <1>3, <2>3, L!SentIsReceived
<1>8. OpeningInv' /\ L!OnCadence(wire')
  BY <1>1, <1>2, <1>4, <1>6, LaterPacket, L!SessionOnCadence DEF L!InSession
<1>9. L!Of(wire', "SESSION_END") = {}
  BY <1>1, <1>2, <1>3, SentKeepsOpen DEF OrderInv, SendStages
<1>10. CASE stage' = "line"
  <2>1. band + 1 = n /\ line' = line + 1 /\ line + 1 <= scene.n_lines
    BY <1>1, <1>2, <1>10
  <2>2. (L!InSession(wire, line, line * n_bands, last_telemetry))'
    <3>1. L!InSession(Append(wire, p), line + 1, (line + 1) * n, last_telemetry)
      BY <1>5, <1>6, <2>1
    <3> QED BY <1>1, <2>1, <3>1 DEF n
  <2>3. LoopInv'
    BY <1>1, <1>10, <2>1 DEF LoopInv, BeforePreamble, BetweenLines
  <2> QED BY <1>7, <1>8, <1>9, <1>10, <2>2, <2>3 DEF OrderInv, BetweenLines
<1>11. CASE stage' = "LINE_DATA"
  <2>1. band' = band + 1 /\ band + 1 < n /\ line' = line
    BY <1>1, <1>11
  <2>2. (L!InSession(wire, line + 1, line * n_bands + band, last_telemetry))'
        /\ band' < n_bands'
    <3>1. L!InSession(Append(wire, p), line + 1, line * n + (band + 1), last_telemetry)
      BY <1>5, <1>6
    <3> QED BY <1>1, <2>1, <3>1 DEF n
  <2>3. LoopInv'
    BY <1>1, <1>2, <1>11, <2>1 DEF LoopInv, BeforePreamble, BetweenLines
  <2> QED BY <1>7, <1>8, <1>9, <1>11, <2>2, <2>3 DEF OrderInv, BetweenLines
<1> QED BY <1>1, <1>10, <1>11

\* The final telemetry follows the last line.
LEMMA FinalTelemetryStep ==
    ASSUME TypeInv, OrderInv, SendFinalTelemetry, UNCHANGED arguments
    PROVE  OrderInv' /\ L!Next
<1> DEFINE p == Telemetry(timestamp)
           c == line * n_bands
<1>1. /\ stage = "FINAL_TELEMETRY" /\ stage' = "SESSION_END" /\ wire' = Append(wire, p)
      /\ n_bands' = n_bands /\ scene' = scene
  BY DEF SendFinalTelemetry, Send, arguments
<1>2. /\ p \in PacketType /\ p.id = "IMAGER_TELEMETRY" /\ line = scene.n_lines
      /\ line \in Nat /\ n_bands \in Nat
  BY <1>1, StreamFacts, LinePacketTypes DEF OrderInv, LoopInv, Telemetry
<1>3. L!InSession(wire, line, c, last_telemetry) /\ wire \in Seq(PacketType)
  BY <1>1, StreamFacts DEF OrderInv, BetweenLines
<1>4. Len(wire) >= 5 /\ OpeningInv /\ L!OnCadence(wire)
  BY <1>3 DEF L!InSession, OrderInv
<1> HIDE DEF p, c
<1>5. /\ L!OnCadence(wire') /\ L!Count(wire', "EXPOSURE_START") = line
      /\ L!Count(wire', "LINE_DATA") = c
  BY <1>1, <1>2, <1>3, <1>4, L!ClosingAppend DEF L!InSession
<1>6. L!Next
  <2>1. L!Bands(wire) = n_bands
    BY <1>1, <1>2, <1>4, LaterPacket
  <2>2. L!Allowed(wire, p)
    BY <1>2, <1>3, <2>1, L!AllowedBetween DEF c
  <2> QED BY <1>1, <1>2, <1>3, <2>2, L!SentIsReceived
<1>7. OpeningInv' /\ Len(wire') >= 5 /\ L!Last(wire') = p
  BY <1>1, <1>2, <1>4, LaterPacket
<1>8. L!Of(wire', "SESSION_END") = {}
  BY <1>1, <1>2, <1>3, SentKeepsOpen DEF OrderInv, SendStages
<1>9. LoopInv'
  BY <1>1 DEF LoopInv, BeforePreamble, BetweenLines
<1> QED
  BY <1>1, <1>2, <1>5, <1>6, <1>7, <1>8, <1>9 DEF OrderInv, BetweenLines, Whole, c

\* SESSION_END follows the final telemetry of a complete session.
LEMMA EndStep ==
    ASSUME TypeInv, OrderInv, SendSessionEnd, UNCHANGED arguments
    PROVE  OrderInv' /\ (Short => L!Next)
<1> DEFINE p == SessionEnd(session_id)
<1>1. /\ stage = "SESSION_END" /\ stage' = "done" /\ wire' = Append(wire, p)
      /\ n_bands' = n_bands /\ scene' = scene
  BY DEF SendSessionEnd, Send, arguments
<1>2. /\ p \in PacketType /\ p.id = "SESSION_END" /\ p.session_id = session_id
      /\ scene.n_lines \in Nat /\ n_bands \in Nat
  BY StreamFacts, LinePacketTypes DEF SessionEnd
<1>3. /\ wire \in Seq(PacketType) /\ Len(wire) >= 5 /\ L!OnCadence(wire) /\ OpeningInv
      /\ L!Last(wire).id = "IMAGER_TELEMETRY"
      /\ L!Count(wire, "EXPOSURE_START") = scene.n_lines
      /\ L!Count(wire, "LINE_DATA") = scene.n_lines * n_bands
  BY <1>1, StreamFacts DEF OrderInv, Whole
<1> HIDE DEF p
<1>4. /\ L!OnCadence(wire') /\ L!Count(wire', "EXPOSURE_START") = scene.n_lines
      /\ L!Count(wire', "LINE_DATA") = scene.n_lines * n_bands
  BY <1>1, <1>2, <1>3, L!ClosingAppend
<1>5. ASSUME Short PROVE L!Next
  <2>1. L!Bands(wire) = n_bands /\ L!Lines(wire) = scene.n_lines % U24
        /\ wire[1].session_id = session_id
    BY <1>1, <1>2, <1>3, LaterPacket
  <2>2. scene.n_lines % U24 = scene.n_lines
    BY <1>2, <1>5 DEF Short, U24
  <2>3. L!AllLines(wire)
    BY <1>3, <2>1, <2>2 DEF L!AllLines, L!BetweenLines
  <2>4. L!Allowed(wire, p)
    BY <1>2, <1>3, <2>1, <2>3, L!AllowedAtEnd
  <2> QED BY <1>1, <1>2, <1>3, <2>4, L!SentIsReceived
<1>6. OpeningInv' /\ Len(wire') >= 5
  BY <1>1, <1>2, <1>3, LaterPacket
<1>7. LoopInv'
  BY <1>1 DEF LoopInv, BeforePreamble, BetweenLines
<1> QED
  BY <1>1, <1>4, <1>5, <1>6, <1>7 DEF OrderInv, BetweenLines, Whole, SendStages

\* The other statements of stream_session write nothing.
LEMMA SilentStreamStep ==
    ASSUME TypeInv, OrderInv, Allocate \/ LoadLine \/ LinesDone \/ SendFails,
           UNCHANGED arguments
    PROVE  OrderInv' /\ UNCHANGED wire
<1>1. UNCHANGED <<line, band, timestamp, last_telemetry, wire, n_bands, scene, session_id>>
  BY DEF Allocate, LoadLine, LinesDone, SendFails, clock, arguments
<1>2. OpeningInv'
  BY <1>1 DEF OrderInv, OpeningInv, SessionStart
<1>3. CASE Allocate
  BY <1>1, <1>2, <1>3
  DEF Allocate, OrderInv, LoopInv, BeforePreamble, BetweenLines, SendStages, Whole
<1>4. CASE LoadLine
  <2>1. /\ stage = "line" /\ line < scene.n_lines
        /\ stage' \in {"failed", "IMAGER_TELEMETRY", "EXPOSURE_START"}
        /\ stage' = "IMAGER_TELEMETRY" => TelemetryDue
        /\ stage' = "EXPOSURE_START" => ~TelemetryDue
    BY <1>4 DEF LoadLine, AfterLoad
  <2>2. /\ stage' = "IMAGER_TELEMETRY" => timestamp - last_telemetry >= TelemetryInterval
        /\ stage' = "EXPOSURE_START" => timestamp - last_telemetry < TelemetryInterval
    BY <2>1, StreamFacts DEF TelemetryDue
  <2> QED
    BY <1>1, <1>2, <2>1, <2>2
    DEF OrderInv, LoopInv, BeforePreamble, BetweenLines, SendStages, Whole
<1>5. CASE LinesDone
  <2>1. stage = "line" /\ stage' = "FINAL_TELEMETRY" /\ line = scene.n_lines
    BY <1>5, StreamFacts DEF LinesDone, OrderInv, LoopInv, BetweenLines
  <2> QED
    BY <1>1, <1>2, <2>1
    DEF OrderInv, LoopInv, BeforePreamble, BetweenLines, SendStages, Whole
<1>6. CASE SendFails
  BY <1>1, <1>2, <1>6
  DEF SendFails, OrderInv, LoopInv, BeforePreamble, BetweenLines, SendStages, Whole
<1> QED BY <1>1, <1>3, <1>4, <1>5, <1>6

\* A connection on which nothing was sent is in order, whatever its scene.
NothingSent == /\ wire = <<>> /\ stage \in {"idle", "alloc"}
               /\ line = 0 /\ timestamp = 0 /\ last_telemetry = 0

\* The invariant of the order holds of it.
LEMMA OrderOfNothing == NothingSent => OrderInv
<1> SUFFICES ASSUME NothingSent PROVE OrderInv
  OBVIOUS
<1>1. wire = <<>> /\ Len(wire) = 0 /\ DOMAIN wire = {}
  BY DEF NothingSent
<1>2. OpeningInv
  BY <1>1 DEF OpeningInv, L!Opened
<1>3. L!OnCadence(wire) /\ L!Of(wire, "SESSION_END") = {}
  BY <1>1 DEF L!OnCadence, L!Of
<1> QED
  BY <1>2, <1>3 DEF NothingSent, OrderInv, LoopInv, BeforePreamble, BetweenLines, SendStages

\* So it does after a step that leaves the connection so.
LEMMA OrderOfNothingNext == NothingSent' => OrderInv'
BY OrderOfNothing, PTL

\* Every step keeps the invariant of the order, and is a step of IcdSession.
LEMMA OrderStep ==
    ASSUME TypeInv, OrderInv, [Next]_vars
    PROVE  OrderInv' /\ (Short => L!Next \/ UNCHANGED wire)
<1>1. CASE Stream
  <2>1. StreamStep /\ UNCHANGED arguments
    BY <1>1 DEF Stream, StreamStep
  <2> QED
    BY <2>1, PreambleStep, TelemetryStep, ExposureStep, LineDataStep, FinalTelemetryStep,
       EndStep, SilentStreamStep
    DEF StreamStep
<1>2. CASE CloseSession
  <2>1. NothingSent' /\ wire' = <<>>
    BY <1>2 DEF CloseSession, Return, NothingSent
  <2> QED BY <2>1, OrderOfNothingNext DEF L!Next, L!Reconnect
<1>3. ASSUME pc \notin {"stream", "killed"}
      PROVE  NothingSent
  BY <1>3 DEF TypeInv, Phase, StreamInv, OrderInv, LoopInv, BeforePreamble, NothingSent
<1>4. CASE AcceptData
  <2>1. NothingSent' /\ UNCHANGED wire
    BY <1>3, <1>4 DEF AcceptData, Begin, clock, NothingSent
  <2> QED BY <2>1, OrderOfNothingNext
<1>5. CASE \/ Boot \/ BootFails \/ AcceptDataFails \/ AcceptControl \/ AcceptControlFails
           \/ ReceiveTooLittle \/ Receive \/ MatchBand \/ FinishReconfig
  <2>1. pc \notin {"stream", "killed"} /\ UNCHANGED locals
    BY <1>5
    DEF Boot, BootFails, AcceptDataFails, AcceptControl, AcceptControlFails,
        ReceiveTooLittle, Receive, ReceiveReconfig, ReceiveNextScene, ReceiveUnknown,
        MatchBand, FinishReconfig
  <2>2. NothingSent' /\ UNCHANGED wire
    BY <1>3, <2>1 DEF locals, NothingSent
  <2> QED BY <2>2, OrderOfNothingNext
<1>6. CASE BrokenPipe \/ DataHangup \/ DataConnect \/ ControlConnect \/ Ended
           \/ UNCHANGED vars
  <2>1. UNCHANGED <<stage, line, band, timestamp, last_telemetry, wire, n_bands, scene,
                    session_id>>
    BY <1>6
    DEF BrokenPipe, DataHangup, Hangup, DataConnect, ControlConnect, Queued, Ended, vars,
        locals, arguments, clock
  <2>2. OpeningInv' /\ LoopInv'
    BY <2>1 DEF OrderInv, OpeningInv, LoopInv, SessionStart
  <2> QED BY <2>1, <2>2 DEF OrderInv, Whole
<1> QED BY <1>1, <1>2, <1>4, <1>5, <1>6 DEF Next, Server, Clients

\* The number of lines stays one that SCENE_START can carry.
LEMMA ShortStep ==
    ASSUME \A dir \in Dirs : dir.n_lines < U24, TypeInv, Short, [Next]_vars
    PROVE  Short'
<1>1. \A dir \in Dirs : LoadedScene(dir).n_lines < U24
  BY DEF LoadedScene
<1>2. CASE Boot
  <2>1. SceneDir \in Dirs
    BY DirInList DEF SceneDir, TypeInv, ConfigOK
  <2> QED BY <1>1, <1>2, <2>1 DEF Boot, Short
<1>3. ASSUME NEW k \in 1 .. cmd.len, ReceiveNextScene(k)
      PROVE  Short'
  <2> DEFINE c == Advanced(current, cmd.direction, Len(Scenes))
             dir == Scenes[c + 1]
  <2>1. c \in 0 .. Len(Scenes) - 1
    BY AdvancedInRange DEF TypeInv, ConfigOK, ServerOK, CommandOK, CommandType
  <2>2. scene' \in {LoadedScene(dir), scene}
    BY <1>3 DEF ReceiveNextScene, SwitchedDir, SceneAfterLoad
  <2> HIDE DEF c
  <2>3. dir \in Dirs
    BY <2>1, DirInList
  <2> QED BY <1>1, <2>2, <2>3 DEF Short
<1>4. CASE \/ BootFails \/ AcceptData \/ AcceptDataFails \/ Stream \/ BrokenPipe
           \/ CloseSession \/ AcceptControl \/ AcceptControlFails \/ ReceiveTooLittle
           \/ MatchBand \/ FinishReconfig \/ Clients \/ Ended \/ UNCHANGED vars
  <2>1. scene' = scene
    BY <1>4
    DEF BootFails, AcceptData, AcceptDataFails, Stream, StreamStep, BrokenPipe,
        CloseSession, AcceptControl, AcceptControlFails, ReceiveTooLittle, MatchBand,
        FinishReconfig, Clients, DataConnect, ControlConnect, Queued, DataHangup, Ended, vars,
        arguments
  <2> QED BY <2>1 DEF Short
<1>5. ASSUME NEW k \in 1 .. cmd.len, ReceiveReconfig(k) \/ ReceiveUnknown(k)
      PROVE  Short'
  BY <1>5 DEF ReceiveReconfig, ReceiveUnknown, Short, arguments
<1> QED BY <1>2, <1>3, <1>4, <1>5 DEF Next, Server, Receive

(***************************************************************************)
(* Theorems.                                                                 *)
(***************************************************************************)
\* Both instances of IcdSession count alike.
LEMMA SameCount ==
    \A ps, id : L!Count(ps, id) = Icd!Count(ps, id) /\ L!Of(ps, id) = Icd!Of(ps, id)
<1>1. \A S : L!Cardinality(S) = Icd!Cardinality(S)
  BY DEF L!Cardinality, Icd!Cardinality
<1> QED BY <1>1 DEF L!Count, Icd!Count, L!Of, Icd!Of

\* At every statement of stream_session the packets already sent are those the
\* loop variables account for, for any scenes, commands and broken connections.
THEOREM OrderInvariant == Spec => [](TypeInv /\ OrderInv)
<1>1. Init => TypeInv /\ OrderInv
  BY TypeInit, OrderOfNothing DEF Init, NothingSent
<1>2. TypeInv /\ OrderInv /\ [Next]_vars => (TypeInv /\ OrderInv)'
  BY TypeStep, OrderStep
<1> QED BY <1>1, <1>2, PTL DEF Spec

\* The server's telemetry is neither late nor early, at any line period, in whole
\* sessions and in broken ones (TelemetryCadence).
THEOREM ServerTelemetry == Spec => []TelemetryCadence
<1>1. OrderInv => TelemetryCadence
  BY DEF OrderInv, TelemetryCadence, L!OnCadence, Icd!OnCadence, L!LastTelemetry,
         Icd!LastTelemetry, L!Of, Icd!Of
<1> QED BY <1>1, OrderInvariant, PTL

\* While every scene has fewer lines than the 24-bit fields count, the scene in
\* memory has too.
LEMMA AlwaysShort ==
    ASSUME \A dir \in Dirs : dir.n_lines < U24
    PROVE  Spec => []Short
<1>1. Init => Short
  BY DEF Init, BlankScene, Short, U24
<1>2. TypeInv /\ Short /\ [Next]_vars => Short'
  BY ShortStep
<1> QED BY <1>1, <1>2, OrderInvariant, PTL DEF Spec

\* SESSION_END is sent only after every line of every band that the opening
\* announced (EndedSessionsAreWhole), for scenes that SCENE_START can describe.
THEOREM ClosedSessionsAreWhole ==
    ASSUME \A dir \in Dirs : dir.n_lines < U24
    PROVE  Spec => []EndedSessionsAreWhole
<1>1. TypeInv /\ OrderInv /\ Short => EndedSessionsAreWhole
  <2> SUFFICES ASSUME TypeInv, OrderInv, Short, Sent("SESSION_END") # {}
               PROVE  Cardinality(Sent("LINE_DATA"))
                         = wire[5].scene_height * wire[3].spectral_bands
    BY DEF EndedSessionsAreWhole
  <2>1. \A id : Sent(id) = L!Of(wire, id)
    BY DEF Sent, L!Of
  <2>2. Whole(scene.n_lines)
    BY <2>1 DEF OrderInv
  <2>3. Cardinality(Sent("LINE_DATA")) = scene.n_lines * n_bands
    BY <2>1, <2>2 DEF Whole, L!Count, L!Cardinality, Cardinality
  <2>4. wire[5].scene_height = scene.n_lines % U24 /\ wire[3].spectral_bands = n_bands
    <3>1. \A n \in Nat : n >= 5 => n >= 3
      OBVIOUS
    <3> QED BY <2>2, <3>1, StreamFacts DEF Whole, OrderInv, OpeningInv
  <2>5. scene.n_lines % U24 = scene.n_lines
    BY StreamFacts DEF Short, U24
  <2> QED BY <2>3, <2>4, <2>5
<1> QED BY <1>1, OrderInvariant, AlwaysShort, PTL

\* The server implements the session order of the ICD: every connection carries a
\* prefix of a session, and the next one starts over (StreamFollowsIcd).
THEOREM ServerRefinesIcd ==
    ASSUME \A dir \in Dirs : dir.n_lines < U24
    PROVE  Spec => StreamFollowsIcd
<1>1. Init => Icd!Init
  BY DEF Init, Icd!Init
<1>2. TypeInv /\ OrderInv /\ Short /\ [Next]_vars => [Icd!Next]_wire
  <2>1. \A ps, p : L!Allowed(ps, p) <=> Icd!Allowed(ps, p)
    BY SameCount
    DEF L!Allowed, Icd!Allowed, L!Opening, Icd!Opening, L!Last, Icd!Last, L!BetweenLines,
        Icd!BetweenLines, L!AllLines, Icd!AllLines, L!NextLineData, Icd!NextLineData,
        L!Bands, Icd!Bands, L!Lines, Icd!Lines
  <2>2. L!Next <=> Icd!Next
    BY <2>1 DEF L!Next, Icd!Next, L!Receive, Icd!Receive, L!Reconnect, Icd!Reconnect,
                L!Last, Icd!Last
  <2> QED BY <2>2, OrderStep
<1> QED BY <1>1, <1>2, OrderInvariant, AlwaysShort, PTL DEF Spec, StreamFollowsIcd, Icd!Spec
=============================================================================
