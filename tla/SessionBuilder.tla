--------------------------- MODULE SessionBuilder ---------------------------
(***************************************************************************)
(* xs_session_size and xs_build_session (src/packets/session.c): a whole       *)
(* session written into one caller-supplied buffer.  The size is estimated     *)
(* once, from the configuration; from then on every serializer is handed what  *)
(* is left of the buffer and gives up when its packet does not fit.           *)
(***************************************************************************)
EXTENDS Packets

CONSTANTS
    Configs,              \* the xs_session_cfg_t of the calls
    BufSizes(_),          \* the buf_size of the calls with a configuration
    TelemetryInterval,    \* XS_TELEMETRY_INTERVAL_US
    DefaultLinePeriod     \* XS_DEFAULT_LINE_PERIOD_US

ConfigType ==
    [session_id : Nat, n_bands : 1 .. MaxBands, n_lines : Nat, width : Word,
     encoding : {"8BIT", "12BIT_16BIT", "10BIT_16BIT", "16BIT"},
     line_period_us : Nat, source_n_bands : 0 .. MaxBands,
     band_indices : [BandSlots -> BandSlots], band_wavelengths : [BandSlots -> Word]]

ASSUME BuilderAssumption ==
    /\ Configs \subseteq ConfigType
    /\ \A c \in Configs : BufSizes(c) \subseteq Nat
    /\ TelemetryInterval \in Nat \ {0}
    /\ DefaultLinePeriod \in Nat \ {0}

VARIABLES
    cfg, buf_size,        \* the arguments
    stage,                \* the statement xs_build_session is at
    pos,                  \* bytes written
    line, band, timestamp, last_telemetry_time,
    out,                  \* the packets written
    telemetries           \* history: telemetry packets sent between lines

args == <<cfg, buf_size>>
vars == <<args, stage, pos, line, band, timestamp, last_telemetry_time, out, telemetries>>

(***************************************************************************)
(* Sizes, as xs_session_size computes them.                                  *)
(***************************************************************************)
PixelBytes(c) == IF c.encoding = "8BIT" THEN c.width ELSE c.width * 2

\* Mutant: the padding of the line-data payload is forgotten.
LineDataSizeUnpadded(c) == PacketSize(12 + PixelBytes(c))
LineDataSize(c) == PacketSize(Padded(12 + PixelBytes(c)))

LinePeriodOf(c) ==
    IF c.line_period_us > 0 THEN c.line_period_us ELSE DefaultLinePeriod

PerLine(c) == PacketSize(8) + c.n_bands * LineDataSize(c)

TelemetryAllowance(c) == ((c.n_lines * LinePeriodOf(c)) \div TelemetryInterval) + 2

\* What comes before the first line.
OpeningSize(c) ==
    PacketSize(12) + PacketSize(12)
    + PacketSize(Padded(12 + c.n_bands + 2 + c.n_bands * 4 + 1))
    + PacketSize(20) + PacketSize(12)

SessionSize(c) ==
    OpeningSize(c) + c.n_lines * PerLine(c)
    + TelemetryAllowance(c) * PacketSize(12) + PacketSize(4)

(***************************************************************************)
(* xs_build_session                                                          *)
(***************************************************************************)
SrcBands      == IF cfg.source_n_bands = 0 THEN cfg.n_bands ELSE cfg.source_n_bands
SourceBand(b) == IF SrcBands > cfg.n_bands THEN cfg.band_indices[b] ELSE b

Wavelengths == [k \in 1 .. cfg.n_bands |-> cfg.band_wavelengths[k - 1]]

OpeningStages ==
    {"SESSION_START", "IMAGER_INFO", "IMAGER_CONFIG", "TIME_SYNC", "SCENE_START"}
Stages == OpeningStages \cup
          {"size", "malloc", "line", "IMAGER_TELEMETRY", "EXPOSURE_START", "LINE_DATA",
           "FINAL_TELEMETRY", "SESSION_END", "done", "failed", "refused", "nomem"}

Init ==
    /\ cfg \in Configs /\ buf_size \in BufSizes(cfg)
    /\ stage = "size" /\ pos = 0
    /\ line = 0 /\ band = 0 /\ timestamp = 0 /\ last_telemetry_time = 0
    /\ out = <<>> /\ telemetries = 0

\* One serializer call on the rest of the buffer, and the check of its result.
Emit(payload, packet, next) ==
    LET n == Written(buf_size - pos, payload) IN
    /\ pos' = pos + n
    /\ out' = IF n = 0 THEN out ELSE Append(out, packet)
    /\ stage' = IF n = 0 THEN "failed" ELSE next

CheckSize ==
    /\ stage = "size"
    /\ stage' = IF buf_size < SessionSize(cfg) THEN "refused" ELSE "SESSION_START"
    /\ UNCHANGED <<args, pos, line, band, timestamp, last_telemetry_time, out, telemetries>>

EmitOpening ==
    /\ \/ stage = "SESSION_START"
          /\ Emit(SessionStartPayload, SessionStart(cfg.session_id), "IMAGER_INFO")
       \/ stage = "IMAGER_INFO"
          /\ Emit(ImagerInfoPayload, ImagerInfo, "IMAGER_CONFIG")
       \/ stage = "IMAGER_CONFIG"
          /\ Emit(ImagerConfigPayload(cfg.n_bands), ImagerConfig(Wavelengths), "TIME_SYNC")
       \/ stage = "TIME_SYNC"
          /\ Emit(TimeSyncPayload, TimeSync, "SCENE_START")
       \/ stage = "SCENE_START"
          /\ Emit(SceneStartPayload, SceneStart(cfg.n_lines, cfg.width), "malloc")
    /\ UNCHANGED <<args, line, band, timestamp, last_telemetry_time, telemetries>>

AllocatePixels ==
    /\ stage = "malloc"
    /\ stage' \in {"line", "nomem"}
    /\ UNCHANGED <<args, pos, line, band, timestamp, last_telemetry_time, out, telemetries>>

\* Mutants: the time of the last telemetry is not taken into account; the loop
\* stops a line early.
TelemetryDueSinceStart == timestamp >= TelemetryInterval
TelemetryDue == timestamp - last_telemetry_time >= TelemetryInterval

NoMoreLinesEarly == line + 1 >= cfg.n_lines
NoMoreLines == line >= cfg.n_lines

NextLine ==
    /\ stage = "line"
    /\ stage' = IF NoMoreLines THEN "FINAL_TELEMETRY"
                ELSE IF TelemetryDue THEN "IMAGER_TELEMETRY" ELSE "EXPOSURE_START"
    /\ UNCHANGED <<args, pos, line, band, timestamp, last_telemetry_time, out, telemetries>>

EmitTelemetry ==
    /\ stage = "IMAGER_TELEMETRY"
    /\ Emit(TelemetryPayload, Telemetry(timestamp), "EXPOSURE_START")
    /\ last_telemetry_time' = timestamp
    /\ telemetries' = telemetries + 1
    /\ UNCHANGED <<args, line, band, timestamp>>

EmitExposureStart ==
    /\ stage = "EXPOSURE_START"
    /\ Emit(ExposureStartPayload, ExposureStart(timestamp), "LINE_DATA")
    /\ band' = 0
    /\ UNCHANGED <<args, line, timestamp, last_telemetry_time, telemetries>>

\* Mutant: one packet too many per line.
LastBandLate == band >= cfg.n_bands
LastBand == band + 1 >= cfg.n_bands

EmitLineData ==
    /\ stage = "LINE_DATA"
    /\ Emit(LineDataPayload(PixelBytes(cfg)),
            LineData(band, line, [stride |-> SrcBands, from |-> SourceBand(band)]),
            IF LastBand THEN "line" ELSE "LINE_DATA")
    /\ band' = IF LastBand THEN 0 ELSE band + 1
    /\ line' = IF LastBand THEN line + 1 ELSE line
    /\ timestamp' = IF LastBand THEN timestamp + LinePeriodOf(cfg) ELSE timestamp
    /\ UNCHANGED <<args, last_telemetry_time, telemetries>>

EmitFinalTelemetry ==
    /\ stage = "FINAL_TELEMETRY"
    /\ Emit(TelemetryPayload, Telemetry(timestamp), "SESSION_END")
    /\ UNCHANGED <<args, line, band, timestamp, last_telemetry_time, telemetries>>

EmitSessionEnd ==
    /\ stage = "SESSION_END"
    /\ Emit(SessionEndPayload, SessionEnd(cfg.session_id), "done")
    /\ UNCHANGED <<args, line, band, timestamp, last_telemetry_time, telemetries>>

\* The return value: bytes written, or 0 on error.
Returned == stage \in {"done", "failed", "refused", "nomem"}
Result   == IF stage = "done" THEN pos ELSE 0

Finished == Returned /\ UNCHANGED vars

Next == CheckSize \/ EmitOpening \/ AllocatePixels \/ NextLine \/ EmitTelemetry
        \/ EmitExposureStart \/ EmitLineData \/ EmitFinalTelemetry \/ EmitSessionEnd
        \/ Finished

Spec == Init /\ [][Next]_vars

(***************************************************************************)
(* What a caller relies on.                                                  *)
(***************************************************************************)
\* The types of the locals, and where the band counter may stand.
TypeOK ==
    /\ cfg \in Configs /\ buf_size \in BufSizes(cfg)
    /\ stage \in Stages /\ pos \in Nat
    /\ line \in 0 .. cfg.n_lines /\ band \in 0 .. cfg.n_bands - 1
    /\ timestamp \in Nat /\ last_telemetry_time \in Nat /\ telemetries \in Nat

\* session.h: xs_session_size gives "the buffer size needed for a complete
\* session".  In a buffer of that size no serializer runs out of room, and no
\* session is larger, whatever the line period does to the telemetry count.
EstimateSuffices ==
    /\ stage # "failed"
    /\ stage \notin {"size", "refused"} => pos <= SessionSize(cfg)

Icd == INSTANCE IcdSession WITH packets <- out, Interval <- TelemetryInterval

\* The buffer holds a well-formed session, packet for packet the order the
\* emulator streams, however the call ends.
BufferFollowsIcd == Icd!Spec

\* Telemetry in the buffer is neither late nor early, at any line period.
BufferOnCadence == Icd!OnCadence(out)

\* A call that returns a size returns a session that is complete: every band of
\* every line, closed by SESSION_END.
ReturnsWholeSession ==
    Result > 0 =>
        /\ Icd!Count(out, "LINE_DATA") = cfg.n_lines * cfg.n_bands
        /\ Icd!Last(out) = SessionEnd(cfg.session_id)
=============================================================================
