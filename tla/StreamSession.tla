--------------------------- MODULE StreamSession ---------------------------
(***************************************************************************)
(* stream_session of src/emu/emu_server.c: one session sent, packet by        *)
(* packet, on one data connection.  The variables of the first group are the  *)
(* function's arguments, owned by the server (EmuServer); those of the second *)
(* are its locals and the connection it writes to.                           *)
(***************************************************************************)
EXTENDS SceneLoader

CONSTANTS
    LinePeriod,         \* XS_DEFAULT_LINE_PERIOD_US
    TelemetryInterval,  \* XS_TELEMETRY_INTERVAL_US
    Faults              \* what may go wrong besides the scenes themselves

\* "files": a file that is there cannot be opened or read, or its text be held.
FaultKinds == {"listen", "accept", "memory", "files", "hangup"}

ASSUME PeriodsAssumption ==
    LinePeriod \in Nat \ {0} /\ TelemetryInterval \in Nat \ {0}
ASSUME FaultsAssumption == Faults \subseteq FaultKinds

VARIABLES
    current,            \* index of the scene directory in Scenes, from 0
    scene,              \* its xs_scene_t
    n_bands, band_indices, band_wavelengths, source_n_bands, session_id

VARIABLES
    stage,              \* the statement stream_session is at
    line, band, timestamp, last_telemetry,
    conn,               \* the client's end: "none", "open" or "gone"
    wire                \* the packets sent on the connection so far

arguments == <<current, scene, n_bands, band_indices, band_wavelengths,
               source_n_bands, session_id>>
clock     == <<timestamp, last_telemetry>>
locals    == <<stage, line, band, timestamp, last_telemetry, conn, wire>>

PktBufSize == 65536

SceneDir == Scenes[current + 1]

\* The interleaving stream_session reads a line with, and the source band of
\* packet b; a read beyond the stride lands in the next pixel, or past the line.
SrcBands      == IF source_n_bands > 0 THEN source_n_bands ELSE n_bands
\* Mutant: the selection made by a reconfiguration is ignored.
SourceBandInOrder(b) == b
SourceBand(b) == IF SrcBands > n_bands THEN band_indices[b] ELSE b

Preamble == << SessionStart(session_id), ImagerInfo,
               ImagerConfig([k \in 1 .. n_bands |-> band_wavelengths[k - 1]]),
               TimeSync, SceneStart(scene.n_lines, scene.width) >>

SendStages == {"PREAMBLE", "IMAGER_TELEMETRY", "EXPOSURE_START", "LINE_DATA",
               "FINAL_TELEMETRY", "SESSION_END"}
Stages     == SendStages \cup {"idle", "alloc", "line", "done", "failed"}

\* Only a line of pixels can be too large for the packet buffer: the other
\* payloads are fixed or bounded by a byte (n_bands).
LineFits == Written(PktBufSize, LineDataPayload(2 * scene.width)) > 0

(***************************************************************************)
(* Steps.  A send on an open connection succeeds; when the client is gone it  *)
(* may still succeed (the reset has not arrived), fail, or kill the process:  *)
(* SIGPIPE is neither ignored nor suppressed.                                *)
(***************************************************************************)
Send(packet) == wire' = Append(wire, packet)

Begin ==
    /\ stage' = "alloc" /\ conn' = "open"
    /\ UNCHANGED <<line, band, clock, wire>>

\* The function returns: its locals are gone, and the caller closes the connection.
Return ==
    /\ stage' = "idle" /\ conn' = "none" /\ wire' = <<>>
    /\ line' = 0 /\ band' = 0 /\ timestamp' = 0 /\ last_telemetry' = 0

Allocate ==
    /\ stage = "alloc"
    /\ \/ stage' = "PREAMBLE"
       \/ "memory" \in Faults /\ stage' = "failed"
    /\ UNCHANGED <<line, band, clock, conn, wire>>

SendPreamble ==
    /\ stage = "PREAMBLE"
    /\ Send(Preamble[Len(wire) + 1])
    /\ stage' = IF Len(wire) + 1 < Len(Preamble) THEN "PREAMBLE" ELSE "line"
    /\ UNCHANGED <<line, band, clock, conn>>

\* Mutant: the comparison is strict.
TelemetryDueLate == timestamp - last_telemetry > TelemetryInterval
TelemetryDue == timestamp - last_telemetry >= TelemetryInterval

\* Mutant: a line that does not load ends the loop, not the session.
AfterLoadBreaks(loaded) ==
    IF ~loaded THEN "FINAL_TELEMETRY"
    ELSE IF TelemetryDue THEN "IMAGER_TELEMETRY" ELSE "EXPOSURE_START"
AfterLoad(loaded) ==
    CASE ~loaded                -> "failed"
      [] loaded /\ TelemetryDue -> "IMAGER_TELEMETRY"
      [] OTHER                  -> "EXPOSURE_START"

LoadLine ==
    /\ stage = "line" /\ line < scene.n_lines
    /\ \/ stage' = AfterLoad(LineLoads(SceneDir, line, scene))
       \/ "files" \in Faults /\ stage' = AfterLoad(FALSE)
    /\ UNCHANGED <<line, band, clock, conn, wire>>

LinesDone ==
    /\ stage = "line" /\ line >= scene.n_lines
    /\ stage' = "FINAL_TELEMETRY"
    /\ UNCHANGED <<line, band, clock, conn, wire>>

SendTelemetry ==
    /\ stage = "IMAGER_TELEMETRY"
    /\ Send(Telemetry(timestamp))
    /\ last_telemetry' = timestamp
    /\ stage' = "EXPOSURE_START"
    /\ UNCHANGED <<line, band, timestamp, conn>>

SendExposureStart ==
    /\ stage = "EXPOSURE_START"
    /\ Send(ExposureStart(timestamp))
    /\ band' = 0
    /\ stage' = "LINE_DATA"
    /\ UNCHANGED <<line, clock, conn>>

\* The pixels are abstracted to where they are read from: the interleaving the
\* line is read with and the band picked out of it.
SendLineData ==
    /\ stage = "LINE_DATA" /\ LineFits
    /\ Send(LineData(band, line, [stride |-> SrcBands, from |-> SourceBand(band)]))
    /\ UNCHANGED <<last_telemetry, conn>>
    /\ \/ /\ band + 1 < n_bands
          /\ band' = band + 1
          /\ UNCHANGED <<stage, line, timestamp>>
       \/ /\ band + 1 >= n_bands
          /\ line' = line + 1 /\ timestamp' = timestamp + LinePeriod
          /\ stage' = "line"
          /\ UNCHANGED band

SendFinalTelemetry ==
    /\ stage = "FINAL_TELEMETRY"
    /\ Send(Telemetry(timestamp))
    /\ stage' = "SESSION_END"
    /\ UNCHANGED <<line, band, clock, conn>>

SendSessionEnd ==
    /\ stage = "SESSION_END"
    /\ Send(SessionEnd(session_id))
    /\ stage' = "done"
    /\ UNCHANGED <<line, band, clock, conn>>

\* Mutant: a packet that cannot be sent ends the line, not the session.
SendFailsBreaks ==
    /\ stage \in SendStages
    /\ \/ stage = "LINE_DATA" /\ ~LineFits
       \/ conn = "gone"
    /\ stage' = "EXPOSURE_START"
    /\ UNCHANGED <<line, band, clock, conn, wire>>

\* The serializer returns 0, or send returns -1.
SendFails ==
    /\ stage \in SendStages
    /\ \/ stage = "LINE_DATA" /\ ~LineFits
       \/ conn = "gone"
    /\ stage' = "failed"
    /\ UNCHANGED <<line, band, clock, conn, wire>>

StreamStep ==
    /\ \/ Allocate \/ SendPreamble \/ LoadLine \/ LinesDone \/ SendTelemetry
       \/ SendExposureStart \/ SendLineData \/ SendFinalTelemetry
       \/ SendSessionEnd \/ SendFails
    /\ UNCHANGED arguments

Hangup ==
    /\ "hangup" \in Faults /\ conn = "open"
    /\ conn' = "gone"
    /\ UNCHANGED <<stage, line, band, clock, wire>>
=============================================================================
