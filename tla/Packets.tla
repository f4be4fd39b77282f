------------------------------ MODULE Packets ------------------------------
(***************************************************************************)
(* The ICD packets the emulator writes (src/packets/serializer.c): how many *)
(* bytes a serializer writes into a buffer, and the payload fields a reader  *)
(* of the stream depends on.  Every packet is an 8-byte header, a payload    *)
(* padded where its serializer pads it, and a 4-byte CRC.                    *)
(***************************************************************************)
EXTENDS Integers, Sequences

CONSTANT MaxBands    \* XS_MAX_BANDS: the length of every per-band array

\* The ranges of uint8_t, uint16_t and the 3-byte fields of xs_encode_u24.
U8  == 256
U16 == 65536
U24 == 16777216

ASSUME MaxBandsAssumption == MaxBands \in Nat \ {0} /\ MaxBands < U8

BandSlots == 0 .. MaxBands - 1
Byte      == 0 .. U8 - 1
Word      == 0 .. U16 - 1

HeaderSize == 8
FooterSize == 4

Padded(n) == ((n + 3) \div 4) * 4

PacketSize(payload) == HeaderSize + payload + FooterSize

\* Every serializer: 0 when the packet does not fit, else the packet's size.
Written(room, payload) ==
    IF room < PacketSize(payload) THEN 0 ELSE PacketSize(payload)

SessionStartPayload  == 12
SessionEndPayload    == 4
SceneStartPayload    == 12
ExposureStartPayload == 8
TelemetryPayload     == 12
ImagerInfoPayload    == 12
TimeSyncPayload      == 20
LineDataPayload(pixelBytes) == Padded(12 + pixelBytes)
ImagerConfigPayload(n)      == Padded(12 + n + 2 + n * 2 + n * 2 + 1)

(***************************************************************************)
(* Packets as they stand on the wire.                                        *)
(***************************************************************************)
SessionStart(session)      == [id |-> "SESSION_START", session_id |-> session]
ImagerInfo                 == [id |-> "IMAGER_INFO"]
ImagerConfig(wavelengths)  == [id |-> "IMAGER_CONFIG",
                               spectral_bands |-> Len(wavelengths),
                               wavelengths |-> wavelengths]
TimeSync                   == [id |-> "TIME_SYNC"]
SceneStart(height, width)  == [id |-> "SCENE_START",
                               scene_height |-> height % U24, scene_width |-> width]
Telemetry(time)            == [id |-> "IMAGER_TELEMETRY", imager_time |-> time]
ExposureStart(time)        == [id |-> "EXPOSURE_START", imager_time |-> time]
LineData(b, line, pixels)  == [id |-> "LINE_DATA", spectral_band |-> b,
                               line_number |-> line % U24, pixels |-> pixels]
SessionEnd(session)        == [id |-> "SESSION_END", session_id |-> session]
=============================================================================
