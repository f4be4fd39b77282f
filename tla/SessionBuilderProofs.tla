------------------------ MODULE SessionBuilderProofs ------------------------
(***************************************************************************)
(* xs_session_size is enough for xs_build_session, for every configuration,   *)
(* buffer, telemetry interval and line period: no serializer call that         *)
(* follows the size check can run out of room.  What it writes is a session of  *)
(* IcdSession, in order, on cadence, and whole; and in the bytes it wrote both    *)
(* readers find its packets, however reads cut them.                         *)
(***************************************************************************)
EXTENDS SessionReader, TLAPS

(***************************************************************************)
(* Arithmetic the size argument rests on.                                    *)
(***************************************************************************)
\* Multiplication distributes over a successor.
LEMMA MulSucc ==
    ASSUME NEW a \in Nat, NEW c \in Nat
    PROVE  /\ a * c \in Nat
           /\ (a + 1) * c = a * c + c
  OBVIOUS

\* Multiplication is monotone.
LEMMA MulMono ==
    ASSUME NEW a \in Nat, NEW b \in Nat, NEW c \in Nat, a <= b
    PROVE  a * c <= b * c
<1>1. PICK d \in Nat : b = a + d
  <2>1. b - a \in Nat /\ b = a + (b - a)
    OBVIOUS
  <2> QED BY <2>1
<1>2. b * c = a * c + d * c
  BY <1>1
<1>3. d * c \in Nat /\ a * c \in Nat
  BY MulSucc
<1> QED BY <1>2, <1>3

\* A multiple of d that is at most n counts at most n \div d times d.
LEMMA DivBound ==
    ASSUME NEW n \in Nat, NEW d \in Nat \ {0}, NEW q \in Nat, q * d <= n
    PROVE  /\ n \div d \in Nat
           /\ q <= n \div d
<1> DEFINE k == n \div d
<1>1. k \in Nat /\ n < (k + 1) * d
  OBVIOUS
<1>2. CASE q >= k + 1
  <2>1. (k + 1) * d <= q * d
    BY <1>1, <1>2, MulMono
  <2>2. (k + 1) * d \in Nat /\ q * d \in Nat
    BY <1>1, MulSucc
  <2> QED BY <2>1, <2>2, <1>1
<1>3. CASE q <= k
  BY <1>1, <1>3
<1> QED BY <1>1, <1>2, <1>3

(***************************************************************************)
(* Sizes.                                                                    *)
(***************************************************************************)
\* Every part of the estimate is a natural number, and what the serializers
\* write is what the estimate allows for it.
LEMMA Sizes ==
    ASSUME NEW c \in Configs
    PROVE  /\ PixelBytes(c) \in Nat /\ LinePeriodOf(c) \in Nat /\ c.n_lines \in Nat
           /\ LineDataSize(c) \in Nat /\ LineDataSize(c) > 0
           /\ LineDataSize(c) = PacketSize(LineDataPayload(PixelBytes(c)))
           /\ c.n_bands \in 1 .. MaxBands /\ c.n_bands * LineDataSize(c) \in Nat
           /\ PerLine(c) \in Nat /\ c.n_lines * PerLine(c) \in Nat
           /\ PacketSize(ImagerConfigPayload(c.n_bands)) \in Nat
           /\ OpeningSize(c) = 104 + PacketSize(ImagerConfigPayload(c.n_bands))
           /\ OpeningSize(c) \in Nat
           /\ TelemetryAllowance(c) \in Nat
           /\ SessionSize(c) = OpeningSize(c) + c.n_lines * PerLine(c)
                               + TelemetryAllowance(c) * 24 + 16
           /\ SessionSize(c) \in Nat
<1>1. /\ c.n_bands \in 1 .. MaxBands /\ c.n_lines \in Nat /\ c.width \in Nat
      /\ c.line_period_us \in Nat /\ c.n_bands \in Nat
  <2>1. c \in ConfigType
    BY BuilderAssumption
  <2>2. c.n_bands \in 1 .. MaxBands /\ c.n_lines \in Nat /\ c.width \in Word
        /\ c.line_period_us \in Nat
    BY <2>1 DEF ConfigType
  <2>3. MaxBands \in Nat /\ Word \subseteq Nat
    BY MaxBandsAssumption DEF Word
  <2>4. c.n_bands \in Nat
    BY <2>2, <2>3
  <2> QED BY <2>2, <2>3, <2>4
<1>2. PixelBytes(c) \in Nat
  BY <1>1 DEF PixelBytes
<1>3. LinePeriodOf(c) \in Nat
  BY <1>1, BuilderAssumption DEF LinePeriodOf
<1>4. /\ LineDataSize(c) \in Nat /\ LineDataSize(c) > 0
      /\ LineDataSize(c) = PacketSize(LineDataPayload(PixelBytes(c)))
  BY <1>2 DEF LineDataSize, PacketSize, Padded, HeaderSize, FooterSize, LineDataPayload
<1>5. c.n_bands * LineDataSize(c) \in Nat
  BY <1>1, <1>4, MulSucc
<1>6. PerLine(c) \in Nat
  BY <1>5 DEF PerLine, PacketSize, HeaderSize, FooterSize
<1>7. c.n_lines * PerLine(c) \in Nat
  BY <1>1, <1>6, MulSucc
<1>8. /\ PacketSize(ImagerConfigPayload(c.n_bands)) \in Nat
      /\ OpeningSize(c) = 104 + PacketSize(ImagerConfigPayload(c.n_bands))
      /\ OpeningSize(c) \in Nat
  BY <1>1 DEF PacketSize, ImagerConfigPayload, Padded, HeaderSize, FooterSize, OpeningSize
<1>9. TelemetryAllowance(c) \in Nat
  <2>1. c.n_lines * LinePeriodOf(c) \in Nat
    BY <1>1, <1>3, MulSucc
  <2> QED BY <2>1, BuilderAssumption DEF TelemetryAllowance
<1>10. /\ SessionSize(c) = OpeningSize(c) + c.n_lines * PerLine(c)
                            + TelemetryAllowance(c) * 24 + 16
       /\ SessionSize(c) \in Nat
  BY <1>7, <1>8, <1>9 DEF SessionSize, PacketSize, HeaderSize, FooterSize
<1> QED BY <1>1, <1>2, <1>3, <1>4, <1>5, <1>6, <1>7, <1>8, <1>9, <1>10

(***************************************************************************)
(* The inductive invariant.  EstimateSuffices alone is not inductive: that     *)
(* the next packet fits follows from where pos stands at each stage            *)
(* (Position), and that from how many telemetry packets the elapsed imager      *)
(* time can have called for (Clock).                                         *)
(***************************************************************************)
\* Bytes of the opening, of the complete lines and of the telemetry so far.
Base == OpeningSize(cfg) + line * PerLine(cfg) + telemetries * 24

ConfigEnd == 48 + PacketSize(ImagerConfigPayload(cfg.n_bands))

Position ==
    CASE stage \in {"size", "refused", "SESSION_START"} -> pos = 0
      [] stage = "IMAGER_INFO"    -> pos = 24
      [] stage = "IMAGER_CONFIG"  -> pos = 48
      [] stage = "TIME_SYNC"      -> pos = ConfigEnd
      [] stage = "SCENE_START"    -> pos = ConfigEnd + 32
      [] stage = "LINE_DATA"      -> pos = Base + 20 + band * LineDataSize(cfg)
      [] stage = "SESSION_END"    -> pos = Base + 24
      [] stage = "done"           -> pos = Base + 40
      [] OTHER                    -> pos = Base

BeforeLines == OpeningStages \cup {"size", "refused", "malloc", "nomem"}
InLine      == {"IMAGER_TELEMETRY", "EXPOSURE_START", "LINE_DATA"}

\* Each telemetry between lines answers for an interval of imager time that had
\* passed, and imager time is the lines sent times the line period.
Clock ==
    /\ timestamp = line * LinePeriodOf(cfg)
    /\ telemetries * TelemetryInterval <= last_telemetry_time
    /\ last_telemetry_time <= timestamp
    /\ stage = "IMAGER_TELEMETRY" => timestamp - last_telemetry_time >= TelemetryInterval
    /\ stage \in BeforeLines => line = 0 /\ telemetries = 0
    /\ stage \in InLine => line < cfg.n_lines

SizeInv ==
    /\ TypeOK
    /\ Clock
    /\ Position
    /\ stage # "failed"
    /\ stage \notin {"size", "refused"} => buf_size >= SessionSize(cfg)

(***************************************************************************)
(* Room.                                                                     *)
(***************************************************************************)
\* A serializer that has room writes its packet and the code goes on.
LEMMA EmitFits ==
    ASSUME NEW payload \in Nat, NEW packet, NEW next, Emit(payload, packet, next),
           pos \in Nat, buf_size \in Nat, pos + PacketSize(payload) <= buf_size
    PROVE  /\ pos' = pos + PacketSize(payload)
           /\ stage' = next
<1>1. PacketSize(payload) \in Nat /\ PacketSize(payload) > 0
  BY DEF PacketSize, HeaderSize, FooterSize
<1>2. Written(buf_size - pos, payload) = PacketSize(payload)
  BY <1>1 DEF Written
<1> QED BY <1>1, <1>2 DEF Emit

\* The allowance covers the telemetry sent so far and two packets more, and three
\* more when an interval has passed since the last one.
LEMMA TelemetryRoom ==
    ASSUME SizeInv
    PROVE  /\ telemetries + 2 <= TelemetryAllowance(cfg)
           /\ stage = "IMAGER_TELEMETRY" => telemetries + 3 <= TelemetryAllowance(cfg)
<1> DEFINE lp == LinePeriodOf(cfg)
           total == cfg.n_lines * lp
<1>1. /\ cfg \in Configs /\ telemetries \in Nat /\ last_telemetry_time \in Nat
      /\ timestamp \in Nat /\ line \in 0 .. cfg.n_lines
      /\ TelemetryInterval \in Nat \ {0}
  BY BuilderAssumption DEF SizeInv, TypeOK
<1>2. lp \in Nat /\ cfg.n_lines \in Nat
  BY <1>1, Sizes
<1>3. total \in Nat /\ telemetries * TelemetryInterval \in Nat
      /\ (telemetries + 1) * TelemetryInterval
             = telemetries * TelemetryInterval + TelemetryInterval
  BY <1>1, <1>2, MulSucc
<1>4. timestamp <= total
  <2>1. line \in Nat /\ line <= cfg.n_lines
    BY <1>1, <1>2
  <2>2. line * lp <= cfg.n_lines * lp
    BY <1>2, <2>1, MulMono
  <2> QED BY <2>2 DEF SizeInv, Clock
<1>5. telemetries * TelemetryInterval <= total
  BY <1>1, <1>3, <1>4 DEF SizeInv, Clock
<1>6. total \div TelemetryInterval \in Nat /\ telemetries <= total \div TelemetryInterval
  <2> HIDE DEF total
  <2> QED BY <1>1, <1>3, <1>5, DivBound
<1>7. TelemetryAllowance(cfg) = (total \div TelemetryInterval) + 2
  BY DEF TelemetryAllowance
<1>8. ASSUME stage = "IMAGER_TELEMETRY"
      PROVE  telemetries + 1 <= total \div TelemetryInterval
  <2>1. (telemetries + 1) * TelemetryInterval <= total
    BY <1>1, <1>3, <1>4, <1>8 DEF SizeInv, Clock
  <2> HIDE DEF total
  <2> QED BY <1>1, <1>3, <2>1, DivBound
<1> HIDE DEF total, lp
<1> QED BY <1>1, <1>6, <1>7, <1>8

\* Whatever stage writes next, what it writes ends within the estimate.
LEMMA Room ==
    ASSUME SizeInv
    PROVE  /\ Base + 64 <= SessionSize(cfg)
           /\ stage = "IMAGER_TELEMETRY" => Base + 88 <= SessionSize(cfg)
           /\ stage \in InLine => Base + PerLine(cfg) + 64 <= SessionSize(cfg)
<1> DEFINE PL == PerLine(cfg)
<1>1. /\ cfg \in Configs /\ telemetries \in Nat /\ line \in Nat /\ line <= cfg.n_lines
  <2>1. cfg \in Configs /\ telemetries \in Nat /\ line \in 0 .. cfg.n_lines
    BY DEF SizeInv, TypeOK
  <2> QED BY <2>1, Sizes
<1>2. /\ PL \in Nat /\ cfg.n_lines \in Nat /\ OpeningSize(cfg) \in Nat
      /\ TelemetryAllowance(cfg) \in Nat /\ cfg.n_lines * PL \in Nat
      /\ SessionSize(cfg) = OpeningSize(cfg) + cfg.n_lines * PL
                            + TelemetryAllowance(cfg) * 24 + 16
  BY <1>1, Sizes
<1>3. line * PL \in Nat /\ (line + 1) * PL = line * PL + PL
  BY <1>1, <1>2, MulSucc
<1>4. line * PL <= cfg.n_lines * PL
  BY <1>1, <1>2, MulMono
<1>5. ASSUME stage \in InLine
      PROVE  line * PL + PL <= cfg.n_lines * PL
  <2>1. line + 1 <= cfg.n_lines
    BY <1>1, <1>2, <1>5 DEF SizeInv, Clock
  <2>2. (line + 1) * PL <= cfg.n_lines * PL
    BY <1>1, <1>2, <2>1, MulMono
  <2> QED BY <2>2, <1>3
<1>6. Base = OpeningSize(cfg) + line * PL + telemetries * 24
  BY DEF Base
<1> HIDE DEF PL
<1>7. Base + 64 <= SessionSize(cfg)
  BY <1>1, <1>2, <1>3, <1>4, <1>6, TelemetryRoom
<1>8. stage = "IMAGER_TELEMETRY" => Base + 88 <= SessionSize(cfg)
  BY <1>1, <1>2, <1>3, <1>4, <1>6, TelemetryRoom
<1>9. stage \in InLine => Base + PL + 64 <= SessionSize(cfg)
  BY <1>1, <1>2, <1>3, <1>5, <1>6, TelemetryRoom
<1> QED BY <1>7, <1>8, <1>9 DEF PL

(***************************************************************************)
(* The invariant is inductive: one step per action.                          *)
(***************************************************************************)
\* What every step may use of the state before it.
LEMMA Facts ==
    ASSUME SizeInv
    PROVE  /\ cfg \in Configs /\ buf_size \in Nat /\ pos \in Nat
           /\ line \in Nat /\ line <= cfg.n_lines /\ band \in Nat
           /\ band + 1 <= cfg.n_bands
           /\ timestamp \in Nat /\ last_telemetry_time \in Nat /\ telemetries \in Nat
           /\ cfg.n_bands \in Nat /\ cfg.n_lines \in Nat
<1>1. /\ cfg \in Configs /\ buf_size \in BufSizes(cfg) /\ pos \in Nat
      /\ line \in 0 .. cfg.n_lines /\ band \in 0 .. cfg.n_bands - 1
      /\ timestamp \in Nat /\ last_telemetry_time \in Nat /\ telemetries \in Nat
  BY DEF SizeInv, TypeOK
<1>2. buf_size \in Nat
  BY <1>1, BuilderAssumption
<1>3. cfg.n_bands \in 1 .. MaxBands /\ MaxBands \in Nat /\ cfg.n_lines \in Nat
  BY <1>1, Sizes, MaxBandsAssumption
<1>4. cfg.n_bands \in Nat
  BY <1>3
<1> QED BY <1>1, <1>2, <1>3, <1>4

\* The session starts with nothing written.
LEMMA SizeInit == Init => SizeInv
<1> SUFFICES ASSUME Init PROVE SizeInv
  OBVIOUS
<1>1. cfg \in Configs /\ buf_size \in BufSizes(cfg)
  BY DEF Init
<1>2. /\ LinePeriodOf(cfg) \in Nat /\ cfg.n_lines \in Nat /\ cfg.n_bands \in 1 .. MaxBands
      /\ MaxBands \in Nat /\ TelemetryInterval \in Nat
  BY <1>1, Sizes, MaxBandsAssumption, BuilderAssumption
<1>3. TypeOK
  BY <1>1, <1>2 DEF Init, TypeOK, Stages
<1>4. Clock
  BY <1>2 DEF Init, Clock, InLine
<1>5. Position
  BY DEF Init, Position
<1> QED BY <1>3, <1>4, <1>5 DEF SizeInv, Init

\* A step that changes neither the counters of the loop nor the arguments keeps
\* the types and the clock, if the stage it goes to asks no more of them.
LEMMA SameClock ==
    ASSUME SizeInv,
           UNCHANGED <<args, line, timestamp, last_telemetry_time, telemetries>>,
           stage' \in Stages, pos' \in Nat, band' \in 0 .. cfg.n_bands - 1,
           stage' = "IMAGER_TELEMETRY" =>
               timestamp - last_telemetry_time >= TelemetryInterval,
           stage' \in BeforeLines => stage \in BeforeLines,
           stage' \in InLine => line < cfg.n_lines
    PROVE  TypeOK' /\ Clock'
<1>1. TypeOK'
  BY DEF SizeInv, TypeOK, args
<1>2. Clock'
  BY DEF SizeInv, Clock, args, LinePeriodOf
<1> QED BY <1>1, <1>2

\* Every step keeps the invariant of the sizes.
LEMMA SizeStep == SizeInv /\ [Next]_vars => SizeInv'
<1> SUFFICES ASSUME SizeInv, [Next]_vars PROVE SizeInv'
  OBVIOUS
<1> USE Facts
<1>0. /\ pos \in Nat /\ buf_size \in Nat /\ stage \in Stages /\ stage # "failed"
      /\ band \in 0 .. cfg.n_bands - 1
  BY DEF SizeInv, TypeOK
<1>sizes. /\ LineDataSize(cfg) \in Nat /\ PerLine(cfg) \in Nat
          /\ PerLine(cfg) = 20 + cfg.n_bands * LineDataSize(cfg)
          /\ cfg.n_bands * LineDataSize(cfg) \in Nat
          /\ OpeningSize(cfg) = 56 + ConfigEnd /\ ConfigEnd \in Nat
          /\ ConfigEnd = 48 + PacketSize(ImagerConfigPayload(cfg.n_bands))
          /\ Base \in Nat /\ SessionSize(cfg) \in Nat
          /\ Base + 64 <= SessionSize(cfg)
  <2>1. line * PerLine(cfg) \in Nat
    BY Sizes, MulSucc
  <2> QED
    BY <2>1, Sizes, Room DEF PerLine, PacketSize, HeaderSize, FooterSize, ConfigEnd, Base
<1>stay. ASSUME UNCHANGED <<args, line, telemetries>>
         PROVE  /\ Base' = Base /\ ConfigEnd' = ConfigEnd
                /\ SessionSize(cfg)' = SessionSize(cfg)
                /\ LineDataSize(cfg)' = LineDataSize(cfg)
  BY <1>stay DEF Base, ConfigEnd, args
<1>1. CASE CheckSize
  <2>1. /\ stage = "size" /\ pos = 0 /\ pos' = pos
        /\ stage' \in {"refused", "SESSION_START"}
        /\ stage' = "SESSION_START" => buf_size >= SessionSize(cfg)
        /\ UNCHANGED <<args, line, band, timestamp, last_telemetry_time, telemetries>>
    BY <1>1, <1>sizes DEF CheckSize, SizeInv, Position
  <2>2. TypeOK' /\ Clock'
    BY <2>1, <1>0, SameClock DEF Stages, BeforeLines, InLine, OpeningStages
  <2>3. Position'
    BY <2>1 DEF Position
  <2> QED BY <2>1, <2>2, <2>3, <1>stay DEF SizeInv, args
<1>2. CASE EmitOpening
  <2>0. /\ UNCHANGED <<args, line, band, timestamp, last_telemetry_time, telemetries>>
        /\ stage \in OpeningStages
    BY <1>2 DEF EmitOpening, OpeningStages
  <2>1. /\ buf_size >= SessionSize(cfg) /\ Base = OpeningSize(cfg)
        /\ buf_size \in Nat
    <3>1. /\ buf_size >= SessionSize(cfg) /\ line = 0 /\ telemetries = 0
      BY <2>0 DEF SizeInv, Clock, OpeningStages, BeforeLines
    <3>2. OpeningSize(cfg) \in Nat /\ PerLine(cfg) \in Nat
      BY Sizes
    <3> QED BY <3>1, <3>2 DEF Base
  <2>2. /\ pos' \in Nat
        /\ \/ stage' = "IMAGER_INFO" /\ pos' = 24
           \/ stage' = "IMAGER_CONFIG" /\ pos' = 48
           \/ stage' = "TIME_SYNC" /\ pos' = ConfigEnd
           \/ stage' = "SCENE_START" /\ pos' = ConfigEnd + 32
           \/ stage' = "malloc" /\ pos' = Base
    <3>1. CASE stage = "SESSION_START"
      <4>1. pos = 0 /\ PacketSize(SessionStartPayload) = 24 /\ SessionStartPayload \in Nat
        BY <3>1 DEF SizeInv, Position, PacketSize, SessionStartPayload, HeaderSize, FooterSize
      <4>2. Emit(SessionStartPayload, SessionStart(cfg.session_id), "IMAGER_INFO")
        BY <1>2, <3>1 DEF EmitOpening
      <4> QED BY <4>1, <4>2, <2>1, <1>sizes, EmitFits
    <3>2. CASE stage = "IMAGER_INFO"
      <4>1. pos = 24 /\ PacketSize(ImagerInfoPayload) = 24 /\ ImagerInfoPayload \in Nat
        BY <3>2 DEF SizeInv, Position, PacketSize, ImagerInfoPayload, HeaderSize, FooterSize
      <4>2. Emit(ImagerInfoPayload, ImagerInfo, "IMAGER_CONFIG")
        BY <1>2, <3>2 DEF EmitOpening
      <4> QED BY <4>1, <4>2, <2>1, <1>sizes, EmitFits
    <3>3. CASE stage = "IMAGER_CONFIG"
      <4>1. pos = 48 /\ ImagerConfigPayload(cfg.n_bands) \in Nat
        BY <3>3 DEF SizeInv, Position, ImagerConfigPayload, Padded
      <4>2. Emit(ImagerConfigPayload(cfg.n_bands), ImagerConfig(Wavelengths), "TIME_SYNC")
        BY <1>2, <3>3 DEF EmitOpening
      <4>3. PacketSize(ImagerConfigPayload(cfg.n_bands)) \in Nat
        BY Sizes
      <4> QED BY <4>1, <4>2, <4>3, <2>1, <1>sizes, EmitFits
    <3>4. CASE stage = "TIME_SYNC"
      <4>1. pos = ConfigEnd /\ PacketSize(TimeSyncPayload) = 32 /\ TimeSyncPayload \in Nat
        BY <3>4 DEF SizeInv, Position, PacketSize, TimeSyncPayload, HeaderSize, FooterSize
      <4>2. Emit(TimeSyncPayload, TimeSync, "SCENE_START")
        BY <1>2, <3>4 DEF EmitOpening
      <4> QED BY <4>1, <4>2, <2>1, <1>sizes, EmitFits
    <3>5. CASE stage = "SCENE_START"
      <4>1. /\ pos = ConfigEnd + 32 /\ PacketSize(SceneStartPayload) = 24
            /\ SceneStartPayload \in Nat
        BY <3>5 DEF SizeInv, Position, PacketSize, SceneStartPayload, HeaderSize, FooterSize
      <4>2. Emit(SceneStartPayload, SceneStart(cfg.n_lines, cfg.width), "malloc")
        BY <1>2, <3>5 DEF EmitOpening
      <4> QED BY <4>1, <4>2, <2>1, <1>sizes, EmitFits
    <3> QED BY <2>0, <3>1, <3>2, <3>3, <3>4, <3>5 DEF OpeningStages
  <2>3. TypeOK' /\ Clock'
    BY <2>0, <2>2, <1>0, SameClock DEF Stages, BeforeLines, InLine, OpeningStages
  <2>4. Position'
    BY <2>0, <2>2, <1>stay DEF Position
  <2> QED BY <2>0, <2>1, <2>2, <2>3, <2>4, <1>stay DEF SizeInv, args
<1>3. CASE AllocatePixels
  <2>1. /\ stage = "malloc" /\ stage' \in {"line", "nomem"} /\ pos' = pos
        /\ UNCHANGED <<args, line, band, timestamp, last_telemetry_time, telemetries>>
    BY <1>3 DEF AllocatePixels
  <2>2. TypeOK' /\ Clock'
    BY <2>1, <1>0, SameClock DEF Stages, BeforeLines, InLine, OpeningStages
  <2>3. Position'
    BY <2>1, <1>stay DEF SizeInv, Position
  <2> QED BY <2>1, <2>2, <2>3, <1>stay DEF SizeInv, args
<1>4. CASE NextLine
  <2>1. /\ stage = "line" /\ pos' = pos
        /\ stage' \in {"FINAL_TELEMETRY", "IMAGER_TELEMETRY", "EXPOSURE_START"}
        /\ stage' \in InLine => line < cfg.n_lines
        /\ stage' = "IMAGER_TELEMETRY"
               => timestamp - last_telemetry_time >= TelemetryInterval
        /\ UNCHANGED <<args, line, band, timestamp, last_telemetry_time, telemetries>>
    BY <1>4 DEF NextLine, NoMoreLines, TelemetryDue, InLine
  <2>2. TypeOK' /\ Clock'
    BY <2>1, <1>0, SameClock DEF Stages, BeforeLines, OpeningStages
  <2>3. Position'
    BY <2>1, <1>stay DEF SizeInv, Position
  <2> QED BY <2>1, <2>2, <2>3, <1>stay DEF SizeInv, args
<1>10. CASE Finished \/ UNCHANGED vars
  <2>1. UNCHANGED <<args, stage, pos, line, band, timestamp, last_telemetry_time, telemetries>>
    BY <1>10 DEF Finished, vars
  <2>2. TypeOK' /\ Clock'
    BY <2>1, <1>0, SameClock DEF SizeInv, Clock
  <2>3. Position'
    BY <2>1, <1>stay DEF SizeInv, Position
  <2> QED BY <2>1, <2>2, <2>3, <1>stay DEF SizeInv, args
<1>fits. stage \notin {"size", "refused"} => buf_size >= SessionSize(cfg)
  BY DEF SizeInv
<1>5. CASE EmitTelemetry
  <2>1. /\ stage = "IMAGER_TELEMETRY" /\ last_telemetry_time' = timestamp
        /\ telemetries' = telemetries + 1 /\ UNCHANGED <<args, line, band, timestamp>>
        /\ Emit(TelemetryPayload, Telemetry(timestamp), "EXPOSURE_START")
    BY <1>5 DEF EmitTelemetry
  <2>2. pos = Base /\ PacketSize(TelemetryPayload) = 24 /\ TelemetryPayload \in Nat
    BY <2>1 DEF SizeInv, Position, PacketSize, TelemetryPayload, HeaderSize, FooterSize
  <2>3. stage' = "EXPOSURE_START" /\ pos' = Base + 24
    BY <2>1, <2>2, <1>sizes, <1>fits, EmitFits
  <2>4. TypeOK'
    BY <2>1, <2>3, <1>sizes DEF SizeInv, TypeOK, Stages, args
  <2>5. Clock'
    <3>1. /\ (telemetries + 1) * TelemetryInterval
               = telemetries * TelemetryInterval + TelemetryInterval
          /\ telemetries * TelemetryInterval \in Nat /\ TelemetryInterval \in Nat
      BY MulSucc, BuilderAssumption
    <3>2. telemetries' * TelemetryInterval <= last_telemetry_time'
      BY <2>1, <3>1 DEF SizeInv, Clock
    <3>3. line < cfg.n_lines
      BY <2>1 DEF SizeInv, Clock, InLine
    <3> QED
      BY <2>1, <2>3, <3>2, <3>3
      DEF SizeInv, Clock, args, LinePeriodOf, BeforeLines, OpeningStages
  <2>6. Position'
    <3>1. Base' = Base + 24
      <4>1. OpeningSize(cfg) \in Nat /\ line * PerLine(cfg) \in Nat
        BY Sizes, MulSucc
      <4> QED BY <2>1, <4>1 DEF Base, args
    <3> QED BY <2>3, <3>1 DEF Position
  <2>7. SessionSize(cfg)' = SessionSize(cfg)
    BY <2>1 DEF args
  <2> QED BY <2>1, <2>3, <2>4, <2>5, <2>6, <2>7, <1>fits DEF SizeInv, args
<1>6. CASE EmitExposureStart
  <2>1. /\ stage = "EXPOSURE_START" /\ band' = 0
        /\ UNCHANGED <<args, line, timestamp, last_telemetry_time, telemetries>>
        /\ Emit(ExposureStartPayload, ExposureStart(timestamp), "LINE_DATA")
    BY <1>6 DEF EmitExposureStart
  <2>2. pos = Base /\ PacketSize(ExposureStartPayload) = 20 /\ ExposureStartPayload \in Nat
    BY <2>1 DEF SizeInv, Position, PacketSize, ExposureStartPayload, HeaderSize, FooterSize
  <2>3. stage' = "LINE_DATA" /\ pos' = Base + 20
    BY <2>1, <2>2, <1>sizes, <1>fits, EmitFits
  <2>4. line < cfg.n_lines
    BY <2>1 DEF SizeInv, Clock, InLine
  <2>5. TypeOK' /\ Clock'
    BY <2>1, <2>3, <2>4, <1>0, <1>sizes, SameClock DEF Stages, BeforeLines, OpeningStages
  <2>6. Position'
    <3>1. band' * LineDataSize(cfg) = 0
      BY <2>1, <1>sizes
    <3> QED BY <2>1, <2>3, <3>1, <1>stay, <1>sizes DEF Position
  <2> QED BY <2>1, <2>3, <2>5, <2>6, <1>stay, <1>fits DEF SizeInv, args
<1>7. CASE EmitLineData
  <2> DEFINE LD == LineDataSize(cfg)
  <2>1. /\ stage = "LINE_DATA" /\ UNCHANGED <<args, last_telemetry_time, telemetries>>
        /\ Emit(LineDataPayload(PixelBytes(cfg)),
                LineData(band, line, [stride |-> SrcBands, from |-> SourceBand(band)]),
                IF LastBand THEN "line" ELSE "LINE_DATA")
        /\ band' = IF LastBand THEN 0 ELSE band + 1
        /\ line' = IF LastBand THEN line + 1 ELSE line
        /\ timestamp' = IF LastBand THEN timestamp + LinePeriodOf(cfg) ELSE timestamp
    BY <1>7 DEF EmitLineData
  <2>2. /\ pos = Base + 20 + band * LD /\ LD = PacketSize(LineDataPayload(PixelBytes(cfg)))
        /\ LineDataPayload(PixelBytes(cfg)) \in Nat
    <3>1. pos = Base + 20 + band * LD
      BY <2>1 DEF SizeInv, Position
    <3> HIDE DEF LD
    <3>2. LD = PacketSize(LineDataPayload(PixelBytes(cfg))) /\ PixelBytes(cfg) \in Nat
      BY Sizes DEF LD
    <3>3. LineDataPayload(PixelBytes(cfg)) \in Nat
      BY <3>2 DEF LineDataPayload, Padded
    <3> QED BY <3>1, <3>2, <3>3
  <2>3. /\ band * LD \in Nat /\ (band + 1) * LD = band * LD + LD
        /\ (band + 1) * LD <= cfg.n_bands * LD
    BY <1>sizes, MulSucc, MulMono
  <2>4. Base + PerLine(cfg) + 64 <= SessionSize(cfg) /\ line < cfg.n_lines
    BY <2>1, Room DEF SizeInv, Clock, InLine
  <2>5. /\ pos' = Base + 20 + (band + 1) * LD
        /\ stage' = IF LastBand THEN "line" ELSE "LINE_DATA"
    <3> HIDE DEF LD
    <3>1. pos + LD <= buf_size
      BY <2>1, <2>2, <2>3, <2>4, <1>sizes, <1>fits DEF LD
    <3>2. pos + PacketSize(LineDataPayload(PixelBytes(cfg))) <= buf_size
      BY <2>2, <3>1
    <3>3. /\ pos' = pos + PacketSize(LineDataPayload(PixelBytes(cfg)))
          /\ stage' = IF LastBand THEN "line" ELSE "LINE_DATA"
      BY <2>1, <2>2, <3>2, EmitFits
    <3>4. LD \in Nat /\ Base \in Nat /\ band * LD \in Nat
      BY <1>sizes, <2>3 DEF LD
    <3>5. pos' = (Base + 20 + band * LD) + LD
      BY <2>2, <3>3
    <3>6. pos' = Base + 20 + (band + 1) * LD
      BY <2>3, <3>4, <3>5
    <3> QED BY <3>3, <3>6
  <2>6. CASE ~LastBand
    <3>1. /\ band' = band + 1 /\ UNCHANGED <<line, timestamp>> /\ stage' = "LINE_DATA"
          /\ band + 1 \in 0 .. cfg.n_bands - 1
      BY <2>1, <2>5, <2>6 DEF LastBand
    <3>2. pos' \in Nat
      BY <2>5, <2>3, <1>sizes
    <3>3. TypeOK' /\ Clock'
      BY <2>1, <2>4, <3>1, <3>2, SameClock DEF Stages, BeforeLines, OpeningStages
    <3>4. Position'
      BY <2>1, <2>5, <3>1, <1>stay DEF Position
    <3> QED BY <2>1, <3>1, <3>3, <3>4, <1>stay, <1>fits DEF SizeInv, args
  <2>7. CASE LastBand
    <3>1. /\ band' = 0 /\ line' = line + 1 /\ stage' = "line"
          /\ timestamp' = timestamp + LinePeriodOf(cfg) /\ band + 1 = cfg.n_bands
      BY <2>1, <2>5, <2>7 DEF LastBand
    <3>2. /\ LinePeriodOf(cfg) \in Nat
          /\ (line + 1) * LinePeriodOf(cfg) = line * LinePeriodOf(cfg) + LinePeriodOf(cfg)
          /\ (line + 1) * PerLine(cfg) = line * PerLine(cfg) + PerLine(cfg)
          /\ line * PerLine(cfg) \in Nat /\ OpeningSize(cfg) \in Nat
      BY Sizes, MulSucc
    <3>3. pos' = Base + PerLine(cfg) /\ pos' \in Nat
      BY <2>5, <3>1, <1>sizes
    <3>4. TypeOK'
      BY <2>1, <2>4, <3>1, <3>2, <3>3, <1>0 DEF SizeInv, TypeOK, Stages, args
    <3>5. Clock'
      BY <2>1, <3>1, <3>2
      DEF SizeInv, Clock, args, LinePeriodOf, InLine, BeforeLines, OpeningStages
    <3>6. Base' = Base + PerLine(cfg)
      <4>1. Base' = OpeningSize(cfg) + (line + 1) * PerLine(cfg) + telemetries * 24
        BY <2>1, <3>1 DEF Base, args
      <4> QED BY <3>2, <4>1, <1>sizes DEF Base
    <3>7. Position'
      BY <3>1, <3>3, <3>6 DEF Position
    <3>8. SessionSize(cfg)' = SessionSize(cfg)
      BY <2>1 DEF args
    <3> QED BY <2>1, <3>1, <3>4, <3>5, <3>7, <3>8, <1>fits DEF SizeInv, args
  <2> QED BY <2>6, <2>7
<1>8. CASE EmitFinalTelemetry
  <2>1. /\ stage = "FINAL_TELEMETRY"
        /\ Emit(TelemetryPayload, Telemetry(timestamp), "SESSION_END")
        /\ UNCHANGED <<args, line, band, timestamp, last_telemetry_time, telemetries>>
    BY <1>8 DEF EmitFinalTelemetry
  <2>2. pos = Base /\ PacketSize(TelemetryPayload) = 24 /\ TelemetryPayload \in Nat
    BY <2>1 DEF SizeInv, Position, PacketSize, TelemetryPayload, HeaderSize, FooterSize
  <2>3. stage' = "SESSION_END" /\ pos' = Base + 24
    BY <2>1, <2>2, <1>sizes, <1>fits, EmitFits
  <2>4. TypeOK' /\ Clock'
    BY <2>1, <2>3, <1>0, <1>sizes, SameClock DEF Stages, BeforeLines, InLine, OpeningStages
  <2>5. Position'
    BY <2>1, <2>3, <1>stay DEF Position
  <2> QED BY <2>1, <2>3, <2>4, <2>5, <1>stay, <1>fits DEF SizeInv, args
<1>9. CASE EmitSessionEnd
  <2>1. /\ stage = "SESSION_END"
        /\ Emit(SessionEndPayload, SessionEnd(cfg.session_id), "done")
        /\ UNCHANGED <<args, line, band, timestamp, last_telemetry_time, telemetries>>
    BY <1>9 DEF EmitSessionEnd
  <2>2. pos = Base + 24 /\ PacketSize(SessionEndPayload) = 16 /\ SessionEndPayload \in Nat
    BY <2>1 DEF SizeInv, Position, PacketSize, SessionEndPayload, HeaderSize, FooterSize
  <2>3. stage' = "done" /\ pos' = Base + 40
    BY <2>1, <2>2, <1>sizes, <1>fits, EmitFits
  <2>4. TypeOK' /\ Clock'
    BY <2>1, <2>3, <1>0, <1>sizes, SameClock DEF Stages, BeforeLines, InLine, OpeningStages
  <2>5. Position'
    BY <2>1, <2>3, <1>stay DEF Position
  <2> QED BY <2>1, <2>3, <2>4, <2>5, <1>stay, <1>fits DEF SizeInv, args
<1> QED BY <1>1, <1>2, <1>3, <1>4, <1>5, <1>6, <1>7, <1>8, <1>9, <1>10 DEF Next

(***************************************************************************)
(* Results.                                                                  *)
(***************************************************************************)
\* The invariant holds in every reachable state.
THEOREM SizeInvariant == Spec => []SizeInv
  BY SizeInit, SizeStep, PTL DEF Spec

\* Where pos stands, the invariant bounds it by the estimate.
LEMMA WithinEstimate == SizeInv => EstimateSuffices
<1> SUFFICES ASSUME SizeInv PROVE EstimateSuffices
  OBVIOUS
<1> USE Facts
<1>1. /\ Base + 64 <= SessionSize(cfg) /\ SessionSize(cfg) \in Nat
      /\ LineDataSize(cfg) \in Nat /\ PerLine(cfg) \in Nat /\ ConfigEnd \in Nat
      /\ PerLine(cfg) = 20 + cfg.n_bands * LineDataSize(cfg)
      /\ OpeningSize(cfg) = 56 + ConfigEnd
  BY Room, Sizes DEF PerLine, PacketSize, HeaderSize, FooterSize, ConfigEnd
<1>2. Base \in Nat /\ OpeningSize(cfg) <= Base
  <2>1. line * PerLine(cfg) \in Nat /\ OpeningSize(cfg) \in Nat
    BY Sizes, MulSucc
  <2> QED BY <2>1 DEF Base
<1>3. CASE stage = "LINE_DATA"
  <2>1. Base + PerLine(cfg) + 64 <= SessionSize(cfg)
    BY <1>3, Room DEF InLine
  <2>2. band <= cfg.n_bands
    OBVIOUS
  <2>3. band * LineDataSize(cfg) <= cfg.n_bands * LineDataSize(cfg)
    BY <1>1, <2>2, MulMono
  <2>4. band * LineDataSize(cfg) \in Nat /\ cfg.n_bands * LineDataSize(cfg) \in Nat
    BY <1>1, MulSucc
  <2> QED
    BY <1>1, <1>2, <1>3, <2>1, <2>3, <2>4 DEF SizeInv, Position, EstimateSuffices
<1>4. CASE stage # "LINE_DATA"
  BY <1>1, <1>2, <1>4 DEF SizeInv, Position, EstimateSuffices
<1> QED BY <1>3, <1>4

\* session.h, "the buffer size needed for a complete session": for every
\* configuration, buffer size, telemetry interval and line period, a call that
\* passes the size check never runs out of room and never writes more than the
\* estimate.
THEOREM EstimateAlwaysSuffices == Spec => []EstimateSuffices
  BY SizeInvariant, WithinEstimate, PTL

\* The locals of xs_build_session keep their ranges; in particular the line and
\* band counters never leave the configuration's.
THEOREM BuilderTypeOK == Spec => []TypeOK
<1>1. SizeInv => TypeOK
  BY DEF SizeInv
<1> QED BY SizeInvariant, <1>1, PTL

(***************************************************************************)
(* The order and the timing of the packets xs_build_session writes: the buffer *)
(* is a session of IcdSession, for every configuration and buffer size.        *)
(***************************************************************************)
L == INSTANCE IcdLemmas WITH packets <- out, Interval <- TelemetryInterval

OutType ==
    [id : {"SESSION_START", "SESSION_END"}, session_id : Nat]
    \cup [id : {"IMAGER_INFO", "TIME_SYNC"}]
    \cup [id : {"IMAGER_CONFIG"}, spectral_bands : Nat, wavelengths : Seq(Word)]
    \cup [id : {"SCENE_START"}, scene_height : Nat, scene_width : Word]
    \cup [id : {"IMAGER_TELEMETRY", "EXPOSURE_START"}, imager_time : Nat]
    \cup [id : {"LINE_DATA"}, spectral_band : Nat, line_number : Nat,
          pixels : [stride : Nat, from : Nat]]

\* Packets there are when an opening statement is reached.
Ahead(s) ==
    CASE s = "IMAGER_INFO" -> 1 [] s = "IMAGER_CONFIG" -> 2 [] s = "TIME_SYNC" -> 3
      [] s = "SCENE_START" -> 4 [] OTHER -> 0

BetweenLines == {"malloc", "nomem", "line", "IMAGER_TELEMETRY", "EXPOSURE_START",
                 "FINAL_TELEMETRY"}

OrderInv ==
    /\ out \in Seq(OutType) /\ L!Opened(out) /\ L!OnCadence(out)
    /\ stage \in OpeningStages \cup {"size", "refused"} => Len(out) = Ahead(stage)
    /\ Len(out) >= 1 => out[1] = SessionStart(cfg.session_id)
    /\ Len(out) >= 3 => out[3].spectral_bands = cfg.n_bands
    /\ Len(out) >= 5 => out[5].scene_height = cfg.n_lines % U24
    /\ stage \in BetweenLines =>
          L!InSession(out, line, line * cfg.n_bands, last_telemetry_time)
    /\ stage = "LINE_DATA" =>
          L!InSession(out, line + 1, line * cfg.n_bands + band, last_telemetry_time)
    /\ stage = "EXPOSURE_START" => timestamp - last_telemetry_time < TelemetryInterval
    /\ stage = "FINAL_TELEMETRY" => line = cfg.n_lines
    /\ stage = "SESSION_END" =>
          /\ Len(out) >= 5 /\ L!Last(out).id = "IMAGER_TELEMETRY"
          /\ L!Count(out, "EXPOSURE_START") = cfg.n_lines
          /\ L!Count(out, "LINE_DATA") = cfg.n_lines * cfg.n_bands
    /\ stage = "done" =>
          /\ L!Count(out, "LINE_DATA") = cfg.n_lines * cfg.n_bands
          /\ L!Last(out) = SessionEnd(cfg.session_id)

\* A packet that fits is appended.
LEMMA EmitWrites ==
    ASSUME NEW payload \in Nat, NEW packet, NEW next, Emit(payload, packet, next),
           stage' # "failed"
    PROVE  out' = Append(out, packet) /\ stage' = next
BY DEF Emit

\* The payload of IMAGER_CONFIG has a size.
LEMMA ConfigPayload == \A n \in Nat : ImagerConfigPayload(n) \in Nat
BY DEF ImagerConfigPayload, Padded

\* The packets are of their types.
LEMMA OutPackets ==
    ASSUME SizeInv
    PROVE  /\ SessionStart(cfg.session_id) \in OutType /\ ImagerInfo \in OutType
           /\ ImagerConfig(Wavelengths) \in OutType
           /\ ImagerConfig(Wavelengths).spectral_bands = cfg.n_bands
           /\ TimeSync \in OutType
           /\ SceneStart(cfg.n_lines, cfg.width) \in OutType
           /\ Telemetry(timestamp) \in OutType /\ ExposureStart(timestamp) \in OutType
           /\ LineData(band, line, [stride |-> SrcBands, from |-> SourceBand(band)]) \in OutType
           /\ SessionEnd(cfg.session_id) \in OutType
<1>1. /\ cfg \in ConfigType /\ MaxBands \in Nat /\ timestamp \in Nat /\ line \in Nat
      /\ band \in Nat /\ cfg.n_bands \in Nat /\ band + 1 <= cfg.n_bands
  BY Facts, BuilderAssumption, MaxBandsAssumption
<1>2. /\ cfg.session_id \in Nat /\ cfg.n_bands \in 1 .. MaxBands /\ cfg.n_lines \in Nat
      /\ cfg.width \in Word /\ cfg.source_n_bands \in 0 .. MaxBands
      /\ cfg.band_indices \in [BandSlots -> BandSlots]
      /\ cfg.band_wavelengths \in [BandSlots -> Word]
  BY <1>1 DEF ConfigType
<1>3. SessionStart(cfg.session_id) \in OutType /\ SessionEnd(cfg.session_id) \in OutType
  BY <1>2 DEF SessionStart, SessionEnd, OutType
<1>4. ImagerInfo \in OutType /\ TimeSync \in OutType
  BY DEF ImagerInfo, TimeSync, OutType
<1>5. Telemetry(timestamp) \in OutType /\ ExposureStart(timestamp) \in OutType
  BY <1>1 DEF Telemetry, ExposureStart, OutType
<1>6. Wavelengths \in Seq(Word) /\ Len(Wavelengths) = cfg.n_bands
  <2>1. \A k \in 1 .. cfg.n_bands : cfg.band_wavelengths[k - 1] \in Word
    <3>1. \A k \in 1 .. cfg.n_bands : k - 1 \in BandSlots
      BY <1>1, <1>2 DEF BandSlots
    <3> QED BY <1>2, <3>1
  <2>2. Wavelengths \in [1 .. cfg.n_bands -> Word]
    BY <2>1 DEF Wavelengths
  <2> QED BY <1>1, <2>2
<1>7. ImagerConfig(Wavelengths) \in OutType
      /\ ImagerConfig(Wavelengths).spectral_bands = cfg.n_bands
  BY <1>1, <1>6 DEF ImagerConfig, OutType
<1>8. \A x \in Nat : x % U24 \in Nat
  BY DEF U24
<1>9. SceneStart(cfg.n_lines, cfg.width) \in OutType
  BY <1>2, <1>8 DEF SceneStart, OutType
<1>10. SrcBands \in Nat /\ SourceBand(band) \in Nat
  <2>1. \A x \in BandSlots : x \in Nat
    BY <1>1 DEF BandSlots
  <2>2. band \in BandSlots
    BY <1>1, <1>2 DEF BandSlots
  <2>3. SrcBands \in Nat
    BY <1>1, <1>2 DEF SrcBands
  <2>4. cfg.band_indices[band] \in Nat
    BY <1>2, <2>1, <2>2
  <2> QED BY <1>1, <2>3, <2>4 DEF SourceBand
<1>11. LineData(band, line, [stride |-> SrcBands, from |-> SourceBand(band)]) \in OutType
  BY <1>1, <1>8, <1>10 DEF LineData, OutType
<1> QED BY <1>3, <1>4, <1>5, <1>7, <1>9, <1>11

\* The invariant of the order holds of an empty buffer.
LEMMA OrderInit == Init => OrderInv
<1> SUFFICES ASSUME Init PROVE OrderInv
  OBVIOUS
<1>1. out = <<>> /\ stage = "size" /\ Len(out) = 0 /\ DOMAIN out = {}
  BY DEF Init
<1>2. L!Opened(out)
  BY <1>1 DEF L!Opened
<1>3. L!OnCadence(out)
  BY <1>1 DEF L!OnCadence, L!Of
<1> QED BY <1>1, <1>2, <1>3 DEF OrderInv, Ahead, OpeningStages, BetweenLines

\* A packet of the opening, in its place, keeps the order.
LEMMA OpeningPacket ==
    ASSUME SizeInv, OrderInv, NEW p \in OutType, out' = Append(out, p), Len(out) < 5,
           p.id = L!Opening[Len(out) + 1],
           Len(out) = 0 => p = SessionStart(cfg.session_id),
           Len(out) = 2 => p.spectral_bands = cfg.n_bands,
           Len(out) = 4 => p.scene_height = cfg.n_lines % U24,
           \/ Len(out) = 4 /\ stage' = "malloc"
           \/ Len(out) < 4 /\ Ahead(stage') = Len(out) + 1 /\ stage' \in OpeningStages,
           stage \in BeforeLines, UNCHANGED <<args, line, last_telemetry_time>>
    PROVE  OrderInv' /\ L!Next
<1>1. /\ out \in Seq(OutType) /\ L!Opened(out) /\ cfg' = cfg
      /\ Len(out) >= 1 => out[1] = SessionStart(cfg.session_id)
      /\ Len(out) >= 3 => out[3].spectral_bands = cfg.n_bands
  BY DEF OrderInv, args
<1>2. line = 0 /\ last_telemetry_time = 0 /\ cfg.n_bands \in Nat
  <2>1. /\ LinePeriodOf(cfg) \in Nat /\ last_telemetry_time \in Nat
        /\ cfg.n_bands \in Nat
    BY Facts, Sizes
  <2>2. line = 0 /\ timestamp = line * LinePeriodOf(cfg) /\ last_telemetry_time <= timestamp
    BY DEF SizeInv, Clock
  <2>3. timestamp = 0
    BY <2>1, <2>2
  <2> QED BY <2>1, <2>2, <2>3
<1>3. /\ out' \in Seq(OutType) /\ Len(out) \in Nat /\ Len(out') = Len(out) + 1
      /\ \A k \in 1 .. Len(out) : out'[k] = out[k]
      /\ out'[Len(out) + 1] = p
  BY <1>1, L!LongerBy
<1>4. /\ L!Allowed(out, p) /\ L!Opened(out)' /\ L!OnCadence(out)'
      /\ Len(out) = 4 => L!InSession(out, 0, 0, 0)'
  BY <1>1, L!OpeningAppend
<1>5. L!Next
  BY <1>1, <1>4, L!SentIsReceived
<1>6. /\ Len(out') >= 1 => out'[1] = SessionStart(cfg.session_id)
      /\ Len(out') >= 3 => out'[3].spectral_bands = cfg.n_bands
      /\ Len(out') >= 5 => out'[5].scene_height = cfg.n_lines % U24
  <2>1. \A n \in Nat : /\ n + 1 >= 1 => n = 0 \/ 1 \in 1 .. n
                       /\ n + 1 >= 3 => n = 2 \/ (3 \in 1 .. n /\ n >= 3)
                       /\ n + 1 >= 5 /\ n < 5 => n = 4
                       /\ 1 \in 1 .. n => n >= 1
    OBVIOUS
  <2>2. 0 + 1 = 1 /\ 2 + 1 = 3 /\ 4 + 1 = 5
    OBVIOUS
  <2>3. Len(out) = 0 \/ 1 \in 1 .. Len(out)
    BY <1>3, <2>1
  <2> QED BY <1>1, <1>3, <2>1, <2>2, <2>3
<1>7. CASE Len(out) = 4 /\ stage' = "malloc"
  <2>1. (L!InSession(out, line, line * cfg.n_bands, last_telemetry_time))'
    BY <1>1, <1>2, <1>4, <1>7
  <2> QED
    BY <1>1, <1>3, <1>4, <1>5, <1>6, <1>7, <2>1 DEF OrderInv, BetweenLines, OpeningStages
<1>8. CASE Len(out) < 4 /\ Ahead(stage') = Len(out) + 1 /\ stage' \in OpeningStages
  BY <1>1, <1>3, <1>4, <1>5, <1>6, <1>8 DEF OrderInv, BetweenLines, OpeningStages
<1> QED BY <1>7, <1>8

\* Each statement before the loop writes the opening packet of its place.
LEMMA OpeningStep ==
    ASSUME SizeInv, OrderInv, SizeInv', EmitOpening
    PROVE  OrderInv' /\ L!Next
<1>1. /\ stage' # "failed" /\ UNCHANGED <<args, line, last_telemetry_time>>
      /\ stage \in BeforeLines /\ stage \in OpeningStages /\ Len(out) = Ahead(stage)
  BY DEF SizeInv, OrderInv, EmitOpening, BeforeLines, OpeningStages
<1> USE <1>1, OutPackets DEF Ahead, OpeningStages, L!Opening
<1>2. CASE stage = "SESSION_START"
  <2>1. out' = Append(out, SessionStart(cfg.session_id)) /\ stage' = "IMAGER_INFO"
    BY <1>2, EmitWrites DEF EmitOpening, SessionStartPayload
  <2> QED BY <1>2, <2>1, OpeningPacket DEF SessionStart
<1>3. CASE stage = "IMAGER_INFO"
  <2>1. out' = Append(out, ImagerInfo) /\ stage' = "IMAGER_CONFIG"
    BY <1>3, EmitWrites DEF EmitOpening, ImagerInfoPayload
  <2> QED BY <1>3, <2>1, OpeningPacket DEF ImagerInfo
<1>4. CASE stage = "IMAGER_CONFIG"
  <2>1. out' = Append(out, ImagerConfig(Wavelengths)) /\ stage' = "TIME_SYNC"
    <3>1. ImagerConfigPayload(cfg.n_bands) \in Nat
      BY Facts, ConfigPayload
    <3> QED BY <1>4, <3>1, EmitWrites DEF EmitOpening
  <2>2. ImagerConfig(Wavelengths).id = "IMAGER_CONFIG"
    BY DEF ImagerConfig
  <2> QED BY <1>4, <2>1, <2>2, OpeningPacket
<1>5. CASE stage = "TIME_SYNC"
  <2>1. out' = Append(out, TimeSync) /\ stage' = "SCENE_START"
    BY <1>5, EmitWrites DEF EmitOpening, TimeSyncPayload
  <2> QED BY <1>5, <2>1, OpeningPacket DEF TimeSync
<1>6. CASE stage = "SCENE_START"
  <2>1. out' = Append(out, SceneStart(cfg.n_lines, cfg.width)) /\ stage' = "malloc"
    BY <1>6, EmitWrites DEF EmitOpening, SceneStartPayload
  <2> QED BY <1>6, <2>1, OpeningPacket DEF SceneStart
<1> QED BY <1>2, <1>3, <1>4, <1>5, <1>6

\* A packet of the lines leaves the opening as it is.
LEMMA LaterPacket ==
    ASSUME SizeInv, OrderInv, NEW p \in OutType, out' = Append(out, p), Len(out) >= 5,
           UNCHANGED args
    PROVE  /\ out' \in Seq(OutType) /\ L!Opened(out)' /\ Len(out') >= 5 /\ L!Last(out') = p
           /\ out'[1] = SessionStart(cfg.session_id)
           /\ out'[3].spectral_bands = cfg.n_bands
           /\ out'[5].scene_height = cfg.n_lines % U24
           /\ L!Bands(out) = cfg.n_bands /\ L!Lines(out) = cfg.n_lines % U24
           /\ out[1] = SessionStart(cfg.session_id) /\ cfg' = cfg
<1>1. /\ out \in Seq(OutType) /\ L!Opened(out) /\ Len(out) \in Nat
      /\ out[1] = SessionStart(cfg.session_id) /\ out[3].spectral_bands = cfg.n_bands
      /\ out[5].scene_height = cfg.n_lines % U24
  <2>1. \A n \in Nat : n >= 5 => n >= 1 /\ n >= 3
    OBVIOUS
  <2>2. out \in Seq(OutType) /\ Len(out) \in Nat
    BY DEF OrderInv
  <2> QED BY <2>1, <2>2 DEF OrderInv
<1>2. /\ out' \in Seq(OutType) /\ L!Opened(out)' /\ Len(out') >= 5 /\ L!Last(out') = p
      /\ L!Bands(out') = L!Bands(out) /\ L!Lines(out') = L!Lines(out) /\ out'[1] = out[1]
  BY <1>1, L!KeptAppend
<1> QED BY <1>1, <1>2 DEF L!Bands, L!Lines, args

Short == cfg.n_lines < U24

\* Telemetry in the loop is written when it is due.
LEMMA TelemetryStep ==
    ASSUME SizeInv, OrderInv, SizeInv', EmitTelemetry
    PROVE  OrderInv' /\ L!Next
<1> DEFINE p == Telemetry(timestamp)
           c == line * cfg.n_bands
<1>1. /\ stage = "IMAGER_TELEMETRY" /\ stage' = "EXPOSURE_START" /\ out' = Append(out, p)
      /\ UNCHANGED args /\ line' = line /\ last_telemetry_time' = timestamp
      /\ timestamp' = timestamp
  BY EmitWrites DEF EmitTelemetry, SizeInv, TelemetryPayload
<1>2. /\ p \in OutType /\ p.id = "IMAGER_TELEMETRY" /\ p.imager_time = timestamp
      /\ timestamp - last_telemetry_time >= TelemetryInterval
      /\ line \in Nat /\ cfg.n_bands \in Nat /\ c \in Nat /\ timestamp \in Nat
  BY <1>1, OutPackets, Facts DEF SizeInv, Clock, Telemetry
<1>3. L!InSession(out, line, c, last_telemetry_time) /\ out \in Seq(OutType)
  BY <1>1 DEF OrderInv, BetweenLines
<1>4. Len(out) >= 5
  BY <1>3 DEF L!InSession
<1> HIDE DEF p, c
<1>5. L!InSession(out, line, c, timestamp)'
  <2>1. L!InSession(Append(out, p), line, c, timestamp)
    BY <1>2, <1>3, L!SessionAppend
  <2>2. c' = c
    BY <1>1 DEF c, args
  <2> QED BY <1>1, <2>1, <2>2
<1>6. L!Allowed(out, p)
  <2>1. L!Bands(out) = cfg.n_bands
    BY <1>1, <1>2, <1>4, LaterPacket
  <2> QED BY <1>2, <1>3, <2>1, L!AllowedBetween DEF c
<1>7. L!Next
  BY <1>1, <1>2, <1>3, <1>6, L!SentIsReceived
<1>8. L!OnCadence(out)'
  BY <1>5, L!SessionOnCadence DEF L!InSession
<1>9. timestamp' - last_telemetry_time' < TelemetryInterval
  BY <1>1, <1>2, BuilderAssumption
<1>10. (L!InSession(out, line, line * cfg.n_bands, last_telemetry_time))'
  BY <1>1, <1>5 DEF c
<1> QED
  BY <1>1, <1>2, <1>4, <1>7, <1>8, <1>9, <1>10, LaterPacket
  DEF OrderInv, OpeningStages, BetweenLines

\* An exposure is written when telemetry is not due.
LEMMA ExposureStep ==
    ASSUME SizeInv, OrderInv, SizeInv', EmitExposureStart
    PROVE  OrderInv' /\ (Short => L!Next)
<1> DEFINE p == ExposureStart(timestamp)
           c == line * cfg.n_bands
<1>1. /\ stage = "EXPOSURE_START" /\ stage' = "LINE_DATA" /\ out' = Append(out, p)
      /\ UNCHANGED args /\ line' = line /\ last_telemetry_time' = last_telemetry_time
      /\ timestamp' = timestamp /\ band' = 0
  BY EmitWrites DEF EmitExposureStart, SizeInv, ExposureStartPayload
<1>2. /\ p \in OutType /\ p.id = "EXPOSURE_START" /\ p.imager_time = timestamp
      /\ timestamp - last_telemetry_time < TelemetryInterval /\ line < cfg.n_lines
      /\ line \in Nat /\ cfg.n_bands \in Nat /\ c \in Nat /\ cfg.n_lines \in Nat
  BY <1>1, OutPackets, Facts DEF OrderInv, SizeInv, Clock, ExposureStart, InLine
<1>3. L!InSession(out, line, c, last_telemetry_time) /\ out \in Seq(OutType)
  BY <1>1 DEF OrderInv, BetweenLines
<1>4. Len(out) >= 5
  BY <1>3 DEF L!InSession
<1> HIDE DEF p, c
<1>5. L!InSession(Append(out, p), line + 1, c, last_telemetry_time)
  BY <1>2, <1>3, L!SessionAppend
<1>6. ASSUME Short PROVE L!Next
  <2>1. L!Bands(out) = cfg.n_bands /\ L!Lines(out) = cfg.n_lines % U24
    BY <1>1, <1>2, <1>4, LaterPacket
  <2>2. cfg.n_lines % U24 = cfg.n_lines /\ line # cfg.n_lines
    BY <1>2, <1>6 DEF Short, U24
  <2>3. L!Allowed(out, p)
    BY <1>2, <1>3, <2>1, <2>2, L!AllowedBetween DEF c
  <2> QED BY <1>1, <1>2, <1>3, <2>3, L!SentIsReceived
<1>7. L!OnCadence(out)'
  BY <1>1, <1>5, L!SessionOnCadence DEF L!InSession
<1>8. (L!InSession(out, line + 1, line * cfg.n_bands + band, last_telemetry_time))'
  <2>1. c + 0 = c
    BY <1>2
  <2> QED BY <1>1, <1>5, <2>1 DEF c, args
<1> QED
  BY <1>1, <1>2, <1>4, <1>6, <1>7, <1>8, LaterPacket
  DEF OrderInv, OpeningStages, BetweenLines

\* The bands of a line are written in order, and the last of them ends the line.
LEMMA LineDataStep ==
    ASSUME SizeInv, OrderInv, SizeInv', EmitLineData
    PROVE  OrderInv' /\ (Short => L!Next)
<1> DEFINE p == LineData(band, line, [stride |-> SrcBands, from |-> SourceBand(band)])
           n == cfg.n_bands
           c == line * n + band
<1>1. /\ stage = "LINE_DATA" /\ out' = Append(out, p)
      /\ stage' = IF LastBand THEN "line" ELSE "LINE_DATA"
      /\ UNCHANGED args /\ last_telemetry_time' = last_telemetry_time
      /\ band' = IF LastBand THEN 0 ELSE band + 1
      /\ line' = IF LastBand THEN line + 1 ELSE line
  <2>1. LineDataPayload(PixelBytes(cfg)) \in Nat
    BY Facts, Sizes DEF LineDataPayload, Padded
  <2> QED BY <2>1, EmitWrites DEF EmitLineData, SizeInv
<1>2. /\ p \in OutType /\ p.id = "LINE_DATA" /\ p.spectral_band = band
      /\ p.line_number = line % U24 /\ line < cfg.n_lines /\ cfg.n_lines \in Nat
      /\ line \in Nat /\ n \in Nat /\ band \in Nat /\ band + 1 <= n
  BY <1>1, OutPackets, Facts DEF SizeInv, Clock, LineData, InLine
<1>3. L!InSession(out, line + 1, c, last_telemetry_time) /\ out \in Seq(OutType)
  BY <1>1 DEF OrderInv
<1>4. Len(out) >= 5
  BY <1>3 DEF L!InSession
<1> HIDE DEF p
<1>5. /\ band < n /\ c \in Nat /\ (band + 1 = n => c + 1 = (line + 1) * n)
      /\ c + 1 = line * n + (band + 1) /\ (line + 1) * n = (line + 1) * n + 0
      /\ line + 1 \in Nat
  <2> HIDE DEF n
  <2>1. band < n /\ line * n \in Nat /\ (line + 1) * n \in Nat /\ line + 1 \in Nat
    BY <1>2
  <2> QED BY <1>2, <2>1, L!MulApart
<1> HIDE DEF c, n
<1>6. L!InSession(Append(out, p), line + 1, c + 1, last_telemetry_time)
  BY <1>2, <1>3, <1>5, L!SessionAppend
<1>7. ASSUME Short PROVE L!Next
  <2>1. L!Bands(out) = n
    BY <1>1, <1>2, <1>4, LaterPacket DEF n
  <2>2. line % U24 = line
    BY <1>2, <1>7 DEF Short, U24
  <2>3. L!Allowed(out, p)
    BY <1>2, <1>3, <1>5, <2>1, <2>2, L!AllowedInLine DEF c
  <2> QED BY <1>1, <1>2, <1>3, <2>3, L!SentIsReceived
<1>8. L!OnCadence(out)' /\ n' = n
  BY <1>1, <1>6, L!SessionOnCadence DEF L!InSession, n, args
<1>9. CASE LastBand
  <2>1. band + 1 = n
    BY <1>2, <1>9 DEF LastBand, n
  <2>2. (L!InSession(out, line, line * cfg.n_bands, last_telemetry_time))'
    <3>1. L!InSession(Append(out, p), line + 1, (line + 1) * n, last_telemetry_time)
      BY <1>5, <1>6, <2>1
    <3> QED BY <1>1, <1>8, <1>9, <3>1 DEF n
  <2> QED
    BY <1>1, <1>2, <1>4, <1>7, <1>8, <1>9, <2>2, LaterPacket
    DEF OrderInv, OpeningStages, BetweenLines
<1>10. CASE ~LastBand
  <2>1. (L!InSession(out, line + 1, line * cfg.n_bands + band, last_telemetry_time))'
    <3>1. L!InSession(Append(out, p), line + 1, line * n + (band + 1), last_telemetry_time)
      BY <1>5, <1>6
    <3> QED BY <1>1, <1>8, <1>10, <3>1 DEF n
  <2> QED
    BY <1>1, <1>2, <1>4, <1>7, <1>8, <1>10, <2>1, LaterPacket
    DEF OrderInv, OpeningStages, BetweenLines
<1> QED BY <1>9, <1>10

\* The final telemetry follows the last line.
LEMMA FinalTelemetryStep ==
    ASSUME SizeInv, OrderInv, SizeInv', EmitFinalTelemetry
    PROVE  OrderInv' /\ L!Next
<1> DEFINE p == Telemetry(timestamp)
           c == line * cfg.n_bands
<1>1. /\ stage = "FINAL_TELEMETRY" /\ stage' = "SESSION_END" /\ out' = Append(out, p)
      /\ UNCHANGED args /\ cfg' = cfg
  BY EmitWrites DEF EmitFinalTelemetry, SizeInv, TelemetryPayload, args
<1>2. /\ p \in OutType /\ p.id = "IMAGER_TELEMETRY" /\ line = cfg.n_lines
      /\ line \in Nat /\ cfg.n_bands \in Nat
  BY <1>1, OutPackets, Facts DEF OrderInv, Telemetry
<1>3. L!InSession(out, line, c, last_telemetry_time) /\ out \in Seq(OutType)
  BY <1>1 DEF OrderInv, BetweenLines
<1>4. Len(out) >= 5 /\ L!OnCadence(out)
  BY <1>3 DEF L!InSession, OrderInv
<1> HIDE DEF p, c
<1>5. /\ L!OnCadence(out)' /\ L!Count(out, "EXPOSURE_START")' = line
      /\ L!Count(out, "LINE_DATA")' = c
  BY <1>1, <1>2, <1>3, <1>4, L!ClosingAppend DEF L!InSession
<1>6. L!Next
  <2>1. L!Bands(out) = cfg.n_bands
    BY <1>1, <1>2, <1>4, LaterPacket
  <2>2. L!Allowed(out, p)
    BY <1>2, <1>3, <2>1, L!AllowedBetween DEF c
  <2> QED BY <1>1, <1>2, <1>3, <2>2, L!SentIsReceived
<1> QED
  BY <1>1, <1>2, <1>4, <1>5, <1>6, LaterPacket DEF OrderInv, OpeningStages, BetweenLines, c

\* SESSION_END follows the final telemetry of a complete session.
LEMMA EndStep ==
    ASSUME SizeInv, OrderInv, SizeInv', EmitSessionEnd
    PROVE  OrderInv' /\ (Short => L!Next)
<1> DEFINE p == SessionEnd(cfg.session_id)
<1>1. /\ stage = "SESSION_END" /\ stage' = "done" /\ out' = Append(out, p)
      /\ UNCHANGED args /\ cfg' = cfg
  BY EmitWrites DEF EmitSessionEnd, SizeInv, SessionEndPayload, args
<1>2. /\ p \in OutType /\ p.id = "SESSION_END" /\ p.session_id = cfg.session_id
      /\ cfg.n_lines \in Nat /\ cfg.n_bands \in Nat
  BY OutPackets, Facts DEF SessionEnd
<1>3. /\ out \in Seq(OutType) /\ Len(out) >= 5 /\ L!OnCadence(out)
      /\ L!Last(out).id = "IMAGER_TELEMETRY"
      /\ L!Count(out, "EXPOSURE_START") = cfg.n_lines
      /\ L!Count(out, "LINE_DATA") = cfg.n_lines * cfg.n_bands
  BY <1>1 DEF OrderInv
<1> HIDE DEF p
<1>4. L!OnCadence(out)' /\ L!Count(out, "LINE_DATA")' = cfg.n_lines * cfg.n_bands
  BY <1>1, <1>2, <1>3, L!ClosingAppend
<1>5. ASSUME Short PROVE L!Next
  <2>1. L!Bands(out) = cfg.n_bands /\ L!Lines(out) = cfg.n_lines % U24
        /\ out[1].session_id = cfg.session_id
    BY <1>1, <1>2, <1>3, LaterPacket DEF SessionStart
  <2>2. cfg.n_lines % U24 = cfg.n_lines
    BY <1>2, <1>5 DEF Short, U24
  <2>3. L!AllLines(out)
    BY <1>3, <2>1, <2>2 DEF L!AllLines, L!BetweenLines
  <2>4. L!Allowed(out, p)
    BY <1>2, <1>3, <2>1, <2>3, L!AllowedAtEnd
  <2> QED BY <1>1, <1>2, <1>3, <2>4, L!SentIsReceived
<1> QED
  BY <1>1, <1>2, <1>3, <1>4, <1>5, LaterPacket DEF OrderInv, OpeningStages, BetweenLines, p

\* The other statements write nothing.
LEMMA SilentStep ==
    ASSUME SizeInv, OrderInv, CheckSize \/ AllocatePixels \/ NextLine \/ UNCHANGED vars
    PROVE  OrderInv' /\ UNCHANGED out
<1>1. UNCHANGED <<cfg, line, band, timestamp, last_telemetry_time, out>>
  BY DEF CheckSize, AllocatePixels, NextLine, vars, args
<1>2. CASE UNCHANGED vars
  BY <1>1, <1>2 DEF OrderInv, vars
<1>3. CASE CheckSize
  BY <1>1, <1>3 DEF CheckSize, OrderInv, OpeningStages, BetweenLines, Ahead
<1>4. CASE AllocatePixels
  BY <1>1, <1>4 DEF AllocatePixels, OrderInv, OpeningStages, BetweenLines
<1>5. CASE NextLine
  <2>1. /\ stage = "line" /\ stage' \in {"FINAL_TELEMETRY", "IMAGER_TELEMETRY", "EXPOSURE_START"}
        /\ stage' = "FINAL_TELEMETRY" => line >= cfg.n_lines
        /\ stage' = "EXPOSURE_START" => ~TelemetryDue
    BY <1>5 DEF NextLine, NoMoreLines
  <2>2. stage' = "FINAL_TELEMETRY" => line = cfg.n_lines
    BY <2>1, Facts
  <2>3. stage' = "EXPOSURE_START" => timestamp - last_telemetry_time < TelemetryInterval
    BY <2>1, Facts, BuilderAssumption DEF TelemetryDue
  <2> QED BY <1>1, <2>1, <2>2, <2>3 DEF OrderInv, OpeningStages, BetweenLines
<1> QED BY <1>1, <1>2, <1>3, <1>4, <1>5

\* Every step keeps the invariant of the order, and is a step of IcdSession.
LEMMA OrderStep ==
    ASSUME SizeInv, OrderInv, SizeInv', [Next]_vars
    PROVE  OrderInv' /\ (Short => L!Next \/ UNCHANGED out)
<1>1. CASE CheckSize \/ AllocatePixels \/ NextLine \/ Finished \/ UNCHANGED vars
  BY <1>1, SilentStep DEF Finished
<1> QED
  BY <1>1, OpeningStep, TelemetryStep, ExposureStep, LineDataStep, FinalTelemetryStep, EndStep
  DEF Next

(***************************************************************************)
(* Theorems.                                                                 *)
(***************************************************************************)
LEMMA SameCount ==
    \A ps, id : L!Count(ps, id) = Icd!Count(ps, id) /\ L!Of(ps, id) = Icd!Of(ps, id)
<1>1. \A S : L!Cardinality(S) = Icd!Cardinality(S)
  BY DEF L!Cardinality, Icd!Cardinality
<1> QED BY <1>1 DEF L!Count, Icd!Count, L!Of, Icd!Of

\* At every statement of xs_build_session the buffer holds what the loop variables
\* account for.
THEOREM OrderInvariant == Spec => [](SizeInv /\ OrderInv)
<1>1. Init => SizeInv /\ OrderInv
  BY SizeInit, OrderInit
<1>2. SizeInv /\ OrderInv /\ [Next]_vars => (SizeInv /\ OrderInv)'
  BY SizeStep, OrderStep
<1> QED BY <1>1, <1>2, PTL DEF Spec

\* Telemetry in the buffer is neither late nor early, at any line period (BufferOnCadence).
THEOREM TelemetryOnCadence == Spec => []BufferOnCadence
<1>1. OrderInv => BufferOnCadence
  BY DEF OrderInv, BufferOnCadence, L!OnCadence, Icd!OnCadence, L!LastTelemetry,
         Icd!LastTelemetry, L!Of, Icd!Of
<1> QED BY <1>1, OrderInvariant, PTL

\* xs_build_session returns a size only for a whole session (ReturnsWholeSession).
THEOREM WholeSessions == Spec => []ReturnsWholeSession
<1>1. OrderInv => ReturnsWholeSession
  BY SameCount DEF OrderInv, ReturnsWholeSession, Result, L!Last, Icd!Last
<1> QED BY <1>1, OrderInvariant, PTL

\* The rules of the order, in both instances of it.
LEMMA SameRules == \A ps, p : L!Allowed(ps, p) <=> Icd!Allowed(ps, p)
BY SameCount
DEF L!Allowed, Icd!Allowed, L!Opening, Icd!Opening, L!Last, Icd!Last, L!BetweenLines,
    Icd!BetweenLines, L!AllLines, Icd!AllLines, L!NextLineData, Icd!NextLineData, L!Bands,
    Icd!Bands, L!Lines, Icd!Lines

\* A step of xs_build_session is a step of the order, or none.
LEMMA IcdStep ==
    (\A c \in Configs : c.n_lines < U24) /\ SizeInv /\ OrderInv /\ SizeInv' /\ [Next]_vars
    => [Icd!Next]_out
<1> SUFFICES ASSUME \A c \in Configs : c.n_lines < U24, SizeInv, OrderInv, SizeInv',
                    [Next]_vars
             PROVE  [Icd!Next]_out
  OBVIOUS
<1>1. L!Next \/ UNCHANGED out
  <2>1. Short
    BY DEF Short, SizeInv, TypeOK
  <2> QED BY <2>1, OrderStep
<1>2. L!Next <=> Icd!Next
  BY SameRules DEF L!Next, Icd!Next, L!Receive, Icd!Receive, L!Reconnect, Icd!Reconnect,
                   L!Last, Icd!Last
<1> QED BY <1>1, <1>2

\* With fewer lines than the 24-bit line number counts, the buffer holds the packets in the
\* order of the ICD, whatever the line period (BufferFollowsIcd).
THEOREM BufferRefinesIcd ==
    ASSUME \A c \in Configs : c.n_lines < U24
    PROVE  Spec => BufferFollowsIcd
<1>1. Init => Icd!Init
  BY DEF Init, Icd!Init
<1>2. SizeInv /\ OrderInv /\ (SizeInv /\ OrderInv)' /\ [Next]_vars => [Icd!Next]_out
  BY IcdStep
<1> QED BY <1>1, <1>2, OrderInvariant, PTL DEF Spec, BufferFollowsIcd, Icd!Spec

(***************************************************************************)
(* The readers: in the bytes the builder wrote, the library's parser and the   *)
(* client's framing find the packets where they were written and nowhere else,  *)
(* wherever reads cut the bytes and whatever the bytes between headers are.      *)
(***************************************************************************)
\* Every packet of the session is one of these.
PacketIds ==
    {"SESSION_START", "IMAGER_INFO", "IMAGER_CONFIG", "TIME_SYNC", "SCENE_START",
     "IMAGER_TELEMETRY", "EXPOSURE_START", "LINE_DATA", "SESSION_END"}

LEMMA OutIds == \A p \in OutType : p.id \in PacketIds
BY DEF OutType, PacketIds

\* A number is its bytes above the lowest, and the lowest.
LEMMA LowByte ==
    ASSUME NEW n \in Nat
    PROVE  /\ n \div 256 \in Nat /\ n % 256 \in Nat
           /\ n = 256 * (n \div 256) + (n % 256)
  OBVIOUS

\* xs_decode_u24 is the inverse of xs_encode_u24 up to 24 bits.
LEMMA U24RoundTrip ==
    ASSUME NEW n \in Nat, n < U24
    PROVE  DecodeU24(EncodeU24(n)) = n
<1>1. n < 16777216
  BY DEF U24
<1> DEFINE q == n \div 256
           r == n \div 65536
<1>2. q \in Nat /\ n % 256 \in Nat /\ n = 256 * q + (n % 256)
  BY LowByte
<1>3. q \div 256 = r
  BY <1>1
<1>4. q % 256 \in Nat /\ q = 256 * r + (q % 256)
  BY <1>2, <1>3, LowByte
<1>5. r \in Nat /\ r % 256 = r
  BY <1>1
<1>6. DecodeU24(EncodeU24(n)) = (n % 256) + (q % 256) * 256 + (r % 256) * 65536
  BY DEF DecodeU24, EncodeU24, U8, U16
<1> HIDE DEF q, r
<1> QED BY <1>1, <1>2, <1>4, <1>5, <1>6

\* The flags finalize_packet writes are valid and announce the sum.
LEMMA FlagsWritten == FlagsValid(MakeFlags(TRUE, FALSE)) /\ CrcEnabled(MakeFlags(TRUE, FALSE))
<1>1. MakeFlags(TRUE, FALSE) = 225
  BY DEF MakeFlags, Lower
<1>2. 225 \div 16 = 14 /\ 225 % 16 = 1 /\ 225 % 2 = 1
  OBVIOUS
<1>3. FlagsValid(225) /\ CrcEnabled(225)
  BY <1>2 DEF FlagsValid, CrcEnabled
<1> QED BY <1>1, <1>3

\* Every payload's length can be written in three bytes.
LEMMA PayloadFits ==
    ASSUME cfg \in Configs, NEW p, p.id \in PacketIds
    PROVE  PayloadOf(p) \in Nat /\ PayloadOf(p) < U24
<1>1. cfg \in ConfigType
  BY BuilderAssumption
<1>2. cfg.n_bands \in 1 .. MaxBands /\ cfg.width \in Word
  BY <1>1 DEF ConfigType
<1>3. cfg.n_bands \in Nat /\ cfg.n_bands < 256 /\ cfg.width \in Nat /\ cfg.width < 65536
  <2>1. MaxBands \in Nat /\ MaxBands < 256
    BY MaxBandsAssumption DEF U8
  <2>2. cfg.n_bands \in Nat /\ cfg.n_bands < 256
    <3> DEFINE n == cfg.n_bands
    <3>1. n \in 1 .. MaxBands
      BY <1>2
    <3> HIDE DEF n
    <3>2. n \in Nat /\ n < 256
      BY <2>1, <3>1
    <3> QED BY <3>2 DEF n
  <2>3. cfg.width \in Nat /\ cfg.width < 65536
    <3>1. U16 = 65536
      BY DEF U16
    <3>2. \A w \in Word : w \in Nat /\ w < U16
      BY <3>1 DEF Word
    <3> QED BY <1>2, <3>1, <3>2
  <2> QED BY <2>2, <2>3
<1>4. PixelBytes(cfg) \in Nat /\ PixelBytes(cfg) < 131072
  BY <1>3 DEF PixelBytes
<1>5. LineDataPayload(PixelBytes(cfg)) \in Nat /\ LineDataPayload(PixelBytes(cfg)) < U24
  <2> DEFINE b == PixelBytes(cfg)
  <2>1. LineDataPayload(b) = ((12 + b + 3) \div 4) * 4
    BY DEF LineDataPayload, Padded
  <2> HIDE DEF b
  <2>2. b \in Nat /\ b < 131072
    BY <1>4 DEF b
  <2>3. LineDataPayload(b) \in Nat /\ LineDataPayload(b) < U24
    BY <2>1, <2>2 DEF U24
  <2> QED BY <2>3 DEF b
<1>6. ImagerConfigPayload(cfg.n_bands) \in Nat /\ ImagerConfigPayload(cfg.n_bands) < U24
  <2> DEFINE n == cfg.n_bands
  <2>1. ImagerConfigPayload(n) = ((12 + n + 2 + n * 2 + n * 2 + 1 + 3) \div 4) * 4
    BY DEF ImagerConfigPayload, Padded
  <2> HIDE DEF n
  <2>2. n \in Nat /\ n < 256
    BY <1>3 DEF n
  <2>3. ImagerConfigPayload(n) \in Nat /\ ImagerConfigPayload(n) < U24
    BY <2>1, <2>2 DEF U24
  <2> QED BY <2>3 DEF n
<1>7. CASE p.id = "LINE_DATA"
  BY <1>5, <1>7 DEF PayloadOf
<1>8. CASE p.id = "IMAGER_CONFIG"
  BY <1>6, <1>8 DEF PayloadOf
<1>9. CASE p.id \in PacketIds \ {"LINE_DATA", "IMAGER_CONFIG"}
  <2>1. PayloadOf(p) \in {4, 8, 12, 20}
    BY <1>9
    DEF PayloadOf, PacketIds, SessionStartPayload, ImagerInfoPayload, TimeSyncPayload,
        SceneStartPayload, TelemetryPayload, ExposureStartPayload, SessionEndPayload
  <2> QED BY <2>1 DEF U24
<1> QED BY <1>7, <1>8, <1>9 DEF PacketIds

\* From the header finalize_packet writes, both readers compute the packet's size.
LEMMA HeaderTells ==
    ASSUME cfg \in Configs, NEW p, p.id \in PacketIds
    PROVE  /\ TotalLen(Header(p)) = PacketSize(PayloadOf(p))
           /\ Header(p).sync = SyncWord /\ FlagsValid(Header(p).flags)
           /\ PacketSize(PayloadOf(p)) \in Nat /\ PacketSize(PayloadOf(p)) >= 12
<1>1. PayloadOf(p) \in Nat /\ PayloadOf(p) < U24
  BY PayloadFits
<1>3. DecodeU24(Header(p).length) = PayloadOf(p)
  BY <1>1, U24RoundTrip DEF Header
<1>4. CrcEnabled(Header(p).flags) /\ FlagsValid(Header(p).flags)
  BY FlagsWritten DEF Header
<1>5. Header(p).sync = SyncWord
  BY DEF Header
<1> QED BY <1>1, <1>3, <1>4, <1>5 DEF TotalLen, PacketSize, HeaderSize, FooterSize

(***************************************************************************)
(* The packets of the buffer lie end to end: Place(k) is where packet k        *)
(* starts, and the place after the last packet is where pos stands.             *)
(***************************************************************************)
Size(k)  == PacketSize(PayloadOf(out[k]))
Place(k) == IF k <= Len(out) THEN offsets[k] ELSE pos

Tiled ==
    /\ offsets \in Seq(Nat) /\ Len(offsets) = Len(out)
    /\ Place(1) = 0
    /\ \A k \in 1 .. Len(out) : Place(k + 1) = Place(k) + Size(k)
    /\ \A j, k \in 1 .. Len(out) + 1 : j < k => Place(j) < Place(k)

\* What every step of a reader may use of a packet.
LEMMA PacketFacts ==
    ASSUME cfg \in Configs, out \in Seq(OutType), NEW k \in 1 .. Len(out)
    PROVE  /\ TotalLen(Header(out[k])) = Size(k) /\ Header(out[k]).sync = SyncWord
           /\ FlagsValid(Header(out[k]).flags)
           /\ Size(k) \in Nat /\ Size(k) >= 12
<1>1. out[k].id \in PacketIds
  BY OutIds
<1> QED BY <1>1, HeaderTells DEF Size

\* Places are numbers, up to the end of what is written.
LEMMA PlaceFacts ==
    ASSUME cfg \in Configs, out \in Seq(OutType), pos \in Nat, Tiled,
           NEW k \in 1 .. Len(out)
    PROVE  /\ Place(k) = offsets[k] /\ Place(k) \in Nat /\ Place(k + 1) \in Nat
           /\ Place(k + 1) = Place(k) + Size(k) /\ Size(k) \in Nat
           /\ Place(k + 1) <= pos
<1>1. Len(out) \in Nat /\ k <= Len(out) /\ k \in DOMAIN offsets
  BY DEF Tiled
<1>2. Place(k) = offsets[k] /\ offsets[k] \in Nat
  BY <1>1 DEF Place, Tiled
<1>3. Size(k) \in Nat
  BY PacketFacts
<1>4. Place(k + 1) = Place(k) + Size(k)
  BY DEF Tiled
<1>5. Place(Len(out) + 1) = pos
  BY <1>1 DEF Place
<1>6. CASE k = Len(out)
  BY <1>2, <1>3, <1>4, <1>5, <1>6
<1>7. CASE k # Len(out)
  <2>1. k + 1 < Len(out) + 1 /\ k + 1 \in 1 .. Len(out) + 1
        /\ Len(out) + 1 \in 1 .. Len(out) + 1
    BY <1>1, <1>7
  <2>2. Place(k + 1) < Place(Len(out) + 1)
    BY <2>1 DEF Tiled
  <2> QED BY <1>2, <1>3, <1>4, <1>5, <2>2
<1> QED BY <1>6, <1>7

\* A serializer that succeeds moves pos by its packet's size.
LEMMA EmitAdvances ==
    ASSUME NEW payload \in Nat, NEW packet, NEW next, Emit(payload, packet, next),
           stage' # "failed"
    PROVE  out' = Append(out, packet) /\ pos' = pos + PacketSize(payload)
BY DEF Emit, Written

\* A step of xs_build_session writes nothing, or one packet with its payload.
Writes(p) ==
    /\ p \in OutType
    /\ out' = Append(out, p) /\ pos' = pos + PacketSize(PayloadOf(p))

LEMMA OneWrite ==
    ASSUME SizeInv, OrderInv, SizeInv', [Next]_vars
    PROVE  /\ cfg' = cfg
           /\ (out' = out /\ pos' = pos) \/ \E p : Writes(p)
<1> USE DEF Writes
<1>0. /\ stage' # "failed" /\ cfg \in Configs /\ cfg.n_bands \in Nat
      /\ PixelBytes(cfg) \in Nat
  BY Facts, Sizes DEF SizeInv
<1>1. CASE CheckSize \/ AllocatePixels \/ NextLine \/ Finished \/ UNCHANGED vars
  BY <1>1 DEF CheckSize, AllocatePixels, NextLine, Finished, vars, args
<1>2. CASE EmitOpening
  <2>0. cfg' = cfg
    BY <1>2 DEF EmitOpening, args
  <2>1. ASSUME Emit(SessionStartPayload, SessionStart(cfg.session_id), "IMAGER_INFO")
        PROVE  \E p : Writes(p)
    <3>1. PayloadOf(SessionStart(cfg.session_id)) = SessionStartPayload
          /\ SessionStartPayload \in Nat
      BY DEF PayloadOf, SessionStart, SessionStartPayload
    <3> QED BY <1>0, <2>1, <3>1, EmitAdvances, OutPackets
  <2>2. ASSUME Emit(ImagerInfoPayload, ImagerInfo, "IMAGER_CONFIG")
        PROVE  \E p : Writes(p)
    <3>1. PayloadOf(ImagerInfo) = ImagerInfoPayload /\ ImagerInfoPayload \in Nat
      BY DEF PayloadOf, ImagerInfo, ImagerInfoPayload
    <3> QED BY <1>0, <2>2, <3>1, EmitAdvances, OutPackets
  <2>3. ASSUME Emit(ImagerConfigPayload(cfg.n_bands), ImagerConfig(Wavelengths), "TIME_SYNC")
        PROVE  \E p : Writes(p)
    <3>1. PayloadOf(ImagerConfig(Wavelengths)) = ImagerConfigPayload(cfg.n_bands)
          /\ ImagerConfigPayload(cfg.n_bands) \in Nat
      BY <1>0, ConfigPayload DEF PayloadOf, ImagerConfig
    <3> QED BY <1>0, <2>3, <3>1, EmitAdvances, OutPackets
  <2>4. ASSUME Emit(TimeSyncPayload, TimeSync, "SCENE_START")
        PROVE  \E p : Writes(p)
    <3>1. PayloadOf(TimeSync) = TimeSyncPayload /\ TimeSyncPayload \in Nat
      BY DEF PayloadOf, TimeSync, TimeSyncPayload
    <3> QED BY <1>0, <2>4, <3>1, EmitAdvances, OutPackets
  <2>5. ASSUME Emit(SceneStartPayload, SceneStart(cfg.n_lines, cfg.width), "malloc")
        PROVE  \E p : Writes(p)
    <3>1. PayloadOf(SceneStart(cfg.n_lines, cfg.width)) = SceneStartPayload
          /\ SceneStartPayload \in Nat
      BY DEF PayloadOf, SceneStart, SceneStartPayload
    <3> QED BY <1>0, <2>5, <3>1, EmitAdvances, OutPackets
  <2> QED BY <1>2, <2>0, <2>1, <2>2, <2>3, <2>4, <2>5 DEF EmitOpening
<1>3. ASSUME NEW t, Telemetry(t) \in OutType, NEW next, Emit(TelemetryPayload, Telemetry(t), next)
      PROVE  \E p : Writes(p)
  <2>1. PayloadOf(Telemetry(t)) = TelemetryPayload /\ TelemetryPayload \in Nat
    BY DEF PayloadOf, Telemetry, TelemetryPayload
  <2> QED BY <1>0, <1>3, <2>1, EmitAdvances
<1>4. CASE EmitTelemetry \/ EmitFinalTelemetry
  <2>1. Telemetry(timestamp) \in OutType /\ cfg' = cfg
    BY <1>4, OutPackets DEF EmitTelemetry, EmitFinalTelemetry, args
  <2>2. \E next : Emit(TelemetryPayload, Telemetry(timestamp), next)
    BY <1>4 DEF EmitTelemetry, EmitFinalTelemetry
  <2> QED BY <1>3, <2>1, <2>2
<1>5. CASE EmitExposureStart
  <2>1. /\ Emit(ExposureStartPayload, ExposureStart(timestamp), "LINE_DATA") /\ cfg' = cfg
        /\ ExposureStart(timestamp) \in OutType
    BY <1>5, OutPackets DEF EmitExposureStart, args
  <2>2. PayloadOf(ExposureStart(timestamp)) = ExposureStartPayload
        /\ ExposureStartPayload \in Nat
    BY DEF PayloadOf, ExposureStart, ExposureStartPayload
  <2> QED BY <1>0, <2>1, <2>2, EmitAdvances
<1>6. CASE EmitLineData
  <2> DEFINE p == LineData(band, line, [stride |-> SrcBands, from |-> SourceBand(band)])
  <2>1. /\ \E next : Emit(LineDataPayload(PixelBytes(cfg)), p, next)
        /\ cfg' = cfg /\ p \in OutType
    BY <1>6, OutPackets DEF EmitLineData, args
  <2>2. PayloadOf(p) = LineDataPayload(PixelBytes(cfg))
        /\ LineDataPayload(PixelBytes(cfg)) \in Nat
    BY <1>0 DEF PayloadOf, LineData, LineDataPayload, Padded
  <2> HIDE DEF p
  <2> QED BY <1>0, <2>1, <2>2, EmitAdvances
<1>7. CASE EmitSessionEnd
  <2>1. /\ Emit(SessionEndPayload, SessionEnd(cfg.session_id), "done") /\ cfg' = cfg
        /\ SessionEnd(cfg.session_id) \in OutType
    BY <1>7, OutPackets DEF EmitSessionEnd, args
  <2>2. PayloadOf(SessionEnd(cfg.session_id)) = SessionEndPayload /\ SessionEndPayload \in Nat
    BY DEF PayloadOf, SessionEnd, SessionEndPayload
  <2> QED BY <1>0, <2>1, <2>2, EmitAdvances
<1> QED BY <1>1, <1>2, <1>4, <1>5, <1>6, <1>7 DEF Next

\* A packet that stays keeps its size.
LEMMA SizeKept ==
    ASSUME cfg' = cfg, NEW k, out'[k] = out[k]
    PROVE  Size(k)' = Size(k)
BY DEF Size, PayloadOf, PixelBytes

\* A packet written begins where the last one ended; the others stay in place.
LEMMA TiledWrite ==
    ASSUME cfg \in Configs, cfg' = cfg, out \in Seq(OutType), pos \in Nat, Tiled,
           NEW p, Writes(p), offsets' = Append(offsets, pos)
    PROVE  /\ Tiled' /\ Len(out') = Len(out) + 1
           /\ \A k \in 1 .. Len(out) : /\ offsets'[k] = offsets[k] /\ out'[k] = out[k]
                                       /\ Size(k)' = Size(k)
<1>0. PICK n \in Nat : n = Len(out)
  OBVIOUS
<1>1. /\ Len(out) = n /\ Len(offsets) = n /\ offsets \in Seq(Nat) /\ Len(out') = n + 1
      /\ out' \in Seq(OutType) /\ offsets' \in Seq(Nat) /\ Len(offsets') = n + 1
      /\ offsets'[n + 1] = pos /\ out'[n + 1] = p
  BY <1>0 DEF Tiled, Writes
<1>2. \A k \in 1 .. n : offsets'[k] = offsets[k] /\ out'[k] = out[k]
  BY <1>1 DEF Writes
<1>3. \A k \in 1 .. n : Size(k)' = Size(k)
  BY <1>2, SizeKept
<1>4. /\ Place(n + 2)' = pos' /\ pos' = pos + Size(n + 1)'
      /\ Size(n + 1)' = PacketSize(PayloadOf(p))
  <2>1. PayloadOf(p)' = PayloadOf(p)
    BY DEF PayloadOf, PixelBytes
  <2>2. Size(n + 1)' = PacketSize(PayloadOf(p))
    BY <1>1, <2>1 DEF Size
  <2> QED BY <1>1, <2>2 DEF Place, Writes
<1>5. Size(n + 1)' \in Nat /\ Size(n + 1)' >= 12
  <2>1. p.id \in PacketIds
    BY OutIds DEF Writes
  <2> QED BY <1>4, <2>1, HeaderTells DEF Writes
<1>6. \A k \in 1 .. n + 1 : Place(k)' = Place(k)
  <2>1. Place(n + 1)' = pos /\ Place(n + 1) = pos
    BY <1>1 DEF Place
  <2>2. \A k \in 1 .. n : Place(k)' = Place(k)
    BY <1>1, <1>2 DEF Place
  <2> QED BY <1>1, <2>1, <2>2
<1>7. Place(1)' = 0
  BY <1>1, <1>6 DEF Tiled
<1>8. \A k \in 1 .. n + 1 : Place(k + 1)' = Place(k)' + Size(k)'
  <2>1. \A k \in 1 .. n : Place(k + 1)' = Place(k)' + Size(k)'
    BY <1>1, <1>3, <1>6 DEF Tiled
  <2>2. Place(n + 1)' = pos
    BY <1>1, <1>6 DEF Place
  <2>3. Place((n + 1) + 1)' = Place(n + 1)' + Size(n + 1)'
    BY <1>1, <1>4, <2>2
  <2> QED BY <1>1, <2>1, <2>3
<1>9. \A j, k \in 1 .. (n + 1) + 1 : j < k => Place(j)' < Place(k)'
  <2> SUFFICES ASSUME NEW j \in 1 .. (n + 1) + 1, NEW k \in 1 .. (n + 1) + 1, j < k
               PROVE  Place(j)' < Place(k)'
    OBVIOUS
  <2>1. CASE k # n + 2
    <3>1. j \in 1 .. n + 1 /\ k \in 1 .. n + 1
      BY <1>1, <2>1
    <3> QED BY <1>1, <1>6, <2>1, <3>1 DEF Tiled
  <2>2. CASE k = n + 2
    <3>1. j \in 1 .. n + 1 /\ n + 1 \in 1 .. n + 1
      BY <1>1, <2>2
    <3>2. Place(j) <= Place(n + 1) /\ Place(n + 1) = pos /\ Place(j) \in Nat
      <4>1. CASE j = n + 1
        BY <1>1, <4>1 DEF Place
      <4>2. CASE j # n + 1
        <5>1. j \in 1 .. n
          BY <1>1, <3>1, <4>2
        <5>2. Place(j) \in Nat
          BY <1>1, <5>1, PlaceFacts
        <5>3. Place(j) < Place(n + 1)
          BY <1>1, <3>1, <4>2 DEF Tiled
        <5> QED BY <1>1, <5>2, <5>3 DEF Place
      <4> QED BY <4>1, <4>2
    <3> QED BY <1>4, <1>5, <1>6, <2>2, <3>1, <3>2
  <2> QED BY <2>1, <2>2
<1> QED BY <1>0, <1>1, <1>2, <1>3, <1>7, <1>8, <1>9 DEF Tiled

(***************************************************************************)
(* Where a reader stands: in the bytes before the session, at the first packet *)
(* it has not taken, or at the end of the session; never elsewhere, which is     *)
(* why bytes that look like a header between two packets cannot mislead it.      *)
(***************************************************************************)
Upcoming == Len(found) + 1

ReaderInv ==
    /\ lead \in Nat /\ arrived \in Nat /\ at \in Nat /\ found \in Seq(Nat)
    /\ reader \in {"parser", "client"} /\ rstage \in {"read", "process", "ended"}
    /\ Len(found) <= Len(out)
    /\ \A k \in 1 .. Len(found) : found[k] = lead + offsets[k] /\ EndOf(k) <= arrived
    /\ (Len(found) = 0 /\ at < lead) \/ at = lead + Place(Upcoming)
    /\ arrived <= lead + Result
    /\ rstage # "read" \/ arrived > 0 => Result > 0
    /\ reader = "parser" /\ rstage # "read" => arrived = lead + Result
    /\ rstage = "ended" => Len(found) = Len(out)
    /\ rstage = "read" /\ Upcoming <= Len(out) => arrived < EndOf(Upcoming)

Buffered == cfg \in Configs /\ out \in Seq(OutType) /\ pos \in Nat /\ Tiled

\* A packet ends where the next place is, within what is written.
LEMMA Ends ==
    ASSUME Buffered, lead \in Nat, NEW k \in 1 .. Len(out)
    PROVE  /\ EndOf(k) = lead + Place(k + 1) /\ EndOf(k) = lead + offsets[k] + Size(k)
           /\ EndOf(k) \in Nat /\ EndOf(k) <= lead + pos
           /\ lead + offsets[k] + 12 <= EndOf(k) /\ offsets[k] \in Nat
<1>1. /\ Place(k) = offsets[k] /\ Place(k) \in Nat /\ Place(k + 1) \in Nat
      /\ Place(k + 1) = Place(k) + Size(k) /\ Size(k) \in Nat
      /\ Place(k + 1) <= pos /\ pos \in Nat
  <2>1. cfg \in Configs /\ out \in Seq(OutType) /\ pos \in Nat /\ Tiled
    BY DEF Buffered
  <2> QED BY <2>1, PlaceFacts
<1>2. EndOf(k) = lead + offsets[k] + Size(k)
  BY DEF EndOf, Size
<1>3. Size(k) >= 12
  BY PacketFacts DEF Buffered
<1> QED
  <2>1. \A e, l, o, p, q, z \in Nat :
            e = l + o + z /\ p = o + z /\ p <= q /\ z >= 12
            => e = l + p /\ e <= l + q /\ l + o + 12 <= e
    OBVIOUS
  <2>2. EndOf(k) \in Nat /\ offsets[k] \in Nat
    BY <1>1, <1>2
  <2> QED BY <1>1, <1>2, <1>3, <2>1, <2>2

\* No two packets start at the same place.
LEMMA OneThere ==
    ASSUME Buffered, lead \in Nat, NEW n \in 1 .. Len(out)
    PROVE  WrittenAt(lead + offsets[n]) = {n}
<1>1. \A k \in 1 .. Len(out) : Place(k) = offsets[k] /\ offsets[k] \in Nat
  BY PlaceFacts DEF Buffered
<1>2. DOMAIN out = 1 .. Len(out) /\ Len(out) \in Nat
  BY DEF Buffered
<1>3. ASSUME NEW k \in 1 .. Len(out), lead + offsets[k] = lead + offsets[n]
      PROVE  k = n
  <2>1. offsets[k] = offsets[n]
    BY <1>1, <1>3
  <2>2. k \in 1 .. Len(out) + 1 /\ n \in 1 .. Len(out) + 1
    BY <1>2
  <2>3. ~(k < n) /\ ~(n < k)
    BY <1>1, <2>1, <2>2 DEF Buffered, Tiled
  <2> QED BY <1>2, <2>3
<1> QED BY <1>2, <1>3 DEF WrittenAt

\* At the start of a packet there is its header and nothing else.
LEMMA HeaderThere ==
    ASSUME Buffered, lead \in Nat, NEW n \in 1 .. Len(out)
    PROVE  HeadersAt(lead + offsets[n]) = {Header(out[n])}
<1>1. offsets[n] \in Nat
  BY PlaceFacts DEF Buffered
<1>2. WrittenAt(lead + offsets[n]) = {n}
  BY OneThere
<1>3. HeadersAt(lead + offsets[n]) = {Header(out[k]) : k \in WrittenAt(lead + offsets[n])}
  <2>1. WrittenAt(lead + offsets[n]) # {}
    BY <1>2
  <2>3. ~(lead + offsets[n] < lead)
    BY <1>1
  <2> QED BY <2>1, <2>3 DEF HeadersAt
<1>4. {Header(out[k]) : k \in {n}} = {Header(out[n])}
  OBVIOUS
<1> QED BY <1>2, <1>3, <1>4

\* Before the session there is none.
LEMMA NoHeaderBefore ==
    ASSUME Buffered, lead \in Nat, NEW offset \in Nat, offset < lead
    PROVE  \A h \in HeadersAt(offset) : h.sync # SyncWord
<1>1. \A k \in 1 .. Len(out) : offsets[k] \in Nat
  BY Ends
<1>2. DOMAIN out = 1 .. Len(out)
  BY DEF Buffered
<1>3. WrittenAt(offset) = {}
  BY <1>1, <1>2 DEF WrittenAt
<1>4. HeadersAt(offset) = {NoHeader}
  BY <1>3 DEF HeadersAt
<1> QED BY <1>4 DEF NoHeader, SyncWord

BeforeSession(h) == Len(found) = 0 /\ at < lead /\ h.sync # SyncWord

AtPacket(h) ==
    /\ Upcoming \in 1 .. Len(out) /\ at = lead + offsets[Upcoming]
    /\ h.sync = SyncWord /\ FlagsValid(h.flags)
    /\ TotalLen(h) \in Nat /\ TotalLen(h) >= 12
    /\ at + TotalLen(h) = EndOf(Upcoming)

AtEnd == Len(found) = Len(out) /\ at = lead + pos

LEMMA Standing ==
    ASSUME Buffered, ReaderInv, NEW h \in HeadersAt(at)
    PROVE  BeforeSession(h) \/ AtPacket(h) \/ AtEnd
<1>1. /\ lead \in Nat /\ at \in Nat /\ Len(found) \in Nat /\ Len(out) \in Nat
      /\ Len(found) <= Len(out)
  BY DEF ReaderInv, Buffered
<1>2. CASE Len(found) = 0 /\ at < lead
  BY <1>1, <1>2, NoHeaderBefore DEF BeforeSession
<1>3. CASE at = lead + Place(Upcoming) /\ Upcoming <= Len(out)
  <2>1. Upcoming \in 1 .. Len(out)
    BY <1>1, <1>3 DEF Upcoming
  <2>2. at = lead + offsets[Upcoming]
    BY <1>3 DEF Place
  <2>3. h = Header(out[Upcoming])
    BY <1>1, <2>1, <2>2, HeaderThere
  <2>4. /\ TotalLen(h) = Size(Upcoming) /\ h.sync = SyncWord /\ FlagsValid(h.flags)
        /\ Size(Upcoming) \in Nat /\ Size(Upcoming) >= 12
    BY <2>1, <2>3, PacketFacts DEF Buffered
  <2>5. at + TotalLen(h) = EndOf(Upcoming)
    BY <1>1, <2>1, <2>2, <2>4, Ends
  <2> QED BY <2>1, <2>2, <2>4, <2>5 DEF AtPacket
<1>4. CASE at = lead + Place(Upcoming) /\ ~(Upcoming <= Len(out))
  BY <1>1, <1>4 DEF AtEnd, Place, Upcoming
<1> QED BY <1>2, <1>3, <1>4 DEF ReaderInv

(***************************************************************************)
(* The reader's invariant is inductive: one step per action.                 *)
(***************************************************************************)
LEMMA ReaderStart == Init /\ ReaderInit => Tiled /\ ReaderInv
<1> SUFFICES ASSUME Init, ReaderInit PROVE Tiled /\ ReaderInv
  OBVIOUS
<1>1. /\ out = <<>> /\ offsets = <<>> /\ pos = 0 /\ stage = "size" /\ found = <<>>
      /\ lead \in Nat /\ arrived = 0 /\ at = 0 /\ rstage = "read"
      /\ reader \in {"parser", "client"}
  BY ReaderAssumption DEF Init, ReaderInit
<1>2. Len(out) = 0 /\ Len(found) = 0 /\ Place(1) = 0 /\ Upcoming = 1 /\ Result = 0
  BY <1>1 DEF Place, Upcoming, Result
<1>3. Tiled
  BY <1>1, <1>2 DEF Tiled
<1>4. (Len(found) = 0 /\ at < lead) \/ at = lead + Place(Upcoming)
  BY <1>1, <1>2
<1> QED BY <1>1, <1>2, <1>3, <1>4 DEF ReaderInv

\* A statement of xs_build_session: as long as it runs, nothing has been read.
LEMMA BuildKeeps ==
    ASSUME SizeInv, OrderInv, SizeInv', Tiled, ReaderInv, Build
    PROVE  Tiled' /\ ReaderInv'
<1>1. /\ Buffered /\ pos' \in Nat /\ cfg' = cfg
      /\ UNCHANGED <<lead, reader, rstage, arrived, at, found>>
      /\ offsets' = IF out' = out THEN offsets ELSE Append(offsets, pos)
      /\ lead \in Nat /\ at \in Nat /\ Len(found) \in Nat /\ Len(out) \in Nat
  <2>1. Next /\ cfg' = cfg
    BY OneWrite DEF Build
  <2>2. cfg \in Configs /\ pos \in Nat /\ pos' \in Nat
    BY DEF SizeInv, TypeOK
  <2>3. out \in Seq(OutType) /\ Len(out) \in Nat
    BY DEF OrderInv
  <2>4. lead \in Nat /\ at \in Nat /\ Len(found) \in Nat
    BY DEF ReaderInv
  <2>5. /\ UNCHANGED <<lead, reader, rstage, arrived, at, found>>
        /\ offsets' = IF out' = out THEN offsets ELSE Append(offsets, pos)
    BY DEF Build, source, position
  <2> QED BY <2>1, <2>2, <2>3, <2>4, <2>5 DEF Buffered
<1>2. CASE stage = "done"
  <2>1. UNCHANGED vars
    BY <1>2 DEF Build, Next, CheckSize, EmitOpening, AllocatePixels, NextLine, EmitTelemetry,
                EmitExposureStart, EmitLineData, EmitFinalTelemetry, EmitSessionEnd, Finished
  <2>2. UNCHANGED <<cfg, stage, pos, out, offsets>>
    BY <1>1, <2>1 DEF vars, args
  <2>3. Tiled'
    <3>1. \A k : Size(k)' = Size(k) /\ Place(k)' = Place(k)
      BY <2>2 DEF Place, Size, PayloadOf, PixelBytes
    <3> QED BY <2>2, <3>1 DEF Tiled
  <2>4. \A k : EndOf(k)' = EndOf(k)
    BY <1>1, <2>2 DEF EndOf, PayloadOf, PixelBytes
  <2> QED BY <1>1, <2>2, <2>3, <2>4 DEF ReaderInv, Upcoming, Result, Place
<1>3. CASE stage # "done"
  <2>1. /\ Result = 0 /\ arrived = 0 /\ rstage = "read" /\ Result' \in Nat
    BY <1>1, <1>3 DEF ReaderInv, Result
  <2>2. Len(found) = 0 /\ Upcoming = 1
    <3>1. ASSUME Len(found) # 0 PROVE FALSE
      <4>1. 1 \in 1 .. Len(found) /\ 1 \in 1 .. Len(out)
        BY <1>1, <3>1 DEF ReaderInv
      <4>2. EndOf(1) <= arrived
        BY <4>1 DEF ReaderInv
      <4>3. lead + offsets[1] + 12 <= EndOf(1) /\ offsets[1] \in Nat /\ EndOf(1) \in Nat
        BY <1>1, <4>1, Ends
      <4> QED BY <1>1, <2>1, <4>2, <4>3
    <3> QED BY <3>1 DEF Upcoming
  <2>3. Tiled' /\ Len(out') \in Nat /\ out' \in Seq(OutType)
    <3>1. CASE out' = out /\ pos' = pos
      <4>1. offsets' = offsets
        BY <1>1, <3>1
      <4>2. \A k : Size(k)' = Size(k) /\ Place(k)' = Place(k)
        BY <1>1, <3>1, <4>1 DEF Place, Size, PayloadOf, PixelBytes
      <4>3. Len(out') \in Nat /\ out' \in Seq(OutType)
        BY <1>1, <3>1 DEF Buffered
      <4>4. Tiled'
        BY <3>1, <4>1, <4>2 DEF Tiled
      <4> QED BY <4>3, <4>4
    <3>2. ASSUME NEW p, Writes(p) PROVE Tiled' /\ Len(out') \in Nat /\ out' \in Seq(OutType)
      <4>1. out' # out /\ out' \in Seq(OutType)
        <5>1. Len(out') = Len(out) + 1 /\ out' \in Seq(OutType)
          BY <1>1, <3>2 DEF Writes, Buffered
        <5> QED BY <1>1, <5>1
      <4>2. offsets' = Append(offsets, pos)
        BY <1>1, <4>1
      <4> QED BY <1>1, <3>2, <4>1, <4>2, TiledWrite DEF Buffered
    <3> QED BY <3>1, <3>2, OneWrite DEF Build
  <2>4. Place(1)' = 0 /\ Place(1) = 0
    BY <2>3 DEF Tiled
  <2>5. Upcoming' = 1 /\ Len(found') = 0
    BY <1>1, <2>2 DEF Upcoming
  <2>6. (Len(found') = 0 /\ at' < lead') \/ at' = lead' + Place(Upcoming)'
    <3>1. at < lead \/ at = lead + 0
      BY <2>2, <2>4 DEF ReaderInv
    <3>2. Place(Upcoming)' = 0
      BY <2>3, <2>4, <2>5 DEF Place
    <3> QED BY <1>1, <2>5, <3>1, <3>2
  <2>7. ASSUME Upcoming' <= Len(out') PROVE arrived' < EndOf(Upcoming)'
    <3>1. 1 \in 1 .. Len(out')
      BY <2>3, <2>5, <2>7
    <3>2. PICK q \in OutType : q = out'[1]
      BY <2>3, <3>1
    <3>3. PayloadOf(q)' = PayloadOf(q)
      BY <1>1 DEF PayloadOf, PixelBytes
    <3>4. PacketSize(PayloadOf(q)) \in Nat /\ PacketSize(PayloadOf(q)) >= 12
      BY <1>1, <3>2, OutIds, HeaderTells DEF Buffered
    <3>5. offsets'[1] \in Nat
      BY <2>3, <3>1 DEF Tiled
    <3>6. EndOf(1)' = lead + offsets'[1] + PacketSize(PayloadOf(q))
      BY <1>1, <3>2, <3>3 DEF EndOf
    <3>7. EndOf(Upcoming)' = EndOf(1)'
      BY <2>5 DEF EndOf
    <3> QED BY <1>1, <2>1, <3>4, <3>5, <3>6, <3>7
  <2>8. /\ lead' \in Nat /\ arrived' \in Nat /\ at' \in Nat /\ found' \in Seq(Nat)
        /\ reader' \in {"parser", "client"} /\ rstage' = "read" /\ arrived' = 0
    BY <1>1, <2>1 DEF ReaderInv
  <2>9. \A k \in 1 .. Len(found') :
            found'[k] = lead' + offsets'[k] /\ EndOf(k)' <= arrived'
    BY <2>5
  <2>10. arrived' <= lead' + Result'
    <3>1. PICK r \in Nat : r = Result'
      BY <2>1
    <3>2. lead' \in Nat /\ arrived' = 0
      BY <2>8
    <3>3. PICK n \in Nat : n = lead'
      BY <3>2
    <3>4. 0 <= n + r
      OBVIOUS
    <3> QED BY <3>1, <3>2, <3>3, <3>4
  <2> QED BY <2>3, <2>5, <2>6, <2>7, <2>8, <2>9, <2>10 DEF ReaderInv
<1> QED BY <1>2, <1>3

\* Reading changes nothing of the buffer.
LEMMA SameBuffer ==
    ASSUME UNCHANGED <<vars, offsets, source>>
    PROVE  /\ UNCHANGED <<cfg, stage, pos, out, offsets, lead, reader>>
           /\ Result' = Result /\ (Tiled => Tiled')
           /\ \A k : Place(k)' = Place(k) /\ EndOf(k)' = EndOf(k)
<1>1. UNCHANGED <<cfg, stage, pos, out, offsets, lead, reader>>
  BY DEF vars, args, source
<1>2. \A k : Size(k)' = Size(k) /\ Place(k)' = Place(k) /\ EndOf(k)' = EndOf(k)
  BY <1>1 DEF Size, Place, EndOf, PayloadOf, PixelBytes
<1>3. Result' = Result
  BY <1>1 DEF Result
<1>4. Tiled => Tiled'
  BY <1>1, <1>2 DEF Tiled
<1> QED BY <1>1, <1>2, <1>3, <1>4

\* While bytes are gone through, all of them are there that were announced.
LEMMA Announced ==
    ASSUME Buffered, ReaderInv, rstage # "read"
    PROVE  /\ Result = pos /\ pos \in Nat /\ pos > 0 /\ lead \in Nat /\ at \in Nat
           /\ arrived \in Nat /\ arrived <= lead + pos
           /\ reader = "parser" => arrived = lead + pos
BY DEF ReaderInv, Buffered, Result

\* A byte that starts no sync word is left behind, before the session only.
LEMMA SkipKeeps ==
    ASSUME Buffered, ReaderInv, rstage = "process", NEW h \in HeadersAt(at),
           h.sync # SyncWord, at + 2 <= arrived, SkipByte,
           UNCHANGED <<vars, offsets, source, rstage, arrived>>
    PROVE  ReaderInv'
<1>1. /\ UNCHANGED <<cfg, stage, pos, out, offsets, lead, reader, rstage, arrived, found>>
      /\ Result' = Result /\ at' = at + 1
      /\ \A k : Place(k)' = Place(k) /\ EndOf(k)' = EndOf(k)
  BY SameBuffer DEF SkipByte, source
<1>2. /\ lead \in Nat /\ at \in Nat /\ arrived \in Nat /\ pos \in Nat
      /\ arrived <= lead + pos
  BY Announced
<1>3. ~AtPacket(h) /\ ~AtEnd
  BY <1>2 DEF AtPacket, AtEnd
<1>4. Len(found) = 0 /\ at < lead
  BY <1>3, Standing DEF BeforeSession
<1>5. Place(1) = 0 /\ Upcoming = 1 /\ Upcoming' = 1
  BY <1>1, <1>4 DEF Buffered, Tiled, Upcoming
<1>6. at' \in Nat /\ (at' < lead \/ at' = lead + Place(1))
  BY <1>1, <1>2, <1>4, <1>5
<1>7. Place(Upcoming)' = Place(Upcoming) /\ EndOf(Upcoming)' = EndOf(Upcoming)
  BY <1>1 DEF Upcoming, Place, EndOf
<1>8. (Len(found') = 0 /\ at' < lead') \/ at' = lead' + Place(Upcoming)'
  BY <1>1, <1>4, <1>5, <1>6, <1>7
<1> QED BY <1>1, <1>6, <1>7, <1>8 DEF ReaderInv, Upcoming

\* A packet that is there whole is taken, and the reader comes to the next.
LEMMA TakeKeeps ==
    ASSUME Buffered, ReaderInv, rstage = "process", NEW h \in HeadersAt(at),
           h.sync = SyncWord, at + 8 <= arrived, at + TotalLen(h) <= arrived, Take(h),
           UNCHANGED <<vars, offsets, source, rstage, arrived>>
    PROVE  ReaderInv'
<1>1. /\ UNCHANGED <<cfg, stage, pos, out, offsets, lead, reader, rstage, arrived>>
      /\ Result' = Result /\ at' = at + TotalLen(h) /\ found' = Append(found, at)
      /\ \A k : Place(k)' = Place(k) /\ EndOf(k)' = EndOf(k)
  BY SameBuffer DEF Take, source
<1>2. /\ lead \in Nat /\ at \in Nat /\ arrived \in Nat /\ pos \in Nat
      /\ arrived <= lead + pos /\ found \in Seq(Nat) /\ Len(found) <= Len(out)
  BY Announced DEF ReaderInv
<1>3. ~BeforeSession(h) /\ ~AtEnd
  BY <1>2 DEF BeforeSession, AtEnd
<1>4. AtPacket(h)
  BY <1>3, Standing
<1>5. PICK n \in Nat : n = Len(found)
  BY <1>2
<1>6. /\ n + 1 \in 1 .. Len(out) /\ at = lead + offsets[n + 1]
      /\ at + TotalLen(h) = EndOf(n + 1) /\ TotalLen(h) \in Nat
  BY <1>4, <1>5 DEF AtPacket, Upcoming
<1>7. Len(found') = n + 1 /\ found' \in Seq(Nat) /\ Upcoming' = n + 2 /\ at' \in Nat
  BY <1>1, <1>2, <1>5, <1>6 DEF Upcoming
<1>8. at' = lead + Place(n + 2)
  <2>1. EndOf(n + 1) = lead + Place((n + 1) + 1) /\ (n + 1) + 1 = n + 2
    BY <1>2, <1>6, Ends
  <2> QED BY <1>1, <1>6, <2>1
<1>9. Place(Upcoming)' = Place(n + 2)
  BY <1>1, <1>7 DEF Place
<1>10. \A k \in 1 .. Len(found') : found'[k] = lead' + offsets'[k] /\ EndOf(k)' <= arrived'
  <2> SUFFICES ASSUME NEW k \in 1 .. Len(found')
               PROVE  found'[k] = lead + offsets[k] /\ EndOf(k) <= arrived
    BY <1>1
  <2>1. CASE k = n + 1
    BY <1>1, <1>2, <1>5, <1>6, <2>1
  <2>2. CASE k # n + 1
    <3>1. k \in 1 .. Len(found)
      BY <1>5, <1>7, <2>2
    <3> QED BY <1>1, <1>2, <3>1 DEF ReaderInv
  <2> QED BY <2>1, <2>2
<1>11. Len(found') <= Len(out')
  BY <1>1, <1>6, <1>7
<1> QED BY <1>1, <1>7, <1>8, <1>9, <1>10, <1>11 DEF ReaderInv

\* The parser stops at the end of the session only.
LEMMA StopKeeps ==
    ASSUME Buffered, ReaderInv, NEW h \in HeadersAt(at), StopParsing(h),
           UNCHANGED <<vars, offsets>>
    PROVE  ReaderInv'
<1>1. /\ UNCHANGED <<cfg, stage, pos, out, offsets, lead, reader, arrived, at, found>>
      /\ Result' = Result /\ rstage' = "ended" /\ rstage = "process" /\ reader = "parser"
      /\ \A k : Place(k)' = Place(k) /\ EndOf(k)' = EndOf(k)
  BY SameBuffer DEF StopParsing, Parsing, source, position
<1>2. /\ lead \in Nat /\ at \in Nat /\ pos \in Nat /\ pos > 0 /\ arrived = lead + pos
  BY <1>1, Announced
<1>3. \/ arrived - at < 2
      \/ h.sync = SyncWord
         /\ ~(Parses(h, arrived - at) /\ at + TotalLen(h) <= arrived)
  BY DEF StopParsing
<1>4. Len(out) \in Nat /\ Len(found) \in Nat /\ Len(found) <= Len(out)
  BY DEF ReaderInv, Buffered
<1>5. CASE BeforeSession(h)
  <2>1. Len(found) = 0 /\ at < lead /\ arrived - at < 2
    BY <1>3, <1>5 DEF BeforeSession
  <2>2. pos = 0 \/ Len(out) >= 1
    BY <1>4 DEF Buffered, Tiled, Place
  <2>3. Len(out) >= 1
    BY <1>2, <2>2
  <2>4. 1 \in 1 .. Len(out)
    BY <1>4, <2>3
  <2>5. lead + offsets[1] + 12 <= EndOf(1) /\ EndOf(1) <= lead + pos /\ EndOf(1) \in Nat
        /\ offsets[1] \in Nat
    BY <1>2, <2>4, Ends
  <2> QED BY <1>2, <2>1, <2>5
<1>6. CASE AtPacket(h)
  <2>1. /\ h.sync = SyncWord /\ FlagsValid(h.flags) /\ TotalLen(h) \in Nat
        /\ TotalLen(h) >= 12 /\ at + TotalLen(h) = EndOf(Upcoming)
        /\ Upcoming \in 1 .. Len(out)
    BY <1>6 DEF AtPacket
  <2>2. EndOf(Upcoming) <= lead + pos
    BY <1>2, <2>1, Ends
  <2>3. at + TotalLen(h) <= arrived
    BY <1>2, <2>1, <2>2
  <2>4. arrived - at >= 12
    BY <1>2, <2>1, <2>3
  <2>5. Parses(h, arrived - at)
    BY <1>2, <2>1, <2>4 DEF Parses, HeaderSize
  <2> QED BY <1>2, <1>3, <2>3, <2>4, <2>5
<1>7. CASE AtEnd
  BY <1>1, <1>7 DEF AtEnd, ReaderInv, Upcoming, Place
<1> QED BY <1>5, <1>6, <1>7, Standing

\* The client goes back to reading only when the next packet is not there whole.
LEMMA WaitKeeps ==
    ASSUME Buffered, ReaderInv, NEW h \in HeadersAt(at), ClientWaits(h),
           UNCHANGED <<vars, offsets>>
    PROVE  ReaderInv'
<1>1. /\ UNCHANGED <<cfg, stage, pos, out, offsets, lead, reader, arrived, at, found>>
      /\ Result' = Result /\ rstage' = "read" /\ rstage = "process" /\ reader = "client"
      /\ \A k : Place(k)' = Place(k) /\ EndOf(k)' = EndOf(k)
  BY SameBuffer DEF ClientWaits, Processing, source, position
<1>2. /\ lead \in Nat /\ at \in Nat /\ pos \in Nat /\ arrived \in Nat /\ Result > 0
      /\ Len(out) \in Nat /\ Len(found) \in Nat
  BY <1>1, Announced DEF Buffered, ReaderInv
<1>3. \/ ~(at + 8 <= arrived)
      \/ h.sync = SyncWord /\ at + TotalLen(h) > arrived
  BY DEF ClientWaits, HeaderArrived, HeaderSize
<1>4. ASSUME Upcoming <= Len(out) PROVE arrived < EndOf(Upcoming)
  <2>0. Upcoming \in 1 .. Len(out)
    BY <1>2, <1>4 DEF Upcoming
  <2>1. CASE BeforeSession(h)
    <3>1. at < lead /\ ~(at + 8 <= arrived)
      BY <1>3, <2>1 DEF BeforeSession
    <3>2. lead + offsets[Upcoming] + 12 <= EndOf(Upcoming) /\ offsets[Upcoming] \in Nat
          /\ EndOf(Upcoming) \in Nat
      BY <1>2, <2>0, Ends
    <3> QED BY <1>2, <3>1, <3>2
  <2>2. CASE AtPacket(h)
    <3>1. TotalLen(h) \in Nat /\ TotalLen(h) >= 12 /\ at + TotalLen(h) = EndOf(Upcoming)
      BY <2>2 DEF AtPacket
    <3> QED BY <1>2, <1>3, <3>1
  <2>3. CASE AtEnd
    BY <1>2, <1>4, <2>3 DEF AtEnd, Upcoming
  <2> QED BY <2>1, <2>2, <2>3, Standing
<1>5. Upcoming' = Upcoming /\ Place(Upcoming)' = Place(Upcoming)
      /\ EndOf(Upcoming)' = EndOf(Upcoming)
  BY <1>1 DEF Upcoming, Place, EndOf
<1> QED BY <1>1, <1>2, <1>4, <1>5 DEF ReaderInv

\* More bytes move no reader.
Arrival == GivenBuffer \/ \E n \in ReadSizes : ClientReads(n)

LEMMA ArrivalKeeps ==
    ASSUME Buffered, ReaderInv, Arrival, UNCHANGED <<vars, offsets>>
    PROVE  ReaderInv'
<1>1. /\ UNCHANGED <<lead, reader, at, found>> /\ rstage' = "process" /\ Result > 0
  BY DEF Arrival, GivenBuffer, ClientReads, source, position
<1>2. /\ UNCHANGED <<cfg, stage, pos, out, offsets>> /\ Result' = Result
      /\ \A k : Place(k)' = Place(k) /\ EndOf(k)' = EndOf(k)
  BY <1>1, SameBuffer DEF source
<1>3. Result \in Nat /\ Result = pos /\ lead \in Nat /\ arrived \in Nat
  BY <1>1 DEF Result, Buffered, ReaderInv
<1>4. /\ arrived' \in Nat /\ arrived <= arrived' /\ arrived' <= lead + Result
      /\ reader = "parser" => arrived' = lead + Result
  <2>1. CASE GivenBuffer
    BY <1>3, <2>1 DEF GivenBuffer, ReaderInv
  <2>2. ASSUME NEW n \in ReadSizes, ClientReads(n)
        PROVE  /\ arrived' \in Nat /\ arrived <= arrived' /\ arrived' <= lead + Result
               /\ reader # "parser"
    <3>1. n \in Nat
      BY ReaderAssumption
    <3>2. /\ arrived' = IF arrived + n > lead + Result THEN lead + Result ELSE arrived + n
          /\ arrived < lead + Result /\ reader = "client"
      BY <2>2 DEF ClientReads
    <3> QED BY <1>3, <3>1, <3>2
  <2> QED BY <2>1, <2>2 DEF Arrival
<1>5. \A k \in 1 .. Len(found) : EndOf(k) <= arrived'
  <2> SUFFICES ASSUME NEW k \in 1 .. Len(found) PROVE EndOf(k) <= arrived'
    OBVIOUS
  <2>1. EndOf(k) <= arrived /\ k \in 1 .. Len(out)
    BY DEF ReaderInv, Buffered
  <2>2. EndOf(k) \in Nat
    BY <1>3, <2>1, Ends
  <2> QED BY <1>3, <1>4, <2>1, <2>2
<1>6. Upcoming' = Upcoming /\ Place(Upcoming)' = Place(Upcoming)
  BY <1>1, <1>2 DEF Upcoming, Place
<1> QED BY <1>1, <1>2, <1>4, <1>5, <1>6 DEF ReaderInv

\* Every step of a reader keeps where it stands.
LEMMA ReadKeeps ==
    ASSUME Buffered, ReaderInv, ReadStep
    PROVE  Tiled' /\ ReaderInv'
<1>1. UNCHANGED <<vars, offsets, source>>
  BY DEF ReadStep, GivenBuffer, ClientReads, FindSync, CountPacket, StopParsing, ClientSkips,
         ClientTakes, ClientWaits
<1>2. Tiled'
  BY <1>1, SameBuffer DEF Buffered
<1>3. lead \in Nat /\ at \in Nat /\ arrived \in Nat
  BY DEF ReaderInv
<1>4. CASE Arrival
  <2>1. UNCHANGED <<vars, offsets>>
    BY <1>1
  <2> QED BY <1>2, <1>4, <2>1, ArrivalKeeps
<1>5. ASSUME NEW h \in HeadersAt(at), FindSync(h) \/ ClientSkips(h)
      PROVE  ReaderInv'
  <2>1. /\ rstage = "process" /\ h.sync # SyncWord /\ at + 2 <= arrived /\ SkipByte
        /\ UNCHANGED <<rstage, arrived>>
    <3>1. CASE FindSync(h)
      BY <1>3, <3>1 DEF FindSync, Parsing
    <3>2. CASE ClientSkips(h)
      BY <1>3, <3>2 DEF ClientSkips, Processing, HeaderArrived, HeaderSize
    <3> QED BY <1>5, <3>1, <3>2
  <2> QED BY <1>1, <2>1, SkipKeeps
<1>6. ASSUME NEW h \in HeadersAt(at), CountPacket(h) \/ ClientTakes(h)
      PROVE  ReaderInv'
  <2>1. /\ rstage = "process" /\ h.sync = SyncWord /\ at + 8 <= arrived
        /\ at + TotalLen(h) <= arrived /\ Take(h) /\ UNCHANGED <<rstage, arrived>>
    <3>1. CASE CountPacket(h)
      BY <1>3, <3>1 DEF CountPacket, Parsing, Parses, HeaderSize
    <3>2. CASE ClientTakes(h)
      BY <1>3, <3>2 DEF ClientTakes, Processing, HeaderArrived, HeaderSize
    <3> QED BY <1>6, <3>1, <3>2
  <2> QED BY <1>1, <2>1, TakeKeeps
<1>7. ASSUME NEW h \in HeadersAt(at), StopParsing(h) \/ ClientWaits(h)
      PROVE  ReaderInv'
  BY <1>1, <1>7, StopKeeps, WaitKeeps
<1> QED BY <1>2, <1>4, <1>5, <1>6, <1>7 DEF ReadStep, Arrival

\* Where a reader stands decides what it has found.
LEMMA StandingFinds == SizeInv /\ OrderInv /\ Tiled /\ ReaderInv => ReadersFollowBuffer
<1> SUFFICES ASSUME SizeInv, OrderInv, Tiled, ReaderInv PROVE ReadersFollowBuffer
  OBVIOUS
<1>1. Buffered
  BY DEF Buffered, SizeInv, TypeOK, OrderInv
<1>2. /\ DOMAIN out = 1 .. Len(out) /\ DOMAIN found = 1 .. Len(found)
      /\ Len(out) \in Nat /\ Len(found) \in Nat /\ lead \in Nat /\ arrived \in Nat
  BY <1>1 DEF Buffered, ReaderInv
<1>3. ASSUME rstage = "read", NEW k \in DOMAIN out, EndOf(k) <= arrived
      PROVE  k <= Len(found)
  <2> SUFFICES ASSUME ~(k <= Len(found)) PROVE FALSE
    OBVIOUS
  <2>1. Upcoming \in 1 .. Len(out) /\ Upcoming <= k /\ k \in 1 .. Len(out)
    BY <1>2 DEF Upcoming
  <2>2. arrived < EndOf(Upcoming)
    BY <1>3, <2>1 DEF ReaderInv
  <2>3. /\ EndOf(Upcoming) = lead + Place(Upcoming + 1) /\ EndOf(Upcoming) \in Nat
        /\ EndOf(k) = lead + Place(k + 1) /\ EndOf(k) \in Nat
        /\ Place(Upcoming + 1) \in Nat /\ Place(k + 1) \in Nat
    BY <1>1, <1>2, <2>1, Ends, PlaceFacts DEF Buffered
  <2>4. CASE Upcoming = k
    BY <1>2, <1>3, <2>2, <2>3, <2>4
  <2>5. CASE Upcoming # k
    <3>1. /\ Upcoming + 1 \in 1 .. Len(out) + 1 /\ k + 1 \in 1 .. Len(out) + 1
          /\ Upcoming + 1 < k + 1
      BY <1>2, <2>1, <2>5
    <3>2. Place(Upcoming + 1) < Place(k + 1)
      BY <3>1 DEF Tiled
    <3> QED BY <1>2, <1>3, <2>2, <2>3, <3>2
  <2> QED BY <2>4, <2>5
<1> QED BY <1>2, <1>3 DEF ReadersFollowBuffer, ReaderInv

\* Reading changes nothing of what xs_build_session does: every theorem of Spec holds
\* of the builder with its readers.
THEOREM ReadersOnlyRead == ReadingSpec => Spec
<1>1. ReadingInit => Init
  BY DEF ReadingInit
<1>2. [ReadingNext]_<<vars, readerVars>> => [Next]_vars
  BY DEF ReadingNext, Build, ReadStep
<1> QED BY <1>1, <1>2, PTL DEF ReadingSpec, Spec

\* A reader's place is always one of those three.
THEOREM ReaderInvariant == ReadingSpec => [](SizeInv /\ OrderInv /\ Tiled /\ ReaderInv)
<1>1. ReadingInit => Tiled /\ ReaderInv
  BY ReaderStart DEF ReadingInit
<1>2. /\ SizeInv /\ OrderInv /\ (SizeInv /\ OrderInv)'
      /\ Tiled /\ ReaderInv /\ [ReadingNext]_<<vars, readerVars>>
      => (Tiled /\ ReaderInv)'
  <2> SUFFICES ASSUME SizeInv, OrderInv, SizeInv', OrderInv', Tiled, ReaderInv,
                      [ReadingNext]_<<vars, readerVars>>
               PROVE  Tiled' /\ ReaderInv'
    OBVIOUS
  <2>1. CASE Build
    BY <2>1, BuildKeeps
  <2>2. CASE ReadStep
    BY <2>2, ReadKeeps DEF Buffered, SizeInv, TypeOK, OrderInv
  <2>3. CASE UNCHANGED <<vars, readerVars>>
    <3>1. UNCHANGED <<vars, offsets, source>> /\ UNCHANGED <<rstage, arrived, at, found>>
      BY <2>3 DEF readerVars, position
    <3>2. /\ UNCHANGED <<out, lead, reader, offsets>> /\ Result' = Result /\ Tiled'
          /\ \A k : Place(k)' = Place(k) /\ EndOf(k)' = EndOf(k)
      BY <3>1, SameBuffer
    <3>3. Upcoming' = Upcoming /\ Place(Upcoming)' = Place(Upcoming)
          /\ EndOf(Upcoming)' = EndOf(Upcoming)
      BY <3>1, <3>2 DEF Upcoming, Place, EndOf
    <3> QED BY <3>1, <3>2, <3>3 DEF ReaderInv
  <2> QED BY <2>1, <2>2, <2>3 DEF ReadingNext
<1> QED
  BY <1>1, <1>2, ReadersOnlyRead, OrderInvariant, PTL DEF ReadingSpec

\* For every configuration, every way reads cut the bytes and every number of bytes
\* before the session, and whatever the bytes between headers look like, the parser and
\* the client find the packets xs_build_session wrote, where it wrote them, each once
\* and in order; the parser all of them, the client all that have arrived whole
\* (ReadersFollowBuffer).
THEOREM ReadersFindPackets == ReadingSpec => []ReadersFollowBuffer
BY StandingFinds, ReaderInvariant, PTL

(***************************************************************************)
(* What a reader hands on: the first packets of the buffer, each of them one   *)
(* the order allows after those before it.                                   *)
(***************************************************************************)
First(n) == [k \in 1 .. n |-> out[k]]

InOrder == \A n \in Nat : n < Len(out) => Icd!Allowed(First(n), out[n + 1])

Handed ==
    /\ out \in Seq(OutType) /\ Len(found) \in Nat /\ Len(found) <= Len(out)
    /\ Delivered = First(Len(found))

LEMMA FoundIsHanded == SizeInv /\ OrderInv /\ Tiled /\ ReaderInv => Handed
<1> SUFFICES ASSUME SizeInv, OrderInv, Tiled, ReaderInv PROVE Handed
  OBVIOUS
<1>1. Buffered
  BY DEF Buffered, SizeInv, TypeOK, OrderInv
<1>2. /\ DOMAIN found = 1 .. Len(found) /\ Len(found) \in Nat /\ Len(out) \in Nat
      /\ out \in Seq(OutType) /\ DOMAIN out = 1 .. Len(out) /\ lead \in Nat
      /\ Len(found) <= Len(out)
  BY <1>1 DEF Buffered, ReaderInv
<1>3. ASSUME NEW n \in 1 .. Len(found)
      PROVE  PacketAt(found[n]) = out[n]
  <2>1. n \in 1 .. Len(out)
    BY <1>2
  <2>2. found[n] = lead + offsets[n]
    BY DEF ReaderInv
  <2>3. WrittenAt(found[n]) = {n}
    BY <1>1, <1>2, <2>1, <2>2, OneThere
  <2>4. (CHOOSE k \in DOMAIN out : lead + offsets[k] = found[n]) = n
    BY <2>3 DEF WrittenAt
  <2> QED BY <2>3, <2>4 DEF PacketAt
<1>4. Delivered = First(Len(found))
  BY <1>2, <1>3 DEF Delivered, First
<1> QED BY <1>2, <1>4 DEF Handed

\* The order holds of every beginning of the buffer.
LEMMA OrderGrows ==
    ASSUME \A c \in Configs : c.n_lines < U24, SizeInv, OrderInv, SizeInv', InOrder,
           [Next]_vars
    PROVE  InOrder' /\ \A n \in Nat : n <= Len(out) => First(n)' = First(n)
<1>1. out \in Seq(OutType) /\ Len(out) \in Nat
  BY DEF OrderInv
<1>2. CASE out' = out
  BY <1>2 DEF InOrder, First
<1>3. CASE \E p : Writes(p)
  <2>1. PICK p \in OutType : out' = Append(out, p)
    BY <1>3 DEF Writes
  <2>2. PICK N \in Nat : N = Len(out)
    BY <1>1
  <2>3. /\ Len(out') = N + 1 /\ out'[N + 1] = p /\ out' # out /\ out' # <<>>
        /\ \A k \in 1 .. N : out'[k] = out[k]
    BY <1>1, <2>1, <2>2
  <2>4. \A n \in Nat : n <= N => First(n)' = First(n)
    BY <2>3 DEF First
  <2>5. First(N) = out
    BY <1>1, <2>2 DEF First
  <2>6. Icd!Receive
    BY <2>3, IcdStep DEF Icd!Next, Icd!Reconnect
  <2>7. Icd!Allowed(out, p)
    BY <2>3, <2>6 DEF Icd!Receive, Icd!Last
  <2>8. ASSUME NEW n \in Nat, n < N + 1
        PROVE  Icd!Allowed(First(n), out'[n + 1])
    <3>1. CASE n = N
      BY <2>3, <2>5, <2>7, <3>1
    <3>2. CASE n # N
      <4>1. n < N /\ n + 1 \in 1 .. N
        BY <2>8, <3>2
      <4> QED BY <2>2, <2>3, <4>1 DEF InOrder
    <3> QED BY <3>1, <3>2
  <2>9. InOrder'
    BY <2>3, <2>4, <2>8 DEF InOrder
  <2> QED BY <2>2, <2>4, <2>9
<1> QED BY <1>2, <1>3, OneWrite

\* For every configuration of fewer than 2^24 lines, what the parser counts and what the
\* client takes, however reads cut the bytes, is packet by packet the beginning of a
\* session (DeliveryFollowsIcd): builder and reader together implement IcdSession.
THEOREM DeliveryRefinesIcd ==
    ASSUME \A c \in Configs : c.n_lines < U24
    PROVE  ReadingSpec => DeliveryFollowsIcd
<1> DEFINE I == SizeInv /\ OrderInv /\ Tiled /\ ReaderInv
           Known == I /\ Handed
           step == [ReadingNext]_<<vars, readerVars>>
<1>1. ReadingSpec => []Known
  BY FoundIsHanded, ReaderInvariant, PTL
<1>2. ReadingInit => Read!Init /\ InOrder
  BY DEF ReadingInit, ReaderInit, Init, Read!Init, Delivered, InOrder
<1>3. \A ps, p : Icd!Allowed(ps, p) <=> Read!Allowed(ps, p)
  <2>1. \A S : Icd!Cardinality(S) = Read!Cardinality(S)
    BY DEF Icd!Cardinality, Read!Cardinality
  <2>2. \A ps, id : Icd!Count(ps, id) = Read!Count(ps, id)
    BY <2>1 DEF Icd!Count, Read!Count, Icd!Of, Read!Of
  <2> QED BY <2>2
      DEF Read!Allowed, Icd!Allowed, Read!Opening, Icd!Opening, Read!Last, Icd!Last,
          Read!BetweenLines, Icd!BetweenLines, Read!AllLines, Icd!AllLines,
          Read!NextLineData, Icd!NextLineData, Read!Bands, Icd!Bands, Read!Lines, Icd!Lines
<1>4. Known /\ Known' /\ InOrder /\ step => InOrder' /\ [Read!Next]_Delivered
  <2> SUFFICES ASSUME I, Handed, I', Handed', InOrder, step
               PROVE  InOrder' /\ [Read!Next]_Delivered
    OBVIOUS
  <2>1. CASE Build
    <3>1. [Next]_vars /\ found' = found
      BY <2>1 DEF Build, position
    <3>2. InOrder' /\ \A n \in Nat : n <= Len(out) => First(n)' = First(n)
      BY <3>1, OrderGrows
    <3>3. PICK n \in Nat : n = Len(found)
      BY DEF Handed
    <3>4. Delivered' = First(n)' /\ Delivered = First(n) /\ n <= Len(out)
      BY <3>1, <3>3 DEF Handed
    <3> QED BY <3>2, <3>4
  <2>2. CASE ReadStep
    <3>1. out' = out /\ InOrder'
      BY <2>2 DEF ReadStep, vars, InOrder, First
    <3>2. found' = found \/ found' = Append(found, at)
      BY <2>2
      DEF ReadStep, GivenBuffer, ClientReads, FindSync, CountPacket, StopParsing,
          ClientSkips, ClientTakes, ClientWaits, SkipByte, Take, position
    <3>3. PICK n \in Nat : n = Len(found)
      BY DEF Handed
    <3>4. Delivered = First(n)
      BY <3>3 DEF Handed
    <3>5. CASE found' = found
      BY <3>1, <3>3, <3>4, <3>5 DEF Handed, First
    <3>6. CASE found' = Append(found, at)
      <4>1. Len(found') = n + 1
        BY <3>3, <3>6 DEF ReaderInv
      <4>2. Delivered' = [k \in 1 .. n + 1 |-> out[k]] /\ n + 1 <= Len(out)
        BY <3>1, <4>1 DEF Handed, First
      <4>3. Icd!Allowed(First(n), out[n + 1])
        BY <4>2 DEF InOrder, Handed
      <4>4. /\ Len(Delivered') = Len(Delivered) + 1
            /\ Delivered' = Append(Delivered, out[n + 1])
            /\ Read!Last(Delivered') = out[n + 1]
        BY <3>4, <4>2 DEF First, Read!Last
      <4>5. Read!Receive
        BY <1>3, <3>4, <4>3, <4>4 DEF Read!Receive, Read!Last
      <4> QED BY <3>1, <4>5 DEF Read!Next
    <3> QED BY <3>2, <3>5, <3>6
  <2>3. CASE UNCHANGED <<vars, readerVars>>
    <3>1. UNCHANGED <<out, found>>
      BY <2>3 DEF vars, readerVars, position
    <3> QED BY <3>1 DEF InOrder, First, Handed
  <2> QED BY <2>1, <2>2, <2>3 DEF ReadingNext
<1> HIDE DEF I, Known, step
<1>5. step <=> [ReadingNext]_<<vars, readerVars>>
  BY DEF step
<1> QED BY <1>1, <1>2, <1>4, <1>5, PTL DEF ReadingSpec, DeliveryFollowsIcd, Read!Spec
=============================================================================
