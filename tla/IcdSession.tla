----------------------------- MODULE IcdSession -----------------------------
(***************************************************************************)
(* What one data connection may carry, stated over the packets alone: the     *)
(* session order of README.md (session start, imager information and           *)
(* configuration, time sync, scene start; telemetry every interval, one        *)
(* exposure per line, one line-data packet per band per line; session end).    *)
(* A reader can decide every rule from the packets it has received: how many   *)
(* bands and lines to expect comes from IMAGER_CONFIG and SCENE_START.  A      *)
(* connection may stop after any prefix; the next one starts over.            *)
(***************************************************************************)
EXTENDS Integers, Sequences, FiniteSets

CONSTANT Interval    \* the telemetry interval

VARIABLE packets     \* received on the current connection

Opening == <<"SESSION_START", "IMAGER_INFO", "IMAGER_CONFIG", "TIME_SYNC",
             "SCENE_START">>

Of(ps, id)    == {k \in DOMAIN ps : ps[k].id = id}
Count(ps, id) == Cardinality(Of(ps, id))
Last(ps)      == ps[Len(ps)]

Bands(ps) == ps[3].spectral_bands
Lines(ps) == ps[5].scene_height

BetweenLines(ps) ==
    Count(ps, "LINE_DATA") = Count(ps, "EXPOSURE_START") * Bands(ps)
AllLines(ps) == BetweenLines(ps) /\ Count(ps, "EXPOSURE_START") = Lines(ps)

\* Line data is row-major: every band of a line, in order, before the next line.
NextLineData(ps, p) ==
    /\ p.line_number = Count(ps, "LINE_DATA") \div Bands(ps)
    /\ p.spectral_band = Count(ps, "LINE_DATA") % Bands(ps)

Allowed(ps, p) ==
    IF Len(ps) < Len(Opening) THEN p.id = Opening[Len(ps) + 1]
    ELSE /\ Last(ps).id # "SESSION_END"
         /\ CASE p.id = "IMAGER_TELEMETRY" -> BetweenLines(ps)
              [] p.id = "EXPOSURE_START"   -> BetweenLines(ps) /\ ~AllLines(ps)
              [] p.id = "LINE_DATA"        -> ~BetweenLines(ps) /\ NextLineData(ps, p)
              [] p.id = "SESSION_END"      ->
                    /\ AllLines(ps)
                    /\ Last(ps).id = "IMAGER_TELEMETRY"
                    /\ p.session_id = ps[1].session_id
              [] OTHER                     -> FALSE

Init == packets = <<>>

Receive ==
    /\ Len(packets') = Len(packets) + 1
    /\ packets' = Append(packets, Last(packets'))
    /\ Allowed(packets, Last(packets'))

Reconnect == packets' = <<>>

Next == Receive \/ Reconnect

Spec == Init /\ [][Next]_packets

(***************************************************************************)
(* Telemetry: no exposure is taken an interval or more after the last         *)
(* telemetry (or the start), and only the final one, before SESSION_END, may   *)
(* come sooner than an interval after the one before it.                      *)
(***************************************************************************)
LastTelemetry(ps, k) ==
    LET earlier == {j \in Of(ps, "IMAGER_TELEMETRY") : j < k} IN
    IF earlier = {} THEN 0
    ELSE ps[CHOOSE j \in earlier : \A m \in earlier : m <= j].imager_time

OnCadence(ps) ==
    /\ \A k \in Of(ps, "EXPOSURE_START") :
          ps[k].imager_time - LastTelemetry(ps, k) < Interval
    /\ \A k \in Of(ps, "IMAGER_TELEMETRY") :
          (\E j \in Of(ps, "EXPOSURE_START") : j > k)
          => ps[k].imager_time - LastTelemetry(ps, k) >= Interval
=============================================================================
