-------------------------- MODULE MCSessionBuilder --------------------------
(***************************************************************************)
(* Instances of xs_build_session and of the readers of its buffer for TLC:      *)
(* sessions with no line, with one, and with telemetry between lines, line       *)
(* periods around the telemetry interval (that divide it, miss it by one, equal   *)
(* and exceed it), both pixel sizes, selected and unselected bands, payloads of   *)
(* more than one and two bytes' length, and buffers one byte too small, exact     *)
(* and roomy.                                                               *)
(***************************************************************************)
EXTENDS SessionReader

Config(bands, lines, width, encoding, period, sensed) ==
    [session_id |-> 7, n_bands |-> bands, n_lines |-> lines, width |-> width,
     encoding |-> encoding, line_period_us |-> period, source_n_bands |-> sensed,
     band_indices |-> [b \in BandSlots |-> (b + 1) % MaxBands],
     band_wavelengths |-> [b \in BandSlots |-> 500 + 50 * b]]

Periods == {0, 166667, 250000, 499999, 500000, 500001, 1300000}

AllConfigs ==
    {Config(bands, lines, 2, encoding, 300000, sensed) :
        bands \in {1, 2}, lines \in {0, 1, 3}, encoding \in {"8BIT", "16BIT"},
        sensed \in {0, 3}}
    \cup {Config(bands, 5, 1, "8BIT", period, 3) :
                bands \in {1, 2}, period \in Periods}
    \cup {Config(1, 1, width, "16BIT", 300000, 0) : width \in {200, 40000}}

AllBufSizes(c) ==
    {SessionSize(c) + d : d \in {-1, 0} \cup (IF c.n_lines = 3 THEN {64} ELSE {})}
=============================================================================
