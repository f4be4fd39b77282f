--------------------------- MODULE MCClientServer ---------------------------
(***************************************************************************)
(* One client and one server with two small scenes of different wavelengths,  *)
(* band counts and line counts, for TLC.                                     *)
(***************************************************************************)
EXTENDS ClientServer

SmallScene(wavelengths, n_lines) ==
    [readable |-> TRUE, n_bands |-> Len(wavelengths), width |-> 1, n_lines |-> n_lines,
     wavelengths |-> wavelengths,
     lines |-> [l \in 0 .. n_lines - 1 |-> Len(wavelengths)]]

TwoScenes == <<SmallScene(<<500, 600>>, 1), SmallScene(<<700>>, 2)>>

\* Everything the client can write, whatever its selector holds.
ClientCommands ==
    {NextScene(1), NextScene(-1)}
    \cup {Reconfig(ws) : ws \in UNION {[1 .. n -> Asked] : n \in 1 .. MaxBands}}

AcceptFaults == {"accept"}
NoFaults     == {}
=============================================================================
