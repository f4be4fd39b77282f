---------------------------- MODULE MCEmuServer ----------------------------
(***************************************************************************)
(* Instances of the emulator server for TLC: scene directories, commands and  *)
(* the environments the .cfg files choose between.                           *)
(***************************************************************************)
EXTENDS EmuServerProps

\* A scene directory as tools/convert.py writes it: metadata and line files agree.
Converted(wavelengths, width, n_lines) ==
    [readable |-> TRUE, n_bands |-> Len(wavelengths), width |-> width,
     n_lines |-> n_lines, wavelengths |-> wavelengths,
     lines |-> [l \in 0 .. n_lines - 1 |-> width * Len(wavelengths)]]

\* Three lines against a telemetry interval of two line periods: the coast gets a
\* mid-scene telemetry, the field does not.
Coast == Converted(<<500, 600, 700>>, 4, 3)
Field == Converted(<<498, 604, 700, 703>>, 5, 2)

\* Directories that go wrong: metadata without lines, metadata unreadable, fewer
\* line files than announced, lines shorter than announced, too wide to send. Three
\* commands, between four sessions, reach every one of them from the first.
Zeroed   == [Coast EXCEPT !.n_lines = 0]
Locked   == [Field EXCEPT !.readable = FALSE]
Partial  == [Coast EXCEPT !.lines = [l \in {0} |-> 12]]
Short    == [Field EXCEPT !.lines = [l \in 0 .. 1 |-> 19]]
Wide     == Converted(<<500>>, 32757, 1)

GoodScenes   == <<Coast, Field>>
RottenScenes == <<Coast, Zeroed, Field, Locked, Partial, Short, Wide>>
\* A scene with the same wavelength in two of its bands.
Twin         == Converted(<<600, 600>>, 3, 1)
LoadedScenes == <<Field, Twin>>
StaleScenes  == <<Coast, Locked>>

\* Requests every band of which both good scenes have, of fewer bands than either.
SubsetCommands == {Reconfig(<<700, 500>>), Reconfig(<<603>>), NextScene(1),
                   NextScene(-1), Unknown}
\* A request for every band, out of order; and for a band the scenes lack.
SwapCommands == {Reconfig(<<700, 600, 500>>)}
LackCommands == {Reconfig(<<500, 900>>)}
\* Requests for no band the scenes have, for none at all, for more than the scene
\* has and for more than the server takes; and a connection that says nothing.
OddCommands  == SwapCommands \cup LackCommands \cup
                {Reconfig(<<900>>), Reconfig(<<>>), Reconfig(<<500, 500, 600, 700>>),
                 Reconfig(<<500, 600, 700, 500, 600>>), NextScene(1),
                 NextScene(-1), Silent}
\* Requests out of order and partly unmatched, repeated and near to a band, as many
\* as a scene has and more; a scene switch; a connection that says nothing.
LiveCommands == {Reconfig(<<703, 900, 498>>), Reconfig(<<604, 604, 600, 500>>),
                 NextScene(1), Silent}
NextCommands == {NextScene(1)}

AllFaults  == FaultKinds \ {"files"}
StopFaults == FaultKinds \ {"accept"}
NoFaults   == {}
=============================================================================
