---------------------------- MODULE MCSceneStore ----------------------------
(***************************************************************************)
(* A scene of one band for TLC: as it was converted before, longer, and what    *)
(* the converter makes of it now, with wider lines or with every line blank.   *)
(***************************************************************************)
EXTENDS SceneStore

Image(wavelengths, width, height, n_lines) ==
    [n_bands |-> Len(wavelengths), width |-> width, height |-> height,
     n_lines |-> n_lines, wavelengths |-> wavelengths]

Cropped == Image(<<500>>, 1, 2, 2)
Wide    == Image(<<500>>, 2, 2, 1)
Blank   == Image(<<500>>, 1, 1, 0)

AllImages     == {Cropped, Wide, Blank}
EarlierImages == {Cropped}
=============================================================================
