---------------------------- MODULE SceneFiles -----------------------------
(***************************************************************************)
(* Scenes on disk and in memory (src/emu/scene_loader.c).                    *)
(*                                                                         *)
(* A scene directory is a record of what its files hold: readable says that *)
(* metadata.json can be opened and read, n_bands, width, n_lines and         *)
(* wavelengths are the integers the mini JSON parser finds in it (0 or empty *)
(* when the field is missing), lines maps the number of every line file that *)
(* exists to the count of 16-bit samples in it.                             *)
(***************************************************************************)
EXTENDS Packets

MaxScenes == 256     \* XS_MAX_SCENES

\* Directories with integers in the fields the loader reads.
DirOK(dir) ==
    /\ dir.readable \in BOOLEAN
    /\ dir.n_bands \in Int /\ dir.width \in Int /\ dir.n_lines \in Nat
    /\ dir.wavelengths \in Seq(Int)
    /\ dir.lines \in [DOMAIN dir.lines -> Nat]
    /\ dir.n_bands % U8 <= MaxBands  \* xs_scene_load_metadata does not check it

(***************************************************************************)
(* xs_scene_load_metadata                                                    *)
(***************************************************************************)
SceneType == [n_bands : Byte, width : Word, n_lines : Nat,
              wavelengths : [BandSlots -> Word]]

\* The memset at the start of the parse, with no field filled in.
BlankScene == [n_bands |-> 0, width |-> 0, n_lines |-> 0,
               wavelengths |-> [b \in BandSlots |-> 0]]

\* The scene after the casts to the field widths; at most MaxBands wavelengths.
LoadedScene(dir) ==
    [n_bands |-> dir.n_bands % U8,
     width   |-> dir.width % U16,
     n_lines |-> dir.n_lines,
     wavelengths |-> [b \in BandSlots |->
         IF b < Len(dir.wavelengths) THEN dir.wavelengths[b + 1] % U16 ELSE 0]]

SceneUsable(s) == s.n_bands # 0 /\ s.width # 0 /\ s.n_lines # 0

LoadSucceeds(dir) == dir.readable /\ SceneUsable(LoadedScene(dir))

\* What the caller's xs_scene_t holds after the call, successful or not: an
\* unreadable file leaves it alone, an unusable one has already replaced it.
SceneAfterLoad(dir, old) == IF dir.readable THEN LoadedScene(dir) ELSE old

(***************************************************************************)
(* xs_scene_load_line: 0 exactly when the file holds a full line of the      *)
(* scene the caller passes, which need not be the directory's own metadata.  *)
(***************************************************************************)
\* Mutant: whatever could be read of the line will do.
LineLoadsPartly(dir, line, s) ==
    /\ line < s.n_lines
    /\ line \in DOMAIN dir.lines
    /\ dir.lines[line] > 0
LineLoads(dir, line, s) ==
    /\ line < s.n_lines
    /\ line \in DOMAIN dir.lines
    /\ dir.lines[line] >= s.width * s.n_bands

(***************************************************************************)
(* xs_scene_list_advance, with the remainder of C (sign of the dividend).    *)
(***************************************************************************)
CRemainder(a, b) == IF a >= 0 THEN a % b ELSE -((-a) % b)

Advanced(current, direction, count) ==
    IF count <= 1 THEN current
    ELSE CRemainder(current + direction + count, count)
=============================================================================
