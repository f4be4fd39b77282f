----------------------------- MODULE SceneStore -----------------------------
(***************************************************************************)
(* Scenes between the converter that writes them (tools/convert.py), which may *)
(* be interrupted and run again, and a program that scans for them and loads   *)
(* them line by line (src/emu/scene_loader.c) at the same time.               *)
(*                                                                         *)
(* Directories are numbered in the order of strcmp.  A line file is the image   *)
(* its samples come from and how many of them have been written.              *)
(***************************************************************************)
EXTENDS SceneFiles, FiniteSets

CONSTANTS
    NumDirs,         \* directories in the parent that is scanned
    Hidden,          \* those whose name starts with a dot
    Capacity,        \* XS_MAX_SCENES
    Images,          \* what the converter may be given: n_lines of height are not blank
    Earlier,         \* and was given before the start
    MaxConversions   \* bound: conversions begun, those before the start included

SceneDirs == 1 .. NumDirs

ImageType == [n_bands : 1 .. MaxBands, width : 1 .. U16 - 1, height : Nat, n_lines : Nat,
              wavelengths : Seq(Word)]

ASSUME StoreAssumption ==
    /\ NumDirs \in Nat \ {0} /\ Hidden \subseteq SceneDirs
    /\ Capacity \in 1 .. MaxScenes /\ MaxConversions \in Nat
    /\ Images \subseteq ImageType /\ Earlier \subseteq Images
    /\ \A im \in Images : im.n_lines <= im.height

VARIABLES
    meta,            \* metadata.json of each directory: whether it is there, and its fields
    files,           \* its line files, from number 0 on
    stage, dir, image, valid_lines,      \* convert_scene
    begun,           \* history: the images converted into each directory
    done             \* history: whether the last of these was converted to the end

VARIABLES
    lpc,             \* the statement the loading program is at
    path,            \* what it was told to scan: a directory, or 0 for their parent
    seen,            \* directories readdir has returned
    ready,           \* history: scenes there were when the scan began
    paths, current,  \* xs_scene_list_t
    scene, line,     \* the scene being loaded, and the line
    data,            \* the line files read, as they were then
    result,
    load             \* history: conversions begun in the directory, and all done, then

disk      == <<meta, files>>
converter == <<stage, dir, image, valid_lines, begun, done>>
scan      == <<path, seen, ready, paths>>
loading   == <<current, scene, line, data, result, load>>
vars      == <<disk, converter, lpc, scan, loading>>

\* An empty file, or the fields of one that is not there.
NoFields == [n_bands |-> 0, width |-> 0, height |-> 0, n_lines |-> 0, wavelengths |-> <<>>]

HasMetadata(d) == meta[d].there

Samples(im)      == im.n_bands * im.width
FullLine(im)     == [from |-> im, samples |-> Samples(im)]
FullLines(im, n) == [k \in 1 .. n |-> FullLine(im)]

\* A directory may hold a scene converted earlier.
Init ==
    /\ \E earlier \in [SceneDirs -> Earlier \cup {NoFields}] :
          LET was(d) == earlier[d] # NoFields IN
          /\ meta  = [d \in SceneDirs |-> [there |-> was(d), fields |-> earlier[d]]]
          /\ files = [d \in SceneDirs |-> FullLines(earlier[d], earlier[d].n_lines)]
          /\ begun = [d \in SceneDirs |-> IF was(d) THEN <<earlier[d]>> ELSE <<>>]
          /\ done  = [d \in SceneDirs |-> was(d)]
    /\ stage = "idle" /\ dir = 1 /\ image = NoFields /\ valid_lines = 0
    /\ lpc = "path" /\ path \in 0 .. NumDirs
    /\ seen = {} /\ ready = {} /\ paths = <<>>
    /\ current = 0 /\ scene = BlankScene /\ line = 0 /\ data = <<>>
    /\ result = "none" /\ load = [begun |-> 0, done |-> FALSE]

(***************************************************************************)
(* convert_scene: the lines that are not blank, one file each, then the         *)
(* metadata.  tofile and open(..., "w") truncate a file that is there.         *)
(***************************************************************************)
Conversions == Cardinality(UNION {{d} \X DOMAIN begun[d] : d \in SceneDirs})

Convert(d, im) ==
    /\ stage = "idle" /\ d \notin Hidden /\ Conversions < MaxConversions
    /\ stage' = "line" /\ dir' = d /\ image' = im /\ valid_lines' = 0
    /\ begun' = [begun EXCEPT ![d] = Append(@, im)]
    /\ done' = [done EXCEPT ![d] = FALSE]
    /\ UNCHANGED <<disk, lpc, scan, loading>>

LinePut(k, file) ==
    files' = [files EXCEPT ![dir] = [j \in 1 .. (IF k > Len(@) THEN k ELSE Len(@)) |->
                                        IF j = k THEN file ELSE @[j]]]

BeginLine ==
    /\ stage = "line" /\ valid_lines < image.n_lines
    /\ \E n \in 0 .. Samples(image) - 1 :
          LinePut(valid_lines + 1, [from |-> image, samples |-> n])
    /\ stage' = "write"
    /\ UNCHANGED <<meta, dir, image, valid_lines, begun, done, lpc, scan, loading>>

EndLine ==
    /\ stage = "write"
    /\ LinePut(valid_lines + 1, FullLine(image))
    /\ valid_lines' = valid_lines + 1 /\ stage' = "line"
    /\ UNCHANGED <<meta, dir, image, begun, done, lpc, scan, loading>>

BeginMetadata ==
    /\ stage = "line" /\ valid_lines >= image.n_lines
    /\ meta' = [meta EXCEPT ![dir] = [there |-> TRUE, fields |-> NoFields]]
    /\ stage' = "metadata"
    /\ UNCHANGED <<files, dir, image, valid_lines, begun, done, lpc, scan, loading>>

\* Mutants: the number of files in lines/ instead of the count of this conversion; the
\* height of the image, blank lines included.
LineCountOfFiles == Len(files[dir])
LineCountOfImage == image.height
LineCount == valid_lines

EndMetadata ==
    /\ stage = "metadata"
    /\ meta' = [meta EXCEPT ![dir].fields = [image EXCEPT !.n_lines = LineCount]]
    /\ stage' = "idle"
    /\ done' = [done EXCEPT ![dir] = TRUE]
    /\ UNCHANGED <<files, dir, image, valid_lines, begun, lpc, scan, loading>>

\* Interrupted: what is on disk stays there.
Interrupt ==
    /\ stage # "idle" /\ stage' = "idle"
    /\ UNCHANGED <<disk, dir, image, valid_lines, begun, done, lpc, scan, loading>>

(***************************************************************************)
(* xs_scene_list_scan                                                        *)
(***************************************************************************)
\* The path itself is a scene; or it has no scenes in it; or it is opened.
ScanPath ==
    /\ lpc = "path"
    /\ \/ /\ path # 0 /\ HasMetadata(path)
          /\ paths' = <<path>> /\ lpc' = "load"
          /\ UNCHANGED ready
       \/ /\ path # 0 /\ ~HasMetadata(path)
          /\ lpc' = "empty"
          /\ UNCHANGED <<ready, paths>>
       \/ /\ path = 0
          /\ ready' = {d \in SceneDirs \ Hidden : HasMetadata(d)}
          /\ lpc' = "readdir"
          /\ UNCHANGED paths
    /\ UNCHANGED <<disk, converter, path, seen, loading>>

\* Mutant: the check comes a scene too late.
RoomLate == Len(paths) <= Capacity
Room == Len(paths) < Capacity

\* readdir returns the directories in any order; one that is not there yet is one
\* without metadata.
ReadEntry(d) ==
    /\ lpc = "readdir" /\ d \notin seen /\ Room
    /\ seen' = seen \cup {d}
    /\ paths' = IF d \notin Hidden /\ HasMetadata(d) THEN Append(paths, d) ELSE paths
    /\ UNCHANGED <<disk, converter, lpc, path, ready, loading>>

\* Mutant: the list is left in the order of readdir.
OrdersAsFound(t) == t = paths
Orders(t) == \A j, k \in DOMAIN t : j < k => t[j] < t[k]

Listed == {paths[k] : k \in DOMAIN paths}

\* qsort: a permutation of the list.
ReadEnd ==
    /\ lpc = "readdir" /\ (SceneDirs \subseteq seen \/ ~Room)
    /\ \/ paths = <<>> /\ lpc' = "empty" /\ UNCHANGED paths
       \/ /\ paths # <<>> /\ lpc' = "load"
          /\ \E t \in [DOMAIN paths -> Listed] :
                /\ Listed = {t[k] : k \in DOMAIN t} /\ Orders(t)
                /\ paths' = t
    /\ UNCHANGED <<disk, converter, path, seen, ready, loading>>

(***************************************************************************)
(* xs_scene_load_metadata, then xs_scene_load_line for every line, as           *)
(* xs_scene_load_all and the emulator's sessions do; and to the next scene.     *)
(***************************************************************************)
Current == paths[current + 1]

DirOf(d) ==
    [readable |-> HasMetadata(d),
     n_bands |-> meta[d].fields.n_bands, width |-> meta[d].fields.width,
     n_lines |-> meta[d].fields.n_lines, wavelengths |-> meta[d].fields.wavelengths,
     lines |-> [l \in 0 .. Len(files[d]) - 1 |-> files[d][l + 1].samples]]

LoadMetadata ==
    /\ lpc = "load"
    /\ scene' = SceneAfterLoad(DirOf(Current), scene)
    /\ line' = 0 /\ data' = <<>>
    /\ load' = [begun |-> Len(begun[Current]), done |-> done[Current]]
    /\ \/ LoadSucceeds(DirOf(Current)) /\ lpc' = "line" /\ result' = "none"
       \/ ~LoadSucceeds(DirOf(Current)) /\ lpc' = "loaded" /\ result' = "no scene"
    /\ UNCHANGED <<disk, converter, scan, current>>

LoadLine ==
    /\ lpc = "line" /\ line < scene.n_lines
    /\ \/ /\ LineLoads(DirOf(Current), line, scene)
          /\ data' = Append(data, files[Current][line + 1])
          /\ line' = line + 1
          /\ UNCHANGED <<lpc, result>>
       \/ /\ ~LineLoads(DirOf(Current), line, scene)
          /\ lpc' = "loaded" /\ result' = "no line"
          /\ UNCHANGED <<data, line>>
    /\ UNCHANGED <<disk, converter, scan, current, scene, load>>

LoadEnds ==
    /\ lpc = "line" /\ line >= scene.n_lines
    /\ lpc' = "loaded" /\ result' = "ok"
    /\ UNCHANGED <<disk, converter, scan, current, scene, line, data, load>>

Advance(direction) ==
    /\ lpc = "loaded" /\ lpc' = "load"
    /\ current' = Advanced(current, direction, Len(paths))
    /\ UNCHANGED <<disk, converter, scan, scene, line, data, result, load>>

\* No scene was found: the program ends.
NoScenes == lpc = "empty" /\ UNCHANGED vars

Converter ==
    \/ \E d \in SceneDirs, im \in Images : Convert(d, im)
    \/ BeginLine \/ EndLine \/ BeginMetadata \/ EndMetadata \/ Interrupt

Loader ==
    \/ ScanPath \/ (\E d \in SceneDirs : ReadEntry(d)) \/ ReadEnd
    \/ LoadMetadata \/ LoadLine \/ LoadEnds \/ (\E direction \in {1, -1} : Advance(direction))
    \/ NoScenes

Next == Converter \/ Loader

Spec == Init /\ [][Next]_vars

(***************************************************************************)
(* Properties.                                                              *)
(***************************************************************************)
FileType == [from : Images, samples : Nat]

\* The types of the code's variables; while a scene is loaded, current is one of the list.
StoreTypeOK ==
    /\ meta \in [SceneDirs -> [there : BOOLEAN, fields : Images \cup {NoFields}]]
    /\ \A d \in SceneDirs : files[d] \in Seq(FileType)
    /\ stage \in {"idle", "line", "write", "metadata"} /\ dir \in SceneDirs
    /\ image \in Images \cup {NoFields} /\ valid_lines \in 0 .. image.n_lines
    /\ lpc \in {"path", "readdir", "empty", "load", "line", "loaded"}
    /\ paths \in Seq(SceneDirs) /\ Len(paths) <= Capacity
    /\ lpc \in {"load", "line", "loaded"} => current \in 0 .. Len(paths) - 1
    /\ scene \in SceneType /\ line \in Nat /\ data \in Seq(FileType)
    /\ result \in {"none", "no scene", "no line", "ok"}

\* scene_loader.c:175 "Sort for consistent ordering": whatever readdir returns first and
\* whatever is converted meanwhile, the list is in order, without duplicates, and holds
\* every scene there was when the scan began, unless it is full.
ScanListsScenes ==
    lpc \in {"load", "line", "loaded"} =>
        /\ \A j, k \in DOMAIN paths : j < k => paths[j] < paths[k]
        /\ \A d \in Listed : HasMetadata(d)
        /\ path = 0 => Listed \cap Hidden = {}
        /\ path = 0 => ready \subseteq Listed \/ Len(paths) = Capacity

\* A scene whose metadata loads has all its lines, although its conversion may have been
\* interrupted or still be running: the metadata is written last (convert.py:215).  Only a
\* second conversion into the directory can take a line away.
FirstConversionIsWhole ==
    lpc = "loaded" /\ result = "no line" => Len(begun[Current]) > 1

\* Whatever conversions of one image into a directory were interrupted, repeated or are
\* under way, a load that succeeds has every line of it in full (scene_loader.c:95).
LoadsAreNotTorn ==
    lpc = "loaded" /\ result = "ok" =>
        LET im == begun[Current][1] IN
        (\A k \in DOMAIN begun[Current] : begun[Current][k] = im)
        => data = FullLines(im, im.n_lines)

\* Once a conversion has ended, loads deliver that image, whatever was in the directory
\* before it: longer scenes, other widths, interrupted conversions.
LastConversionLoads ==
    lpc = "loaded" /\ load.done /\ load.begun = Len(begun[Current]) =>
        LET im == begun[Current][load.begun] IN
        IF im.n_lines = 0 THEN result = "no scene"
        ELSE result = "ok" /\ data = FullLines(im, im.n_lines)
=============================================================================
