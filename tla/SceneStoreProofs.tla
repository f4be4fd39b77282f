--------------------------- MODULE SceneStoreProofs ---------------------------
(***************************************************************************)
(* What the converter leaves on disk, however often it is interrupted and run *)
(* again, and what a loader makes of it: for any number of directories, images, *)
(* conversions, bands and lines.                                             *)
(***************************************************************************)
EXTENDS SceneStore, TLAPS

(***************************************************************************)
(* The inductive invariant, in four parts.                                   *)
(***************************************************************************)
LastBegun(d) == begun[d][Len(begun[d])]

IsBegun(d, im) == \E j \in DOMAIN begun[d] : begun[d][j] = im

\* The first n line files of a directory are an image's, in full.
FullUpTo(d, im, n) == n <= Len(files[d]) /\ \A k \in 1 .. n : files[d][k] = FullLine(im)

\* A directory holds an image: its metadata, and every line it names.
Holds(d, im) == meta[d].fields = im /\ FullUpTo(d, im, im.n_lines)

DiskType ==
    /\ meta \in [SceneDirs -> [there : BOOLEAN, fields : Images \cup {NoFields}]]
    /\ files \in [SceneDirs -> Seq(FileType)]
    /\ begun \in [SceneDirs -> Seq(Images)] /\ done \in [SceneDirs -> BOOLEAN]

\* Nothing in a directory comes from anywhere but its conversions, the last one is whole
\* once it is done, and metadata without a second conversion means a whole scene.
DirInv(d) ==
    /\ meta[d].fields # NoFields => IsBegun(d, meta[d].fields)
    /\ \A k \in DOMAIN files[d] : /\ files[d][k].samples <= Samples(files[d][k].from)
                                  /\ IsBegun(d, files[d][k].from)
    /\ done[d] => begun[d] # <<>> /\ Holds(d, LastBegun(d)) /\ meta[d].there
    /\ Len(begun[d]) <= 1 /\ meta[d].fields # NoFields => Holds(d, begun[d][1])

ConverterInv ==
    /\ stage \in {"idle", "line", "write", "metadata"} /\ dir \in SceneDirs
    /\ image \in Images \cup {NoFields} /\ valid_lines \in 0 .. image.n_lines
    /\ stage # "idle" =>
          /\ image \in Images /\ begun[dir] # <<>> /\ LastBegun(dir) = image /\ ~done[dir]
          /\ FullUpTo(dir, image, valid_lines)
          /\ Len(begun[dir]) = 1 => meta[dir].fields = NoFields
    /\ stage = "write" => valid_lines < Len(files[dir]) /\ valid_lines < image.n_lines
    /\ stage = "metadata" => valid_lines = image.n_lines /\ meta[dir].there

DiskInv == DiskType /\ ConverterInv /\ \A d \in SceneDirs : DirInv(d)

\* The list while it is built, and then.
ScanInv ==
    /\ lpc \in {"path", "readdir", "empty", "load", "line", "loaded"}
    /\ path \in 0 .. NumDirs /\ seen \subseteq SceneDirs /\ ready \subseteq SceneDirs
    /\ paths \in Seq(SceneDirs) /\ Len(paths) <= Capacity
    /\ lpc = "path" => paths = <<>> /\ seen = {} /\ current = 0
    /\ lpc = "readdir" => path = 0 /\ current = 0
    /\ \A d \in Listed \cup ready : HasMetadata(d)
    /\ path = 0 => Listed \cap Hidden = {}
    /\ lpc = "readdir" => /\ ready \cap seen \subseteq Listed
                          /\ Listed \subseteq seen /\ ready \cap Hidden = {}
                          /\ \A j, k \in DOMAIN paths : j # k => paths[j] # paths[k]
    /\ lpc \in {"load", "line", "loaded"} =>
          /\ \A j, k \in DOMAIN paths : j < k => paths[j] < paths[k]
          /\ path = 0 => ready \subseteq Listed \/ Len(paths) = Capacity
          /\ current \in 0 .. Len(paths) - 1

Describes(im) ==
    scene.n_bands = im.n_bands /\ scene.width = im.width /\ scene.n_lines = im.n_lines

\* No conversion of the directory has begun since the load did, and then all were done.
Undisturbed == load.done /\ load.begun = Len(begun[Current])

Opened == lpc = "line" \/ (lpc = "loaded" /\ result \in {"ok", "no line"})

LoadInv ==
    /\ scene \in SceneType /\ line \in Nat /\ data \in Seq(FileType)
    /\ result \in {"none", "no scene", "no line", "ok"}
    /\ lpc = "loaded" => result # "none"
    /\ lpc \in {"line", "loaded"} =>
          /\ load.begun \in Nat /\ load.begun <= Len(begun[Current])
          /\ Undisturbed => done[Current]
    /\ Opened =>
          /\ \E im \in Images : IsBegun(Current, im) /\ Describes(im)
          /\ Len(begun[Current]) = 1 => Holds(Current, begun[Current][1])
          /\ Undisturbed => /\ Describes(LastBegun(Current))
                            /\ \A k \in DOMAIN data : data[k] = FullLine(LastBegun(Current))
                            /\ LastBegun(Current).n_lines # 0
          /\ line = Len(data) /\ line <= scene.n_lines
          /\ \A k \in DOMAIN data : /\ data[k].samples >= scene.width * scene.n_bands
                                    /\ data[k].samples <= Samples(data[k].from)
                                    /\ IsBegun(Current, data[k].from)
    /\ lpc = "loaded" /\ result = "ok" => line = scene.n_lines
    /\ lpc = "loaded" /\ result = "no line" => Len(begun[Current]) > 1 /\ ~Undisturbed
    /\ lpc = "loaded" /\ result = "no scene" /\ Undisturbed => LastBegun(Current).n_lines = 0

StoreInv == DiskInv /\ ScanInv /\ LoadInv

(***************************************************************************)
(* Data.                                                                     *)
(***************************************************************************)
\* What the assumptions say of an image, and that no image is NoFields.
LEMMA ImageFields ==
    ASSUME NEW im \in Images
    PROVE  /\ im.n_bands \in Nat /\ im.width \in Nat /\ im.n_lines \in Nat
           /\ im.n_bands \in 1 .. MaxBands /\ im.width \in 1 .. U16 - 1
           /\ im.n_bands < U8 /\ im.width < U16 /\ im.n_bands # 0 /\ im.width # 0
           /\ im.wavelengths \in Seq(Word)
           /\ Samples(im) \in Nat /\ Samples(im) > 0
           /\ im # NoFields
           /\ FullLine(im) \in FileType
           /\ [im EXCEPT !.n_lines = im.n_lines] = im
<1>1. im \in ImageType /\ MaxBands \in Nat /\ MaxBands < U8
  BY StoreAssumption, MaxBandsAssumption
<1>2. /\ im.n_bands \in 1 .. MaxBands /\ im.width \in 1 .. U16 - 1 /\ im.n_lines \in Nat
      /\ im.wavelengths \in Seq(Word)
      /\ [im EXCEPT !.n_lines = im.n_lines] = im
  BY <1>1 DEF ImageType
<1>3. /\ im.n_bands \in Nat /\ im.width \in Nat /\ im.n_bands < U8 /\ im.width < U16
      /\ im.n_bands > 0 /\ im.width > 0
  <2>1. \A m \in Nat : \A x \in 1 .. m : x \in Nat /\ x > 0 /\ x <= m
    OBVIOUS
  <2>2. U16 - 1 \in Nat /\ (\A x \in Nat : x <= U16 - 1 => x < U16)
    BY DEF U16
  <2>3. U8 \in Nat
    BY DEF U8
  <2>4. im.n_bands \in Nat /\ im.n_bands > 0 /\ im.n_bands <= MaxBands
    BY <1>1, <1>2, <2>1
  <2>5. im.width \in Nat /\ im.width > 0 /\ im.width < U16
    BY <1>2, <2>1, <2>2
  <2> QED BY <1>1, <2>3, <2>4, <2>5
<1>4. im.n_bands * im.width \in Nat /\ im.n_bands * im.width > 0
  <2> DEFINE a == im.n_bands
             b == im.width
  <2> HIDE DEF a, b
  <2>1. a \in Nat /\ b \in Nat /\ a > 0 /\ b > 0
    BY <1>3 DEF a, b
  <2>2. a * b \in Nat /\ a * b > 0
    BY <2>1
  <2> QED BY <2>2 DEF a, b
<1>5. im # NoFields
  BY <1>3 DEF NoFields
<1> QED BY <1>2, <1>3, <1>4, <1>5 DEF Samples, FullLine, FileType

\* Arithmetic.
LEMMA OneOrMore == \A n \in Nat : n # 0 /\ n <= 1 => n = 1
  OBVIOUS

\* Arithmetic.
LEMMA MoreThanOne == \A n \in Nat : n > 1 <=> n # 0 /\ n # 1
  OBVIOUS

\* Replacing a file or adding the next one gives a list of files.
LEMMA PutFile ==
    ASSUME NEW s \in Seq(FileType), NEW k \in Nat \ {0}, k <= Len(s) + 1,
           NEW file \in FileType,
           NEW t, t = [j \in 1 .. (IF k > Len(s) THEN k ELSE Len(s)) |->
                          IF j = k THEN file ELSE s[j]]
    PROVE  /\ t \in Seq(FileType) /\ Len(t) >= Len(s) /\ k <= Len(t)
           /\ t[k] = file
           /\ \A j \in 1 .. Len(t) : j # k => j \in 1 .. Len(s) /\ t[j] = s[j]
<1> DEFINE n == IF k > Len(s) THEN k ELSE Len(s)
<1>1. n \in Nat /\ n >= Len(s) /\ k <= n /\ (\A j \in 1 .. n : j # k => j \in 1 .. Len(s))
  OBVIOUS
<1>2. \A j \in 1 .. n : t[j] \in FileType
  BY <1>1
<1>3. t \in [1 .. n -> FileType]
  BY <1>2
<1>4. t \in Seq(FileType) /\ Len(t) = n
  BY <1>1, <1>3
<1> QED BY <1>1, <1>4

\* Appending to a list of images keeps those that are in it, and ends with the new one.
LEMMA AppendBegun ==
    ASSUME NEW s \in Seq(Images), NEW im \in Images
    PROVE  /\ Append(s, im) \in Seq(Images) /\ Append(s, im) # <<>>
           /\ Len(Append(s, im)) = Len(s) + 1
           /\ Append(s, im)[Len(Append(s, im))] = im
           /\ \A j \in DOMAIN s : j \in DOMAIN Append(s, im) /\ Append(s, im)[j] = s[j]
  OBVIOUS

(***************************************************************************)
(* The disk: one lemma per action of the converter.                          *)
(***************************************************************************)
\* What an earlier conversion left is whole.
LEMMA DiskInit == Init => DiskInv
<1> SUFFICES ASSUME Init PROVE DiskInv
  OBVIOUS
<1>1. PICK earlier \in [SceneDirs -> Earlier \cup {NoFields}] :
         /\ meta  = [d \in SceneDirs |-> [there  |-> earlier[d] # NoFields,
                                          fields |-> earlier[d]]]
         /\ files = [d \in SceneDirs |-> FullLines(earlier[d], earlier[d].n_lines)]
         /\ begun = [d \in SceneDirs |-> IF earlier[d] # NoFields
                                         THEN <<earlier[d]>> ELSE <<>>]
         /\ done  = [d \in SceneDirs |-> earlier[d] # NoFields]
  BY DEF Init
<1>2. \A d \in SceneDirs :
         /\ earlier[d] \in Images \cup {NoFields}
         /\ files[d] \in Seq(FileType) /\ begun[d] \in Seq(Images) /\ done[d] \in BOOLEAN
         /\ meta[d] \in [there : BOOLEAN, fields : Images \cup {NoFields}]
         /\ DirInv(d)
  <2> TAKE d \in SceneDirs
  <2>1. CASE earlier[d] = NoFields
    <3>1. files[d] = FullLines(NoFields, 0)
      BY <1>1, <2>1 DEF NoFields
    <3>2. files[d] = <<>>
      BY <3>1 DEF FullLines
    <3>3. begun[d] = <<>> /\ done[d] = FALSE
          /\ meta[d] = [there |-> FALSE, fields |-> NoFields]
      BY <1>1, <2>1
    <3>4. DirInv(d)
      BY <3>2, <3>3 DEF DirInv
    <3>5. files[d] \in Seq(FileType) /\ begun[d] \in Seq(Images)
      BY <3>2, <3>3
    <3>6. meta[d] \in [there : BOOLEAN, fields : Images \cup {NoFields}]
      BY <3>3
    <3> QED BY <2>1, <3>3, <3>4, <3>5, <3>6
  <2>2. CASE earlier[d] # NoFields
    <3>1. earlier[d] \in Images
      BY <2>2, StoreAssumption
    <3>2. /\ FullLine(earlier[d]) \in FileType /\ earlier[d].n_lines \in Nat
          /\ Samples(earlier[d]) \in Nat
      BY <3>1, ImageFields
    <3>3. files[d] = [k \in 1 .. earlier[d].n_lines |-> FullLine(earlier[d])]
      BY <1>1 DEF FullLines
    <3>4. /\ files[d] \in Seq(FileType) /\ Len(files[d]) = earlier[d].n_lines
          /\ \A k \in DOMAIN files[d] : files[d][k] = FullLine(earlier[d])
      BY <3>2, <3>3
    <3>5. begun[d] = <<earlier[d]>> /\ done[d] = TRUE
          /\ meta[d] = [there |-> TRUE, fields |-> earlier[d]]
      BY <1>1, <2>2
    <3>6. IsBegun(d, earlier[d]) /\ LastBegun(d) = earlier[d] /\ begun[d][1] = earlier[d]
      BY <3>5 DEF IsBegun, LastBegun
    <3>7. Holds(d, earlier[d])
      BY <3>2, <3>4, <3>5 DEF Holds, FullUpTo
    <3>8. \A k \in DOMAIN files[d] : /\ files[d][k].samples <= Samples(files[d][k].from)
                                     /\ IsBegun(d, files[d][k].from)
      BY <3>2, <3>4, <3>6 DEF FullLine
    <3>9. begun[d] # <<>> /\ begun[d] \in Seq(Images)
      BY <3>1, <3>5
    <3>10. meta[d].fields = earlier[d] /\ meta[d].there
      BY <3>5
    <3>11. DirInv(d)
      BY <3>6, <3>7, <3>8, <3>9, <3>10 DEF DirInv
    <3>12. meta[d] \in [there : BOOLEAN, fields : Images \cup {NoFields}]
      BY <3>1, <3>5
    <3> QED BY <3>1, <3>4, <3>5, <3>9, <3>11, <3>12
  <2> QED BY <1>1, <2>1, <2>2
<1>3. DiskType
  BY <1>1, <1>2 DEF DiskType
<1>4. ConverterInv
  <2>1. 1 \in SceneDirs
    BY StoreAssumption DEF SceneDirs
  <2> QED BY <2>1 DEF Init, ConverterInv, NoFields
<1> QED BY <1>2, <1>3, <1>4 DEF DiskInv

\* What the invariant says of the conversion under way.
LEMMA UnderWay ==
    ASSUME DiskInv
    PROVE  /\ dir \in SceneDirs /\ valid_lines \in Nat
           /\ \A d \in SceneDirs : /\ files[d] \in Seq(FileType) /\ begun[d] \in Seq(Images)
                                   /\ meta[d].fields \in Images \cup {NoFields}
           /\ stage # "idle" => /\ image \in Images /\ IsBegun(dir, image)
                                /\ image.n_lines \in Nat /\ valid_lines <= image.n_lines
                                /\ valid_lines <= Len(files[dir])
<1>1. /\ dir \in SceneDirs /\ valid_lines \in 0 .. image.n_lines
      /\ image \in Images \cup {NoFields}
  BY DEF DiskInv, ConverterInv
<1>2. valid_lines \in Nat
  BY <1>1
<1>3. ASSUME NEW d \in SceneDirs
      PROVE  /\ files[d] \in Seq(FileType) /\ begun[d] \in Seq(Images)
             /\ meta[d].fields \in Images \cup {NoFields}
  BY DEF DiskInv, DiskType
<1>4. ASSUME stage # "idle"
      PROVE  /\ image \in Images /\ IsBegun(dir, image)
             /\ image.n_lines \in Nat /\ valid_lines <= image.n_lines
             /\ valid_lines <= Len(files[dir])
  <2>1. /\ image \in Images /\ begun[dir] # <<>> /\ LastBegun(dir) = image
        /\ FullUpTo(dir, image, valid_lines)
    BY <1>4 DEF DiskInv, ConverterInv
  <2>2. Len(begun[dir]) \in DOMAIN begun[dir]
    BY <1>1, <1>3, <2>1
  <2>3. image.n_lines \in Nat
    BY <2>1, ImageFields
  <2> QED BY <1>1, <2>1, <2>2, <2>3 DEF LastBegun, IsBegun, FullUpTo
<1> QED BY <1>1, <1>2, <1>3, <1>4

\* A conversion begun in a directory takes nothing away yet; it can be the directory's
\* first only if there is no metadata in it.
LEMMA ConvertStep ==
    ASSUME DiskInv, NEW d \in SceneDirs, NEW im \in Images, Convert(d, im)
    PROVE  DiskInv'
<1>1. /\ stage = "idle" /\ stage' = "line" /\ dir' = d /\ image' = im /\ valid_lines' = 0
      /\ begun' = [begun EXCEPT ![d] = Append(begun[d], im)]
      /\ done' = [done EXCEPT ![d] = FALSE] /\ UNCHANGED <<meta, files>>
  BY DEF Convert, disk
<1>2. DiskType
  BY DEF DiskInv
<1>3. /\ begun[d] \in Seq(Images) /\ begun'[d] = Append(begun[d], im)
      /\ begun'[d] \in Seq(Images) /\ begun'[d] # <<>>
      /\ Len(begun'[d]) = Len(begun[d]) + 1 /\ Len(begun[d]) \in Nat
      /\ begun'[d][Len(begun'[d])] = im
      /\ \A j \in DOMAIN begun[d] : j \in DOMAIN begun'[d] /\ begun'[d][j] = begun[d][j]
  BY <1>1, <1>2, AppendBegun DEF DiskType
<1>4. DiskType'
  BY <1>1, <1>2, <1>3 DEF DiskType
<1>5. ASSUME Len(begun'[d]) = 1 PROVE meta[d].fields = NoFields
  <2>1. DOMAIN begun[d] = {}
    BY <1>3, <1>5
  <2> QED BY <2>1 DEF DiskInv, DirInv, IsBegun
<1>6. ConverterInv'
  <2>1. im.n_lines \in Nat /\ files[d] \in Seq(FileType)
    BY <1>2, ImageFields DEF DiskType
  <2>2. FullUpTo(d, im, 0)'
    BY <1>1, <2>1 DEF FullUpTo
  <2>3. ~done'[d]
    BY <1>1, <1>2 DEF DiskType
  <2> QED BY <1>1, <1>3, <1>5, <2>1, <2>2, <2>3 DEF ConverterInv, LastBegun
<1>7. ASSUME NEW e \in SceneDirs PROVE DirInv(e)'
  <2>1. DirInv(e) /\ meta'[e] = meta[e] /\ files'[e] = files[e]
    BY <1>1 DEF DiskInv
  <2>2. CASE e # d
    <3>1. begun'[e] = begun[e] /\ done'[e] = done[e]
      BY <1>1, <1>2, <2>2 DEF DiskType
    <3> QED BY <2>1, <3>1 DEF DirInv, IsBegun, LastBegun, Holds, FullUpTo
  <2>3. CASE e = d
    <3>1. \A x : IsBegun(d, x) => IsBegun(d, x)'
      BY <1>3 DEF IsBegun
    <3>2. ~done'[d]
      BY <1>1, <1>2 DEF DiskType
    <3>3. Len(begun'[d]) <= 1 => meta'[d].fields = NoFields
      BY <1>1, <1>3, <1>5
    <3> QED BY <2>1, <2>3, <3>1, <3>2, <3>3 DEF DirInv
  <2> QED BY <2>2, <2>3
<1> QED BY <1>4, <1>6, <1>7 DEF DiskInv

\* A line file begun or ended: only the file of the next line is touched.
LEMMA PutStep ==
    ASSUME DiskInv, stage \in {"line", "write"}, NEW file \in FileType, file.from = image,
           file.samples <= Samples(image), LinePut(valid_lines + 1, file),
           UNCHANGED <<meta, dir, image, begun, done>>
    PROVE  /\ DiskType' /\ \A d \in SceneDirs : DirInv(d)'
           /\ \A k \in 1 .. valid_lines : files'[dir][k] = FullLine(image)
           /\ files'[dir] \in Seq(FileType) /\ valid_lines + 1 <= Len(files'[dir])
           /\ files'[dir][valid_lines + 1] = file
<1> DEFINE t == files'[dir]
<1>1. /\ dir \in SceneDirs /\ valid_lines \in Nat /\ image \in Images /\ IsBegun(dir, image)
      /\ files[dir] \in Seq(FileType) /\ valid_lines <= Len(files[dir])
  BY UnderWay
<1>2. DiskType /\ FullUpTo(dir, image, valid_lines) /\ begun[dir] # <<>> /\ ~done[dir]
      /\ (Len(begun[dir]) = 1 => meta[dir].fields = NoFields)
  BY DEF DiskInv, ConverterInv
<1>3. /\ t = [j \in 1 .. (IF valid_lines + 1 > Len(files[dir]) THEN valid_lines + 1
                          ELSE Len(files[dir])) |->
                 IF j = valid_lines + 1 THEN file ELSE files[dir][j]]
      /\ \A d \in SceneDirs \ {dir} : files'[d] = files[d]
      /\ files' = [files EXCEPT ![dir] = t]
  BY <1>1, <1>2 DEF LinePut, DiskType
<1>4. /\ t \in Seq(FileType) /\ Len(t) >= Len(files[dir]) /\ valid_lines + 1 <= Len(t)
      /\ t[valid_lines + 1] = file
      /\ \A j \in 1 .. Len(t) : j # valid_lines + 1 =>
             j \in 1 .. Len(files[dir]) /\ t[j] = files[dir][j]
  <2> DEFINE k == valid_lines + 1
             s == files[dir]
  <2>1. k \in Nat \ {0} /\ k <= Len(s) + 1 /\ s \in Seq(FileType)
    BY <1>1
  <2>2. t = [j \in 1 .. (IF k > Len(s) THEN k ELSE Len(s)) |-> IF j = k THEN file ELSE s[j]]
    BY <1>3
  <2> HIDE DEF t, k, s
  <2>3. /\ t \in Seq(FileType) /\ Len(t) >= Len(s) /\ k <= Len(t) /\ t[k] = file
        /\ \A j \in 1 .. Len(t) : j # k => j \in 1 .. Len(s) /\ t[j] = s[j]
    BY <2>1, <2>2, PutFile
  <2> QED BY <2>3 DEF k, s
<1> HIDE DEF t
<1>5. DiskType'
  <2>1. files' = [files EXCEPT ![dir] = t]
    BY <1>3
  <2>2. files \in [SceneDirs -> Seq(FileType)] /\ t \in Seq(FileType)
    BY <1>2, <1>4 DEF DiskType
  <2>3. files' \in [SceneDirs -> Seq(FileType)]
    BY <2>1, <2>2
  <2> QED BY <1>2, <2>3 DEF DiskType
<1>6. \A k \in 1 .. valid_lines : t[k] = FullLine(image)
  <2> TAKE k \in 1 .. valid_lines
  <2>1. k \in 1 .. Len(t) /\ k # valid_lines + 1
    BY <1>1, <1>4
  <2> QED BY <1>2, <1>4, <2>1 DEF FullUpTo
<1>7. ASSUME NEW d \in SceneDirs PROVE DirInv(d)'
  <2>1. DirInv(d)
    BY DEF DiskInv
  <2>2. CASE d # dir
    <3>1. files'[d] = files[d]
      BY <1>3, <2>2
    <3> QED BY <2>1, <3>1 DEF DirInv, IsBegun, LastBegun, Holds, FullUpTo
  <2>3. CASE d = dir
    <3>1. \A k \in DOMAIN t : t[k].samples <= Samples(t[k].from) /\ IsBegun(dir, t[k].from)
      <4> TAKE k \in DOMAIN t
      <4>1. CASE k = valid_lines + 1
        BY <1>1, <1>4, <4>1
      <4>2. CASE k # valid_lines + 1
        <5>1. k \in DOMAIN files[dir] /\ t[k] = files[dir][k]
          BY <1>1, <1>4, <4>2
        <5> QED BY <2>1, <2>3, <5>1 DEF DirInv
      <4> QED BY <4>1, <4>2
    <3>2. \A x : IsBegun(dir, x)' <=> IsBegun(dir, x)
      BY DEF IsBegun
    <3>3. Len(begun[dir]) <= 1 => meta[dir].fields = NoFields
      <4>1. begun[dir] \in Seq(Images)
        BY <1>1, <1>2 DEF DiskType
      <4>2. Len(begun[dir]) \in Nat /\ Len(begun[dir]) # 0
        BY <1>2, <4>1
      <4> QED BY <1>2, <4>2, OneOrMore
    <3>4. files'[dir] = t /\ (meta[dir].fields # NoFields => IsBegun(dir, meta[dir].fields))
      BY <2>1, <2>3 DEF DirInv, t
    <3> QED BY <1>2, <2>3, <3>1, <3>2, <3>3, <3>4 DEF DirInv
  <2> QED BY <2>2, <2>3
<1> QED BY <1>4, <1>5, <1>6, <1>7 DEF t

\* Creating a line file keeps the invariant of the disk.
LEMMA BeginLineStep == DiskInv /\ BeginLine => DiskInv'
<1> SUFFICES ASSUME DiskInv, BeginLine PROVE DiskInv'
  OBVIOUS
<1>0. /\ stage = "line" /\ valid_lines < image.n_lines /\ stage' = "write"
      /\ UNCHANGED <<meta, dir, image, valid_lines, begun, done>>
  BY DEF BeginLine
<1>1. PICK n \in 0 .. Samples(image) - 1 :
         LinePut(valid_lines + 1, [from |-> image, samples |-> n])
  BY DEF BeginLine
<1> DEFINE file == [from |-> image, samples |-> n]
<1>2. /\ image \in Images /\ Samples(image) \in Nat /\ valid_lines \in Nat
  BY <1>0, UnderWay, ImageFields
<1>3. file \in FileType /\ file.from = image /\ file.samples <= Samples(image)
  BY <1>2 DEF FileType
<1>4. /\ DiskType' /\ \A d \in SceneDirs : DirInv(d)'
      /\ \A k \in 1 .. valid_lines : files'[dir][k] = FullLine(image)
      /\ files'[dir] \in Seq(FileType) /\ valid_lines + 1 <= Len(files'[dir])
  <2> HIDE DEF file
  <2>1. LinePut(valid_lines + 1, file)
    BY <1>1 DEF file
  <2> QED BY <1>0, <1>3, <2>1, PutStep
<1>5. Len(files'[dir]) \in Nat
  BY <1>4
<1>6. FullUpTo(dir, image, valid_lines)' /\ valid_lines < Len(files'[dir])
  BY <1>0, <1>2, <1>4, <1>5 DEF FullUpTo
<1>7. ConverterInv'
  BY <1>0, <1>2, <1>6 DEF DiskInv, ConverterInv, LastBegun
<1> QED BY <1>4, <1>7 DEF DiskInv

\* So does completing it.
LEMMA EndLineStep == DiskInv /\ EndLine => DiskInv'
<1> SUFFICES ASSUME DiskInv, EndLine PROVE DiskInv'
  OBVIOUS
<1>0. /\ stage = "write" /\ stage' = "line" /\ valid_lines' = valid_lines + 1
      /\ UNCHANGED <<meta, dir, image, begun, done>>
      /\ LinePut(valid_lines + 1, FullLine(image))
  BY DEF EndLine
<1>1. /\ image \in Images /\ valid_lines \in Nat /\ FullLine(image) \in FileType
      /\ Samples(image) \in Nat /\ valid_lines < image.n_lines /\ image.n_lines \in Nat
  BY <1>0, UnderWay, ImageFields DEF DiskInv, ConverterInv
<1>2. FullLine(image).from = image /\ FullLine(image).samples <= Samples(image)
  BY <1>1 DEF FullLine
<1>3. /\ DiskType' /\ \A d \in SceneDirs : DirInv(d)'
      /\ \A k \in 1 .. valid_lines : files'[dir][k] = FullLine(image)
      /\ files'[dir] \in Seq(FileType) /\ valid_lines + 1 <= Len(files'[dir])
      /\ files'[dir][valid_lines + 1] = FullLine(image)
  BY <1>0, <1>1, <1>2, PutStep
<1>4. \A k \in 1 .. valid_lines + 1 : files'[dir][k] = FullLine(image)
  BY <1>1, <1>3
<1>5. FullUpTo(dir, image, valid_lines)'
  BY <1>0, <1>3, <1>4 DEF FullUpTo
<1>6. valid_lines' \in 0 .. image'.n_lines
  BY <1>0, <1>1
<1>7. ConverterInv'
  BY <1>0, <1>1, <1>5, <1>6 DEF DiskInv, ConverterInv, LastBegun
<1> QED BY <1>3, <1>7 DEF DiskInv

\* The metadata is emptied, which no directory holds a scene by, and then names the lines
\* that have all been written.
LEMMA BeginMetadataStep == DiskInv /\ BeginMetadata => DiskInv'
<1> SUFFICES ASSUME DiskInv, BeginMetadata PROVE DiskInv'
  OBVIOUS
<1>0. /\ stage = "line" /\ valid_lines >= image.n_lines /\ stage' = "metadata"
      /\ meta' = [meta EXCEPT ![dir] = [there |-> TRUE, fields |-> NoFields]]
      /\ UNCHANGED <<files, dir, image, valid_lines, begun, done>>
  BY DEF BeginMetadata
<1>1. /\ dir \in SceneDirs /\ DiskType /\ ~done[dir] /\ image \in Images
      /\ valid_lines \in Nat /\ image.n_lines \in Nat /\ valid_lines <= image.n_lines
  BY <1>0, UnderWay DEF DiskInv, ConverterInv
<1>2. /\ meta'[dir] = [there |-> TRUE, fields |-> NoFields]
      /\ \A d \in SceneDirs \ {dir} : meta'[d] = meta[d]
  BY <1>0, <1>1 DEF DiskType
<1>3. DiskType'
  <2>1. [there |-> TRUE, fields |-> NoFields]
            \in [there : BOOLEAN, fields : Images \cup {NoFields}]
    OBVIOUS
  <2>2. meta' \in [SceneDirs -> [there : BOOLEAN, fields : Images \cup {NoFields}]]
    BY <1>0, <1>1, <2>1 DEF DiskType
  <2> QED BY <1>0, <1>1, <2>2 DEF DiskType
<1>4. ConverterInv'
  <2>1. meta'[dir].fields = NoFields /\ meta'[dir].there /\ valid_lines = image.n_lines
    BY <1>0, <1>1, <1>2
  <2>2. FullUpTo(dir, image, valid_lines)' <=> FullUpTo(dir, image, valid_lines)
    BY <1>0 DEF FullUpTo
  <2> QED BY <1>0, <1>1, <2>1, <2>2 DEF DiskInv, ConverterInv, LastBegun
<1>5. ASSUME NEW d \in SceneDirs PROVE DirInv(d)'
  <2>1. DirInv(d) /\ files'[d] = files[d] /\ begun'[d] = begun[d] /\ done'[d] = done[d]
    BY <1>0 DEF DiskInv
  <2>2. CASE d # dir
    <3>1. meta'[d] = meta[d]
      BY <1>2, <2>2
    <3> QED BY <2>1, <3>1 DEF DirInv, IsBegun, LastBegun, Holds, FullUpTo
  <2>3. CASE d = dir
    <3>1. meta'[d].fields = NoFields /\ ~done'[d]
      BY <1>1, <1>2, <2>1, <2>3
    <3> QED BY <2>1, <3>1 DEF DirInv, IsBegun
  <2> QED BY <2>2, <2>3
<1> QED BY <1>3, <1>4, <1>5 DEF DiskInv

\* So does completing metadata.json.
LEMMA EndMetadataStep == DiskInv /\ EndMetadata => DiskInv'
<1> SUFFICES ASSUME DiskInv, EndMetadata PROVE DiskInv'
  OBVIOUS
<1>0. /\ stage = "metadata" /\ stage' = "idle"
      /\ meta' = [meta EXCEPT ![dir].fields = [image EXCEPT !.n_lines = valid_lines]]
      /\ done' = [done EXCEPT ![dir] = TRUE]
      /\ UNCHANGED <<files, dir, image, valid_lines, begun>>
  BY DEF EndMetadata, LineCount
<1>1. /\ dir \in SceneDirs /\ DiskType /\ image \in Images /\ IsBegun(dir, image)
      /\ begun[dir] # <<>> /\ LastBegun(dir) = image /\ FullUpTo(dir, image, valid_lines)
      /\ valid_lines = image.n_lines /\ meta[dir].there /\ begun[dir] \in Seq(Images)
  BY <1>0, UnderWay DEF DiskInv, ConverterInv
<1>2. [image EXCEPT !.n_lines = valid_lines] = image
  BY <1>1, ImageFields
<1>3. /\ meta'[dir] = [there |-> TRUE, fields |-> image]
      /\ meta' \in [SceneDirs -> [there : BOOLEAN, fields : Images \cup {NoFields}]]
      /\ \A d \in SceneDirs \ {dir} : meta'[d] = meta[d]
  <2>1. meta' = [meta EXCEPT ![dir].fields = image]
    BY <1>0, <1>2
  <2>2. meta \in [SceneDirs -> [there : BOOLEAN, fields : Images \cup {NoFields}]]
    BY <1>1 DEF DiskType
  <2>3. meta[dir].there = TRUE
    BY <1>1, <2>2
  <2> QED BY <1>1, <2>1, <2>2, <2>3
<1>4. DiskType'
  BY <1>0, <1>1, <1>3 DEF DiskType
<1>5. ConverterInv'
  BY <1>0, <1>1 DEF DiskInv, ConverterInv
<1>6. ASSUME NEW d \in SceneDirs PROVE DirInv(d)'
  <2>1. DirInv(d) /\ files'[d] = files[d] /\ begun'[d] = begun[d]
    BY <1>0 DEF DiskInv
  <2>2. CASE d # dir
    <3>1. meta'[d] = meta[d] /\ done'[d] = done[d]
      BY <1>0, <1>1, <1>3, <2>2 DEF DiskType
    <3> QED BY <2>1, <3>1 DEF DirInv, IsBegun, LastBegun, Holds, FullUpTo
  <2>3. CASE d = dir
    <3>1. meta'[d].fields = image /\ meta'[d].there
      BY <1>3, <2>3
    <3>2. Holds(d, image)'
      BY <1>0, <1>1, <2>1, <2>3, <3>1 DEF Holds, FullUpTo
    <3>3. LastBegun(d)' = image /\ begun'[d] # <<>> /\ IsBegun(d, image)'
      <4>1. LastBegun(d)' = LastBegun(d) /\ (IsBegun(d, image)' <=> IsBegun(d, image))
        BY <1>0, <2>1 DEF LastBegun, IsBegun
      <4> QED BY <1>1, <2>1, <2>3, <4>1
    <3>4. Len(begun'[d]) <= 1 => begun'[d][1] = image
      <4>1. Len(begun[d]) \in Nat /\ Len(begun[d]) # 0
        BY <1>1, <2>3
      <4>2. Len(begun[d]) <= 1 => Len(begun[d]) = 1
        BY <4>1, OneOrMore
      <4> QED BY <2>1, <3>3, <4>2 DEF LastBegun
    <3>5. (\A k \in DOMAIN files[d] : /\ files[d][k].samples <= Samples(files[d][k].from)
                                      /\ IsBegun(d, files[d][k].from))'
      <4>1. \A x : IsBegun(d, x)' <=> IsBegun(d, x)
        BY <2>1 DEF IsBegun
      <4> QED BY <2>1, <4>1 DEF DirInv
    <3> QED BY <1>0, <3>1, <3>2, <3>3, <3>4, <3>5 DEF DirInv
  <2> QED BY <2>2, <2>3
<1> QED BY <1>4, <1>5, <1>6 DEF DiskInv

\* What the converter does nothing to stays as it is.
LEMMA DiskStutters ==
    ASSUME DiskInv, UNCHANGED <<disk, begun, done>>,
           \/ UNCHANGED converter
           \/ stage' = "idle" /\ UNCHANGED <<dir, image, valid_lines>>
    PROVE  DiskInv'
<1>1. UNCHANGED <<meta, files, begun, done, dir, image, valid_lines>>
      /\ (stage' = stage \/ stage' = "idle")
  BY DEF disk, converter
<1>2. DiskType'
  BY <1>1 DEF DiskInv, DiskType
<1>3. ASSUME NEW d \in SceneDirs PROVE DirInv(d)'
  <2>1. DirInv(d)
    BY DEF DiskInv
  <2> QED BY <1>1, <2>1 DEF DirInv, IsBegun, LastBegun, Holds, FullUpTo
<1>4. ConverterInv'
  BY <1>1 DEF DiskInv, ConverterInv, LastBegun, FullUpTo
<1> QED BY <1>2, <1>3, <1>4 DEF DiskInv

\* Every step keeps the invariant of the disk.
LEMMA DiskStep == DiskInv /\ [Next]_vars => DiskInv'
<1> SUFFICES ASSUME DiskInv, [Next]_vars PROVE DiskInv'
  OBVIOUS
<1>1. ASSUME NEW d \in SceneDirs, NEW im \in Images, Convert(d, im) PROVE DiskInv'
  BY <1>1, ConvertStep
<1>2. CASE Interrupt
  BY <1>2, DiskStutters DEF Interrupt
<1>3. CASE Loader
  <2>1. UNCHANGED <<disk, converter>>
    BY <1>3 DEF Loader, ScanPath, ReadEntry, ReadEnd, LoadMetadata, LoadLine, LoadEnds,
                Advance, NoScenes, vars
  <2> QED BY <2>1, DiskStutters DEF converter
<1>4. CASE UNCHANGED vars
  BY <1>4, DiskStutters DEF vars, converter
<1> QED
  BY <1>1, <1>2, <1>3, <1>4, BeginLineStep, EndLineStep, BeginMetadataStep, EndMetadataStep
  DEF Next, Converter

(***************************************************************************)
(* What the converter cannot do behind the back of a loader.                 *)
(***************************************************************************)
\* Its conversions are only added to, metadata that is there stays there, and what it does
\* to the first conversion's files or to a directory it has left alone is nothing.
Grows(d) ==
    /\ Len(begun[d]) \in Nat /\ Len(begun'[d]) \in Nat /\ Len(begun[d]) <= Len(begun'[d])
    /\ \A im : IsBegun(d, im) => IsBegun(d, im)'
    /\ Len(begun'[d]) = Len(begun[d]) => begun'[d] = begun[d] /\ (done[d] => done'[d])
    /\ HasMetadata(d) => HasMetadata(d)'
    /\ \A im : Len(begun[d]) = 1 /\ Len(begun'[d]) = 1 /\ Holds(d, im) /\ im # NoFields
               => meta'[d].fields = im /\ files'[d] = files[d]

\* What a converter has written it does not take away.
LEMMA ConverterGrows ==
    ASSUME DiskInv, Converter, NEW d \in SceneDirs
    PROVE  Grows(d)
<1>1. /\ DiskType /\ DirInv(d) /\ dir \in SceneDirs
      /\ Len(begun[d]) \in Nat /\ begun[d] \in Seq(Images)
  BY DEF DiskInv, DiskType, ConverterInv
<1>same. ASSUME begun'[d] = begun[d]
         PROVE  /\ Len(begun[d]) \in Nat /\ Len(begun'[d]) \in Nat
                /\ Len(begun[d]) <= Len(begun'[d])
                /\ \A im : IsBegun(d, im) => IsBegun(d, im)'
  <2>1. \A im : IsBegun(d, im) => IsBegun(d, im)'
    BY <1>same DEF IsBegun
  <2> QED BY <1>1, <1>same, <2>1
<1>2. ASSUME NEW e \in SceneDirs, NEW im \in Images, Convert(e, im) PROVE Grows(d)
  <2>1. /\ begun' = [begun EXCEPT ![e] = Append(begun[e], im)]
        /\ done' = [done EXCEPT ![e] = FALSE] /\ meta' = meta /\ files' = files
    BY <1>2 DEF Convert, disk
  <2>2. CASE d # e
    <3>1. begun'[d] = begun[d] /\ done'[d] = done[d]
      BY <1>1, <2>1, <2>2 DEF DiskType
    <3> QED BY <1>same, <2>1, <3>1 DEF Grows, HasMetadata, Holds
  <2>3. CASE d = e
    <3>1. /\ begun'[d] = Append(begun[d], im) /\ Len(begun'[d]) = Len(begun[d]) + 1
          /\ \A j \in DOMAIN begun[d] : j \in DOMAIN begun'[d] /\ begun'[d][j] = begun[d][j]
      BY <1>1, <2>1, <2>3, AppendBegun DEF DiskType
    <3>2. \A x : IsBegun(d, x) => IsBegun(d, x)'
      BY <3>1 DEF IsBegun
    <3>3. /\ Len(begun'[d]) \in Nat /\ Len(begun[d]) <= Len(begun'[d])
          /\ Len(begun'[d]) # Len(begun[d])
      BY <1>1, <3>1
    <3> QED BY <1>1, <2>1, <3>2, <3>3 DEF Grows, HasMetadata
  <2> QED BY <2>2, <2>3
<1>3. ASSUME BeginLine \/ EndLine \/ BeginMetadata \/ EndMetadata PROVE Grows(d)
  <2>1. stage # "idle" /\ begun' = begun
    BY <1>3 DEF BeginLine, EndLine, BeginMetadata, EndMetadata
  <2>2. image \in Images /\ ~done[dir] /\ (Len(begun[dir]) = 1 => meta[dir].fields = NoFields)
    BY <2>1 DEF DiskInv, ConverterInv
  <2>3. CASE d # dir
    <3>1. meta'[d] = meta[d] /\ files'[d] = files[d] /\ (done[d] => done'[d])
      BY <1>1, <1>3, <2>3
      DEF DiskType, BeginLine, EndLine, BeginMetadata, EndMetadata, LinePut
    <3> QED BY <1>same, <2>1, <3>1 DEF Grows, HasMetadata, Holds
  <2>4. CASE d = dir
    <3>1. HasMetadata(d) => HasMetadata(d)'
      <4>1. CASE BeginLine \/ EndLine
        BY <4>1 DEF BeginLine, EndLine, HasMetadata
      <4>2. CASE BeginMetadata \/ EndMetadata
        <5>1. meta[d] \in [there : BOOLEAN, fields : Images \cup {NoFields}] /\ d \in DOMAIN meta
          BY <1>1 DEF DiskType
        <5> QED BY <2>4, <4>2, <5>1 DEF BeginMetadata, EndMetadata, HasMetadata
      <4> QED BY <1>3, <4>1, <4>2
    <3> QED BY <1>same, <2>1, <2>2, <2>4, <3>1 DEF Grows, Holds
  <2> QED BY <2>3, <2>4
<1>4. CASE Interrupt
  <2>1. begun' = begun /\ done' = done /\ meta' = meta /\ files' = files
    BY <1>4 DEF Interrupt, disk
  <2> QED BY <1>same, <2>1 DEF Grows, HasMetadata, Holds
<1> QED BY <1>2, <1>3, <1>4 DEF Converter

(***************************************************************************)
(* The scan.                                                                 *)
(***************************************************************************)
LEMMA ScanInit == Init => ScanInv
<1> SUFFICES ASSUME Init PROVE ScanInv
  OBVIOUS
<1>1. paths = <<>> /\ seen = {} /\ ready = {} /\ current = 0 /\ lpc = "path"
      /\ path \in 0 .. NumDirs
  BY DEF Init
<1>2. Capacity \in Nat
  BY StoreAssumption DEF MaxScenes
<1>3. paths \in Seq(SceneDirs) /\ Len(paths) <= Capacity /\ Listed = {}
  BY <1>1, <1>2 DEF Listed
<1> QED BY <1>1, <1>3 DEF ScanInv

\* What other steps leave of the scan.
LEMMA ScanKept ==
    ASSUME ScanInv, UNCHANGED <<lpc, scan, current>>,
           \A d \in SceneDirs : HasMetadata(d) => HasMetadata(d)'
    PROVE  ScanInv'
<1>1. Listed \subseteq SceneDirs /\ Listed' = Listed
  BY DEF ScanInv, Listed, scan
<1> QED BY <1>1 DEF ScanInv, scan

\* The list is one longer, or the same.
LEMMA ReadEntryStep ==
    ASSUME ScanInv, NEW d \in SceneDirs, ReadEntry(d)
    PROVE  ScanInv'
<1>1. /\ lpc = "readdir" /\ d \notin seen /\ Len(paths) < Capacity /\ seen' = seen \cup {d}
      /\ paths' = IF d \notin Hidden /\ HasMetadata(d) THEN Append(paths, d) ELSE paths
      /\ UNCHANGED <<meta, lpc, path, ready, current>>
  BY DEF ReadEntry, Room, disk, loading
<1>2. /\ paths \in Seq(SceneDirs) /\ Len(paths) \in Nat /\ ready \cap seen \subseteq Listed
      /\ Listed \subseteq seen /\ path = 0 /\ current = 0
      /\ path \in 0 .. NumDirs /\ seen \subseteq SceneDirs /\ ready \subseteq SceneDirs
      /\ ready \cap Hidden = {} /\ Listed \cap Hidden = {}
      /\ \A j, k \in DOMAIN paths : j # k => paths[j] # paths[k]
      /\ \A e \in Listed \cup ready : HasMetadata(e)
  BY <1>1 DEF ScanInv
<1>3. Capacity \in Nat
  BY StoreAssumption DEF MaxScenes
<1>4. \A e : HasMetadata(e)' <=> HasMetadata(e)
  BY <1>1 DEF HasMetadata
<1>5. CASE d \notin Hidden /\ HasMetadata(d)
  <2>1. paths' = Append(paths, d)
    BY <1>1, <1>5
  <2>2. paths' \in Seq(SceneDirs) /\ Len(paths') = Len(paths) + 1 /\ paths'[Len(paths) + 1] = d
        /\ DOMAIN paths = 1 .. Len(paths) /\ DOMAIN paths' = 1 .. Len(paths) + 1
    BY <1>2, <2>1
  <2>3. \A k \in DOMAIN paths : k \in DOMAIN paths' /\ paths'[k] = paths[k]
    BY <1>2, <2>1, <2>2
  <2>4. \A k \in DOMAIN paths' : k = Len(paths) + 1 \/ k \in DOMAIN paths
    BY <1>2, <2>2
  <2>5. Listed' = Listed \cup {d}
    <3>1. Len(paths) + 1 \in DOMAIN paths'
      BY <1>2, <2>2
    <3> QED BY <2>2, <2>3, <2>4, <3>1 DEF Listed
  <2>6. Len(paths') <= Capacity
    BY <1>1, <1>2, <1>3, <2>2
  <2>7. \A j, k \in DOMAIN paths' : j # k => paths'[j] # paths'[k]
    <3>1. \A k \in DOMAIN paths : paths[k] \in seen
      BY <1>2 DEF Listed
    <3> QED BY <1>1, <1>2, <2>2, <2>3, <2>4, <3>1
  <2>8. /\ ready' \cap seen' \subseteq Listed' /\ Listed' \subseteq seen' /\ seen' \subseteq SceneDirs
        /\ Listed' \cap Hidden = {} /\ \A e \in Listed' \cup ready' : HasMetadata(e)'
    BY <1>1, <1>2, <1>4, <1>5, <2>5
  <2> QED BY <1>1, <1>2, <2>2, <2>6, <2>7, <2>8 DEF ScanInv
<1>6. CASE ~(d \notin Hidden /\ HasMetadata(d))
  <2>1. paths' = paths /\ Listed' = Listed
    BY <1>1, <1>6 DEF Listed
  <2>2. d \notin ready
    BY <1>2, <1>6
  <2>3. ready' \cap seen' \subseteq Listed' /\ Listed' \subseteq seen' /\ seen' \subseteq SceneDirs
    BY <1>1, <1>2, <2>1, <2>2
  <2> QED BY <1>1, <1>2, <1>4, <2>1, <2>3 DEF ScanInv
<1> QED BY <1>5, <1>6

\* Looking at one more path keeps the invariant of the scan.
LEMMA ScanPathStep == ScanInv /\ ScanPath => ScanInv'
<1> SUFFICES ASSUME ScanInv, ScanPath PROVE ScanInv'
  OBVIOUS
<1>1. /\ lpc = "path" /\ paths = <<>> /\ seen = {} /\ current = 0
      /\ path \in 0 .. NumDirs /\ ready \subseteq SceneDirs
      /\ \A d \in ready : HasMetadata(d)
      /\ UNCHANGED <<meta, path, seen, current>>
  BY DEF ScanInv, ScanPath, disk, loading
<1>2. Capacity \in Nat /\ Capacity >= 1 /\ NumDirs \in Nat
  BY StoreAssumption DEF MaxScenes
<1>3. \A e : HasMetadata(e)' <=> HasMetadata(e)
  BY <1>1 DEF HasMetadata
<1>4. CASE /\ path # 0 /\ HasMetadata(path)
           /\ paths' = <<path>> /\ lpc' = "load" /\ UNCHANGED ready
  <2>1. path \in SceneDirs
    BY <1>1, <1>2, <1>4 DEF SceneDirs
  <2>2. /\ paths' \in Seq(SceneDirs) /\ Len(paths') = 1 /\ DOMAIN paths' = {1}
        /\ paths'[1] = path
    BY <1>4, <2>1
  <2>3. Listed' = {path}
    BY <2>2 DEF Listed
  <2>4. Len(paths') <= Capacity /\ current' \in 0 .. Len(paths') - 1
    BY <1>1, <1>2, <2>2
  <2>5. \A j, k \in DOMAIN paths' : j < k => paths'[j] < paths'[k]
    BY <2>2
  <2> QED BY <1>1, <1>3, <1>4, <2>2, <2>3, <2>4, <2>5 DEF ScanInv
<1>5. CASE /\ path # 0 /\ ~HasMetadata(path)
           /\ lpc' = "empty" /\ UNCHANGED <<ready, paths>>
  BY <1>1, <1>3, <1>5 DEF ScanInv, Listed
<1>6. CASE /\ path = 0 /\ ready' = {d \in SceneDirs \ Hidden : HasMetadata(d)}
           /\ lpc' = "readdir" /\ UNCHANGED paths
  <2>1. Listed = {} /\ Listed' = {} /\ DOMAIN paths = {} /\ ready' \cap Hidden = {}
        /\ ready' \subseteq SceneDirs
    BY <1>1, <1>6 DEF Listed
  <2>2. \A d \in ready' : HasMetadata(d)'
    BY <1>3, <1>6
  <2> QED BY <1>1, <1>3, <1>6, <2>1, <2>2 DEF ScanInv
<1> QED BY <1>4, <1>5, <1>6 DEF ScanPath

\* Sorted, the list holds the same directories.
LEMMA ReadEndStep == ScanInv /\ ReadEnd => ScanInv'
<1> SUFFICES ASSUME ScanInv, ReadEnd PROVE ScanInv'
  OBVIOUS
<1>1. /\ lpc = "readdir" /\ (SceneDirs \subseteq seen \/ ~(Len(paths) < Capacity))
      /\ UNCHANGED <<meta, path, seen, ready, current>>
  BY DEF ReadEnd, Room, disk, loading
<1>2. /\ paths \in Seq(SceneDirs) /\ Len(paths) \in Nat /\ Len(paths) <= Capacity
      /\ path = 0 /\ current = 0 /\ ready \cap seen \subseteq Listed
      /\ path \in 0 .. NumDirs /\ seen \subseteq SceneDirs /\ ready \subseteq SceneDirs
      /\ Listed \cap Hidden = {} /\ \A e \in Listed \cup ready : HasMetadata(e)
  BY <1>1 DEF ScanInv
<1>3. Capacity \in Nat
  BY StoreAssumption DEF MaxScenes
<1>4. \A e : HasMetadata(e)' <=> HasMetadata(e)
  BY <1>1 DEF HasMetadata
<1>5. CASE paths = <<>> /\ lpc' = "empty" /\ UNCHANGED paths
  <2>1. Listed' = Listed
    BY <1>5 DEF Listed
  <2> QED BY <1>1, <1>2, <1>4, <1>5, <2>1 DEF ScanInv
<1>6. ASSUME paths # <<>>, lpc' = "load", NEW t \in [DOMAIN paths -> Listed],
             Listed = {t[k] : k \in DOMAIN t}, Orders(t), paths' = t
      PROVE  ScanInv'
  <2>1. Listed \subseteq SceneDirs /\ DOMAIN paths = 1 .. Len(paths) /\ Len(paths) # 0
    BY <1>2, <1>6 DEF Listed
  <2>2. paths' \in Seq(SceneDirs) /\ Len(paths') = Len(paths) /\ DOMAIN paths' = DOMAIN t
    BY <1>2, <1>6, <2>1
  <2>3. Listed' = Listed
    BY <1>6 DEF Listed
  <2>4. \A j, k \in DOMAIN paths' : j < k => paths'[j] < paths'[k]
    BY <1>6 DEF Orders
  <2>5. ready' \subseteq Listed' \/ Len(paths') = Capacity
    <3>1. CASE SceneDirs \subseteq seen
      BY <1>1, <1>2, <2>3, <3>1
    <3>2. CASE ~(Len(paths) < Capacity)
      <4>1. \A a, b \in Nat : a <= b /\ ~(a < b) => a = b
        OBVIOUS
      <4>2. Len(paths) = Capacity
        BY <1>2, <1>3, <3>2, <4>1
      <4> QED BY <2>2, <4>2
    <3> QED BY <1>1, <3>1, <3>2
  <2>6. current' \in 0 .. Len(paths') - 1
    BY <1>1, <1>2, <2>1, <2>2
  <2>7. Len(paths') <= Capacity
    BY <1>2, <2>2
  <2> QED BY <1>1, <1>2, <1>4, <1>6, <2>2, <2>3, <2>4, <2>5, <2>6, <2>7 DEF ScanInv
<1> QED BY <1>5, <1>6 DEF ReadEnd

\* The index of the list wraps around.
LEMMA AdvanceInRange ==
    ASSUME NEW n \in Nat \ {0}, NEW c \in 0 .. n - 1, NEW direction \in {1, -1}
    PROVE  Advanced(c, direction, n) \in 0 .. n - 1
<1>1. CASE n <= 1
  BY <1>1 DEF Advanced
<1>2. CASE n > 1
  <2>1. c + direction + n \in Nat
    OBVIOUS
  <2>2. \A a \in Nat : a % n \in 0 .. n - 1
    OBVIOUS
  <2>3. (c + direction + n) % n \in 0 .. n - 1
    BY <2>1, <2>2
  <2> QED BY <1>2, <2>1, <2>3 DEF Advanced, CRemainder
<1> QED BY <1>1, <1>2

\* Every step keeps the invariant of the scan.
LEMMA ScanStep == DiskInv /\ ScanInv /\ [Next]_vars => ScanInv'
<1> SUFFICES ASSUME DiskInv, ScanInv, [Next]_vars PROVE ScanInv'
  OBVIOUS
<1>1. CASE Converter
  <2>1. \A d \in SceneDirs : HasMetadata(d) => HasMetadata(d)'
    BY <1>1, ConverterGrows DEF Grows
  <2>2. UNCHANGED <<lpc, scan, current>>
    BY <1>1 DEF Converter, Convert, BeginLine, EndLine, BeginMetadata, EndMetadata,
                Interrupt, loading
  <2> QED BY <2>1, <2>2, ScanKept
<1>2. CASE LoadMetadata \/ LoadLine \/ LoadEnds
  <2>1. /\ lpc \in {"load", "line"} /\ lpc' \in {"line", "loaded"}
        /\ UNCHANGED <<meta, scan, current>>
    BY <1>2 DEF LoadMetadata, LoadLine, LoadEnds, disk
  <2>2. Listed' = Listed /\ \A d : HasMetadata(d)' <=> HasMetadata(d)
    BY <2>1 DEF Listed, scan, HasMetadata
  <2> QED BY <2>1, <2>2 DEF ScanInv, scan
<1>3. ASSUME NEW direction \in {1, -1}, Advance(direction) PROVE ScanInv'
  <2>1. /\ lpc = "loaded" /\ lpc' = "load" /\ UNCHANGED <<meta, scan>>
        /\ current' = Advanced(current, direction, Len(paths))
    BY <1>3 DEF Advance, disk
  <2>2. paths \in Seq(SceneDirs) /\ current \in 0 .. Len(paths) - 1
    BY <2>1 DEF ScanInv
  <2>3. Len(paths) \in Nat \ {0}
    BY <2>2
  <2>4. current' \in 0 .. Len(paths) - 1
    BY <2>1, <2>2, <2>3, AdvanceInRange
  <2>5. Listed' = Listed /\ \A d : HasMetadata(d)' <=> HasMetadata(d)
    BY <2>1 DEF Listed, scan, HasMetadata
  <2> QED BY <2>1, <2>4, <2>5 DEF ScanInv, scan
<1>4. CASE NoScenes \/ UNCHANGED vars
  <2>1. UNCHANGED <<meta, lpc, scan, current>>
    BY <1>4 DEF NoScenes, vars, disk, loading
  <2> QED BY <2>1, ScanKept DEF HasMetadata
<1> QED
  BY <1>1, <1>2, <1>3, <1>4, ScanPathStep, ReadEntryStep, ReadEndStep DEF Next, Loader

(***************************************************************************)
(* Loading.                                                                  *)
(***************************************************************************)
LEMMA LoadInit == Init => LoadInv
<1> SUFFICES ASSUME Init PROVE LoadInv
  OBVIOUS
<1>1. BlankScene \in SceneType
  <2>1. 0 \in Byte /\ 0 \in Word
    BY DEF Byte, Word, U8, U16
  <2> QED BY <2>1 DEF BlankScene, SceneType
<1> QED BY <1>1 DEF Init, LoadInv, Opened

LEMMA WordsAreNat == \A x \in Word : x \in Nat
<1>1. U16 \in Nat
  BY DEF U16
<1> QED BY <1>1 DEF Word

\* The metadata of an image loads as the image's numbers; an empty file as no scene.
LEMMA LoadedFields ==
    ASSUME NEW d \in SceneDirs, DiskInv
    PROVE  LET s == LoadedScene(DirOf(d)) IN
           /\ s \in SceneType
           /\ meta[d].fields \in Images => /\ s.n_bands = meta[d].fields.n_bands
                                           /\ s.width = meta[d].fields.width
                                           /\ s.n_lines = meta[d].fields.n_lines
           /\ meta[d].fields \notin Images => ~SceneUsable(s)
           /\ meta[d].fields \in Images => (SceneUsable(s) <=> meta[d].fields.n_lines # 0)
<1> DEFINE f == meta[d].fields
           s == LoadedScene(DirOf(d))
<1>1. f \in Images \cup {NoFields}
  BY UnderWay
<1>2. /\ s.n_bands = f.n_bands % U8 /\ s.width = f.width % U16 /\ s.n_lines = f.n_lines
      /\ s = [n_bands |-> f.n_bands % U8, width |-> f.width % U16, n_lines |-> f.n_lines,
              wavelengths |-> [b \in BandSlots |->
                  IF b < Len(f.wavelengths) THEN f.wavelengths[b + 1] % U16 ELSE 0]]
  BY DEF LoadedScene, DirOf
<1>3. /\ U8 \in Nat \ {0} /\ U16 \in Nat \ {0}
      /\ \A a \in Nat : \A m \in Nat \ {0} : a % m \in 0 .. m - 1 /\ (a < m => a % m = a)
  BY DEF U8, U16
<1>4. /\ f.n_bands \in Nat /\ f.width \in Nat /\ f.n_lines \in Nat
      /\ f.wavelengths \in Seq(Word)
  <2>1. CASE f \in Images
    BY <2>1, ImageFields
  <2>2. CASE f = NoFields
    BY <2>2 DEF NoFields
  <2> QED BY <1>1, <2>1, <2>2
<1>5. s \in SceneType
  <2>1. f.n_bands % U8 \in Byte /\ f.width % U16 \in Word
    BY <1>3, <1>4 DEF Byte, Word
  <2>2. ASSUME NEW b \in BandSlots
        PROVE  (IF b < Len(f.wavelengths) THEN f.wavelengths[b + 1] % U16 ELSE 0) \in Word
    <3>1. CASE b < Len(f.wavelengths)
      <4>1. b \in Nat
        BY MaxBandsAssumption DEF BandSlots
      <4>2. f.wavelengths[b + 1] \in Word
        <5>1. PICK q \in Seq(Word) : q = f.wavelengths
          BY <1>4
        <5>2. Len(q) \in Nat /\ b + 1 \in 1 .. Len(q)
          BY <3>1, <4>1, <5>1
        <5>3. q[b + 1] \in Word
          BY <5>2
        <5> QED BY <5>1, <5>3
      <4>3. f.wavelengths[b + 1] \in Nat
        BY <4>2, WordsAreNat
      <4> QED BY <1>3, <3>1, <4>3 DEF Word
    <3>2. CASE ~(b < Len(f.wavelengths))
      BY <3>2 DEF Word, U16
    <3> QED BY <3>1, <3>2
  <2> QED BY <1>2, <1>4, <2>1, <2>2 DEF SceneType
<1>6. ASSUME f \in Images
      PROVE  /\ s.n_bands = f.n_bands /\ s.width = f.width /\ s.n_lines = f.n_lines
             /\ s.n_bands # 0 /\ s.width # 0
  BY <1>2, <1>3, <1>6, ImageFields
<1>7. ASSUME f = NoFields PROVE s.n_bands = 0
  BY <1>2, <1>7 DEF NoFields, U8
<1> HIDE DEF s
<1>8. f \notin Images => ~SceneUsable(s)
  BY <1>1, <1>7 DEF SceneUsable
<1>9. f \in Images => (SceneUsable(s) <=> f.n_lines # 0)
  BY <1>6 DEF SceneUsable
<1> QED BY <1>5, <1>6, <1>8, <1>9 DEF s

\* In a directory that holds the image a scene describes, every line loads.
LEMMA LineIsThere ==
    ASSUME NEW d \in SceneDirs, NEW im \in Images, DiskInv, Holds(d, im), Describes(im),
           line \in Nat, line < scene.n_lines
    PROVE  /\ LineLoads(DirOf(d), line, scene)
           /\ files[d][line + 1] = FullLine(im)
<1>1. /\ files[d] \in Seq(FileType) /\ im.n_lines \in Nat /\ im.n_lines <= Len(files[d])
      /\ line < im.n_lines /\ Len(files[d]) \in Nat
  BY UnderWay, ImageFields DEF Holds, FullUpTo, Describes
<1>2. line + 1 \in 1 .. im.n_lines /\ line \in 0 .. Len(files[d]) - 1
  BY <1>1
<1>3. files[d][line + 1] = FullLine(im)
  BY <1>2 DEF Holds, FullUpTo
<1>4. /\ DOMAIN DirOf(d).lines = 0 .. Len(files[d]) - 1
      /\ DirOf(d).lines[line] = files[d][line + 1].samples
  BY <1>2 DEF DirOf
<1>5. files[d][line + 1].samples = Samples(im)
  BY <1>3 DEF FullLine
<1>6. scene.width * scene.n_bands = Samples(im) /\ Samples(im) \in Nat
  BY ImageFields DEF Describes, Samples
<1>7. DirOf(d).lines[line] >= scene.width * scene.n_bands
  BY <1>4, <1>5, <1>6
<1> QED BY <1>2, <1>3, <1>4, <1>7 DEF LineLoads

\* The directory whose scene is loaded is one that was found.
LEMMA CurrentDir ==
    ASSUME DiskInv, ScanInv, lpc \in {"load", "line", "loaded"}
    PROVE  /\ Current \in SceneDirs
           /\ begun[Current] \in Seq(Images) /\ Len(begun[Current]) \in Nat
           /\ \A im : IsBegun(Current, im) => Len(begun[Current]) # 0
           /\ \A im : IsBegun(Current, im) /\ Len(begun[Current]) = 1
                      => begun[Current][1] = im
           /\ Len(begun[Current]) # 0 => LastBegun(Current) \in Images
<1>1. paths \in Seq(SceneDirs) /\ current \in 0 .. Len(paths) - 1
  BY DEF ScanInv
<1>2. current + 1 \in DOMAIN paths
  BY <1>1
<1>3. Current \in SceneDirs
  BY <1>1, <1>2 DEF Current
<1>4. begun[Current] \in Seq(Images) /\ Len(begun[Current]) \in Nat
  BY <1>3, UnderWay
<1>5. DOMAIN begun[Current] = 1 .. Len(begun[Current])
  BY <1>4
<1>6. ASSUME NEW im, IsBegun(Current, im)
      PROVE  /\ Len(begun[Current]) # 0
             /\ Len(begun[Current]) = 1 => begun[Current][1] = im
  <2>1. PICK j \in DOMAIN begun[Current] : begun[Current][j] = im
    BY <1>6 DEF IsBegun
  <2>2. j \in 1 .. Len(begun[Current])
    BY <1>5, <2>1
  <2>3. Len(begun[Current]) # 0
    BY <1>4, <2>2
  <2>4. Len(begun[Current]) = 1 => j = 1
    BY <2>2
  <2> QED BY <2>1, <2>3, <2>4
<1>7. Len(begun[Current]) # 0 => LastBegun(Current) \in Images
  BY <1>4 DEF LastBegun
<1> QED BY <1>3, <1>4, <1>6, <1>7

\* Nothing the converter does meanwhile can spoil what has been loaded.
LEMMA LoadKept ==
    ASSUME DiskInv, ScanInv, LoadInv, Converter
    PROVE  LoadInv'
<1>1. UNCHANGED <<lpc, scan, loading>> /\ UNCHANGED <<current, scene, line, data, result, load>>
      /\ Current' = Current
  BY DEF Converter, Convert, BeginLine, EndLine, BeginMetadata, EndMetadata, Interrupt,
         Current, loading, scan
<1>2. CASE lpc \notin {"line", "loaded"}
  BY <1>1, <1>2 DEF LoadInv, Opened
<1>3. CASE lpc \in {"line", "loaded"}
  <2> DEFINE d == Current
  <2>1. /\ d \in SceneDirs /\ Grows(d)
        /\ \A im : IsBegun(d, im) => Len(begun[d]) # 0
        /\ \A im : IsBegun(d, im) /\ Len(begun[d]) = 1 => begun[d][1] = im
    BY <1>3, CurrentDir, ConverterGrows
  <2>2. /\ Len(begun[d]) \in Nat /\ Len(begun'[d]) \in Nat /\ Len(begun[d]) <= Len(begun'[d])
        /\ \A im : IsBegun(d, im) => IsBegun(d, im)'
        /\ Len(begun'[d]) = Len(begun[d]) => begun'[d] = begun[d] /\ (done[d] => done'[d])
        /\ load.begun \in Nat /\ load.begun <= Len(begun[d]) /\ (Undisturbed => done[d])
    BY <1>3, <2>1 DEF Grows, LoadInv
  <2>3. ASSUME Undisturbed'
        PROVE  Undisturbed /\ begun'[d] = begun[d] /\ done'[d] /\ LastBegun(d)' = LastBegun(d)
    <3>1. load.done /\ load.begun = Len(begun'[d])
      BY <1>1, <2>3 DEF Undisturbed
    <3>2. Len(begun'[d]) = Len(begun[d])
      BY <2>2, <3>1
    <3>3. Undisturbed /\ begun'[d] = begun[d]
      BY <2>2, <3>1, <3>2 DEF Undisturbed
    <3> QED BY <1>1, <2>2, <3>2, <3>3 DEF LastBegun
  <2>4. load.begun <= Len(begun'[d])
    BY <2>2
  <2>5. ASSUME Opened, Len(begun'[d]) = 1 PROVE Holds(d, begun[d][1])' /\ begun'[d] = begun[d]
    <3>1. PICK im \in Images : IsBegun(d, im)
      BY <2>5 DEF LoadInv
    <3>2. Len(begun[d]) # 0 /\ Len(begun[d]) <= 1
      BY <2>1, <2>2, <2>5, <3>1
    <3>3. Len(begun[d]) = 1
      BY <2>2, <3>2, OneOrMore
    <3>4. begun[d][1] = im /\ im # NoFields /\ begun'[d] = begun[d] /\ Holds(d, im)
      BY <2>1, <2>2, <2>5, <3>1, <3>3, ImageFields DEF LoadInv
    <3>5. meta'[d].fields = im /\ files'[d] = files[d]
      BY <2>1, <2>5, <3>3, <3>4 DEF Grows
    <3> QED BY <1>1, <3>4, <3>5 DEF Holds, FullUpTo
  <2>6. Opened' <=> Opened
    BY <1>1 DEF Opened
  <2>7. ASSUME Opened
        PROVE  /\ \E im \in Images : IsBegun(d, im)' /\ Describes(im)'
               /\ \A k \in DOMAIN data : IsBegun(d, data[k].from)'
    <3>1. PICK im \in Images : IsBegun(d, im) /\ Describes(im)
      BY <2>7 DEF LoadInv
    <3>2. IsBegun(d, im)' /\ Describes(im)'
      BY <1>1, <2>2, <3>1 DEF Describes
    <3>3. ASSUME NEW k \in DOMAIN data PROVE IsBegun(d, data[k].from)'
      <4>1. IsBegun(d, data[k].from) /\ data' = data
        BY <1>1, <2>7 DEF LoadInv
      <4>2. \A x : IsBegun(d, x) => IsBegun(d, x)'
        BY <2>2
      <4> QED BY <4>1, <4>2
    <3> QED BY <3>2, <3>3
  <2>8. ASSUME Len(begun[d]) > 1 PROVE Len(begun'[d]) > 1
    BY <2>2, <2>8
  <2> HIDE DEF d
  <2>9. ASSUME Opened'
        PROVE  /\ (\E im \in Images : IsBegun(d, im) /\ Describes(im))'
               /\ (Len(begun[d]) = 1 => Holds(d, begun[d][1]))'
               /\ (Undisturbed => /\ Describes(LastBegun(d))
                                  /\ \A k \in DOMAIN data : data[k] = FullLine(LastBegun(d))
                                  /\ LastBegun(d).n_lines # 0)'
               /\ (\A k \in DOMAIN data : /\ data[k].samples >= scene.width * scene.n_bands
                                          /\ data[k].samples <= Samples(data[k].from)
                                          /\ IsBegun(d, data[k].from))'
    <3>1. Opened /\ d' = d
      BY <1>1, <2>6, <2>9 DEF d
    <3>2. (Undisturbed => /\ Describes(LastBegun(d))
                          /\ \A k \in DOMAIN data : data[k] = FullLine(LastBegun(d))
                          /\ LastBegun(d).n_lines # 0)'
      BY <1>1, <2>3, <3>1 DEF LoadInv, Describes, d
    <3>3. (Len(begun[d]) = 1 => Holds(d, begun[d][1]))'
      BY <2>5, <3>1 
    <3>4. (\E im \in Images : IsBegun(d, im) /\ Describes(im))'
      BY <2>7, <3>1
    <3>5. (\A k \in DOMAIN data : /\ data[k].samples >= scene.width * scene.n_bands
                                  /\ data[k].samples <= Samples(data[k].from)
                                  /\ IsBegun(d, data[k].from))'
      BY <1>1, <2>7, <3>1 DEF LoadInv, d
    <3> QED BY <3>2, <3>3, <3>4, <3>5
  <2>10. d = Current /\ d' = Current'
    BY DEF d
  <2>11. /\ load'.begun \in Nat /\ load'.begun <= Len(begun'[d]) /\ (Undisturbed' => done'[d])
    BY <1>1, <2>2, <2>3, <2>4
  <2>12. /\ lpc' = "loaded" /\ result' = "no line" => Len(begun'[d]) > 1 /\ ~Undisturbed'
         /\ lpc' = "loaded" /\ result' = "no scene" /\ Undisturbed'
                => LastBegun(d)'.n_lines = 0
    BY <1>1, <2>3, <2>8, <2>10 DEF LoadInv
  <2>13. /\ Opened' => line' = Len(data') /\ line' <= scene'.n_lines
         /\ lpc' = "loaded" /\ result' = "ok" => line' = scene'.n_lines
    BY <1>1, <2>6 DEF LoadInv
  <2> QED BY <1>1, <2>9, <2>10, <2>11, <2>12, <2>13 DEF LoadInv
<1> QED BY <1>2, <1>3

\* The metadata that is read is a conversion's; that of the last one, when it is done.
LEMMA LoadMetadataStep ==
    ASSUME DiskInv, ScanInv, LoadInv, LoadMetadata
    PROVE  LoadInv'
<1> DEFINE d == Current
           f == meta[d].fields
           s == LoadedScene(DirOf(d))
<1>1. /\ lpc = "load" /\ UNCHANGED <<meta, files, begun, done, paths, current>>
      /\ scene' = SceneAfterLoad(DirOf(d), scene) /\ line' = 0 /\ data' = <<>>
      /\ load' = [begun |-> Len(begun[d]), done |-> done[d]]
  BY DEF LoadMetadata, disk, converter, scan
<1>2. /\ d \in SceneDirs /\ DirInv(d) /\ Len(begun[d]) \in Nat
      /\ \A im : IsBegun(d, im) /\ Len(begun[d]) = 1 => begun[d][1] = im
      /\ Current' = d
  <2>1. d \in SceneDirs
    BY <1>1, CurrentDir
  <2> QED BY <1>1, <2>1, CurrentDir DEF DiskInv, Current
<1>3. /\ s \in SceneType
      /\ f \in Images => /\ s.n_bands = f.n_bands /\ s.width = f.width
                         /\ s.n_lines = f.n_lines
      /\ f \notin Images => ~SceneUsable(s)
      /\ f \in Images => (SceneUsable(s) <=> f.n_lines # 0)
  BY <1>2, LoadedFields
<1>4. /\ scene' \in SceneType /\ line' \in Nat /\ data' \in Seq(FileType) /\ Len(data') = 0
      /\ DOMAIN data' = {}
  <2>1. scene \in SceneType
    BY DEF LoadInv
  <2>2. scene' \in {s, scene}
    BY <1>1 DEF SceneAfterLoad
  <2>3. data' \in Seq(FileType) /\ Len(data') = 0 /\ DOMAIN data' = {}
    BY <1>1
  <2> QED BY <1>1, <1>3, <2>1, <2>2, <2>3
<1>5. /\ load'.begun = Len(begun[d]) /\ load'.done = done[d]
      /\ Undisturbed' => done[d] /\ done'[d]
  BY <1>1, <1>2 DEF Undisturbed
<1>6. done[d] => f = LastBegun(d) /\ LastBegun(d) \in Images /\ meta[d].there
  <2>1. done[d] => begun[d] # <<>> /\ f = LastBegun(d) /\ meta[d].there
    BY <1>2 DEF DirInv, Holds
  <2>2. done[d] => IsBegun(d, f)
    <3>1. begun[d] \in Seq(Images)
      BY <1>2, UnderWay
    <3>2. begun[d] # <<>> => Len(begun[d]) \in DOMAIN begun[d]
      BY <3>1
    <3> QED BY <2>1, <3>2 DEF IsBegun, LastBegun
  <2>3. done[d] => Len(begun[d]) # 0
    BY <1>1, <2>2, CurrentDir
  <2>4. done[d] => LastBegun(d) \in Images
    BY <1>1, <2>3, CurrentDir
  <2> QED BY <2>1, <2>4
<1> HIDE DEF s, f
<1>7. CASE LoadSucceeds(DirOf(d)) /\ lpc' = "line" /\ result' = "none"
  <2>1. SceneUsable(s) /\ scene' = s
    BY <1>1, <1>7 DEF LoadSucceeds, SceneAfterLoad, s
  <2>2. f \in Images /\ f # NoFields /\ f.n_lines # 0
    BY <1>3, <2>1, ImageFields
  <2>3. IsBegun(d, f)
    BY <1>2, <2>2 DEF DirInv, f
  <2>4. Describes(f)'
    <3>1. /\ scene'.n_bands = f.n_bands /\ scene'.width = f.width
          /\ scene'.n_lines = f.n_lines /\ f' = f
      BY <1>1, <1>2, <1>3, <2>1, <2>2 DEF f
    <3> QED BY <3>1 DEF Describes
  <2>5. f' = f /\ d' = d /\ IsBegun(d, f)' /\ LastBegun(d)' = LastBegun(d)
    BY <1>1, <1>2, <2>3 DEF f, IsBegun, LastBegun
  <2>6. ASSUME Len(begun[d]) = 1 PROVE Holds(d, begun[d][1])'
    <3>1. Holds(d, begun[d][1])
      BY <1>2, <2>2, <2>6 DEF DirInv, f
    <3> QED BY <1>1, <1>2, <3>1 DEF Holds, FullUpTo
  <2>7. scene'.n_lines \in Nat /\ 0 <= scene'.n_lines
    BY <1>4 DEF SceneType
  <2>8. Undisturbed' => LastBegun(d)' = f /\ Describes(LastBegun(d))' /\ f.n_lines # 0
    BY <1>5, <1>6, <2>2, <2>4, <2>5 DEF f
  <2> HIDE DEF d
  <2>9. /\ (\E im \in Images : IsBegun(d, im) /\ Describes(im))'
        /\ (Len(begun[d]) = 1 => Holds(d, begun[d][1]))'
    <3>1. begun' = begun /\ f' \in Images
      BY <1>1, <2>2, <2>5
    <3>2. IsBegun(d, f)' /\ Describes(f)'
      BY <2>4, <2>5
    <3>3. (\E im \in Images : IsBegun(d, im) /\ Describes(im))'
      BY <3>1, <3>2
    <3>4. (Len(begun[d]) = 1 => Holds(d, begun[d][1]))'
      BY <2>5, <2>6, <3>1
    <3> QED BY <3>3, <3>4
  <2>10. (Undisturbed => /\ Describes(LastBegun(d))
                         /\ \A k \in DOMAIN data : data[k] = FullLine(LastBegun(d))
                         /\ LastBegun(d).n_lines # 0)'
    BY <1>4, <2>8
  <2>11. load'.begun \in Nat /\ load'.begun <= Len(begun'[d']) /\ (Undisturbed' => done'[d'])
    BY <1>1, <1>2, <1>5, <2>5
  <2>12. line' = Len(data') /\ line' <= scene'.n_lines
    BY <1>1, <1>4, <2>7
  <2> QED BY <1>4, <1>7, <2>9, <2>10, <2>11, <2>12 DEF LoadInv, Opened, d
<1>8. CASE ~LoadSucceeds(DirOf(d)) /\ lpc' = "loaded" /\ result' = "no scene"
  <2>1. ASSUME Undisturbed' PROVE LastBegun(d)'.n_lines = 0
    <3>1. done[d] /\ f = LastBegun(d) /\ f \in Images /\ meta[d].there
      BY <1>5, <1>6, <2>1
    <3>2. ~SceneUsable(s)
      BY <1>8, <3>1 DEF LoadSucceeds, DirOf, HasMetadata, s
    <3>3. f.n_lines = 0
      BY <1>3, <3>1, <3>2
    <3>4. LastBegun(d)' = f
      BY <1>1, <1>2, <3>1 DEF LastBegun
    <3> QED BY <3>3, <3>4
  <2>2. load'.begun \in Nat /\ load'.begun <= Len(begun'[d]) /\ (Undisturbed' => done'[d])
    BY <1>1, <1>2, <1>5
  <2>3. ~Opened' /\ lpc' = "loaded" /\ result' = "no scene" /\ d' = d /\ d = Current
    BY <1>2, <1>8 DEF Opened
  <2> HIDE DEF d
  <2> QED BY <1>4, <2>1, <2>2, <2>3 DEF LoadInv, d
<1> QED BY <1>7, <1>8 DEF LoadMetadata


\* Counting one more.
LEMMA OneMore ==
    ASSUME NEW S, NEW t \in Seq(S), NEW x \in S
    PROVE  /\ Append(t, x) \in Seq(S) /\ Len(Append(t, x)) = Len(t) + 1
           /\ DOMAIN Append(t, x) = 1 .. Len(t) + 1 /\ Len(t) \in Nat
           /\ \A k \in 1 .. Len(t) : Append(t, x)[k] = t[k]
           /\ Append(t, x)[Len(t) + 1] = x
OBVIOUS

\* A line that loads is one that a conversion wrote, and it is long enough.
LEMMA LineReadStep ==
    ASSUME DiskInv, ScanInv, LoadInv, lpc = "line", line < scene.n_lines,
           LineLoads(DirOf(Current), line, scene),
           data' = Append(data, files[Current][line + 1]), line' = line + 1,
           UNCHANGED <<lpc, result>>, UNCHANGED <<disk, converter, scan, current, scene, load>>
    PROVE  LoadInv'
<1> DEFINE d == Current
           file == files[d][line + 1]
<1>1. /\ UNCHANGED <<meta, files, begun, done, paths, current>>
      /\ d \in SceneDirs /\ DirInv(d) /\ Len(begun[d]) \in Nat /\ d' = d
      /\ \A im : IsBegun(d, im) => Len(begun[d]) # 0
      /\ Len(begun[d]) # 0 => LastBegun(d) \in Images
  <2>1. d \in SceneDirs
    BY CurrentDir
  <2>2. UNCHANGED <<meta, files, begun, done, paths, current>>
    BY DEF disk, converter, scan
  <2> QED BY <2>1, <2>2, CurrentDir DEF DiskInv, Current
<1>2. /\ Opened /\ Opened' /\ line = Len(data) /\ line \in Nat /\ scene.n_lines \in Nat
      /\ data \in Seq(FileType)
  BY DEF Opened, LoadInv, SceneType
<1>3. /\ files[d] \in Seq(FileType) /\ line \in DOMAIN DirOf(d).lines
      /\ DirOf(d).lines[line] >= scene.width * scene.n_bands
  BY <1>1, UnderWay DEF LineLoads
<1>4. line + 1 \in DOMAIN files[d] /\ DirOf(d).lines[line] = file.samples
  <2>1. line \in 0 .. Len(files[d]) - 1
    BY <1>3 DEF DirOf
  <2>2. line + 1 \in 1 .. Len(files[d])
    BY <1>2, <1>3, <2>1
  <2> QED BY <1>3, <2>1, <2>2 DEF DirOf
<1>5. /\ file \in FileType /\ file.samples >= scene.width * scene.n_bands
      /\ file.samples <= Samples(file.from) /\ IsBegun(d, file.from)
  BY <1>1, <1>3, <1>4 DEF DirInv
<1> HIDE DEF file
<1>6. /\ data' \in Seq(FileType) /\ Len(data') = line + 1 /\ DOMAIN data' = 1 .. line + 1
      /\ \A k \in 1 .. line : data'[k] = data[k]
      /\ data'[line + 1] = file /\ DOMAIN data = 1 .. line
      /\ \A k \in DOMAIN data' : k \in DOMAIN data \/ k = line + 1
  <2>1. data' = Append(data, file) /\ DOMAIN data = 1 .. line
    BY <1>2 DEF file
  <2>2. \A n \in Nat : \A k \in 1 .. n + 1 : k \in 1 .. n \/ k = n + 1
    OBVIOUS
  <2> QED BY <1>2, <1>5, <2>1, <2>2, OneMore
<1>7. \A k \in DOMAIN data' : /\ data'[k].samples >= scene.width * scene.n_bands
                              /\ data'[k].samples <= Samples(data'[k].from)
                              /\ IsBegun(d, data'[k].from)
  <2>1. \A k \in DOMAIN data : /\ data[k].samples >= scene.width * scene.n_bands
                               /\ data[k].samples <= Samples(data[k].from)
                               /\ IsBegun(d, data[k].from)
    BY <1>2 DEF LoadInv
  <2> QED BY <1>5, <1>6, <2>1
<1>8. ASSUME Undisturbed
      PROVE  /\ Describes(LastBegun(d)) /\ LastBegun(d).n_lines # 0
             /\ \A k \in DOMAIN data' : data'[k] = FullLine(LastBegun(d))
  <2>1. /\ Describes(LastBegun(d)) /\ LastBegun(d).n_lines # 0 /\ done[d]
        /\ \A k \in DOMAIN data : data[k] = FullLine(LastBegun(d))
    BY <1>2, <1>8 DEF LoadInv
  <2>2. Holds(d, LastBegun(d)) /\ LastBegun(d) \in Images
    <3>1. PICK im \in Images : IsBegun(d, im)
      BY <1>2 DEF LoadInv
    <3> QED BY <1>1, <2>1, <3>1 DEF DirInv
  <2>3. file = FullLine(LastBegun(d))
    BY <1>1, <1>2, <2>1, <2>2, LineIsThere DEF file
  <2> QED BY <1>6, <2>1, <2>3
<1>9. /\ \E im \in Images : IsBegun(d, im) /\ Describes(im)
      /\ Len(begun[d]) = 1 => Holds(d, begun[d][1])
      /\ load.begun \in Nat /\ load.begun <= Len(begun[d]) /\ (Undisturbed => done[d])
  BY <1>2 DEF LoadInv
<1>10. d = Current /\ d' = Current'
  BY DEF d
<1> HIDE DEF d
<1>11. /\ (\E im \in Images : IsBegun(d, im) /\ Describes(im))'
       /\ (Len(begun[d]) = 1 => Holds(d, begun[d][1]))'
  <2>1. PICK im \in Images : IsBegun(d, im) /\ Describes(im)
    BY <1>9
  <2>2. IsBegun(d, im)' /\ Describes(im)'
    BY <1>1, <2>1 DEF IsBegun, Describes
  <2>3. (Len(begun[d]) = 1 => Holds(d, begun[d][1]))'
    BY <1>1, <1>9 DEF Holds, FullUpTo
  <2> QED BY <2>2, <2>3
<1>12. /\ load'.begun \in Nat /\ load'.begun <= Len(begun'[d']) /\ (Undisturbed' => done'[d'])
       /\ Undisturbed' => Undisturbed
  BY <1>1, <1>9, <1>10 DEF Undisturbed
<1>13. (Undisturbed => /\ Describes(LastBegun(d))
                       /\ \A k \in DOMAIN data : data[k] = FullLine(LastBegun(d))
                       /\ LastBegun(d).n_lines # 0)'
  <2>1. LastBegun(d)' = LastBegun(d) /\ \A im : Describes(im)' <=> Describes(im)
    BY <1>1 DEF LastBegun, Describes
  <2> QED BY <1>8, <1>12, <2>1
<1>14. (\A k \in DOMAIN data : /\ data[k].samples >= scene.width * scene.n_bands
                               /\ data[k].samples <= Samples(data[k].from)
                               /\ IsBegun(d, data[k].from))'
  BY <1>1, <1>7 DEF IsBegun
<1>15. /\ scene' \in SceneType /\ line' \in Nat /\ line' = Len(data') /\ line' <= scene'.n_lines
       /\ result' \in {"none", "no scene", "no line", "ok"} /\ lpc' = "line"
  <2>1. \A a, b \in Nat : a < b => a + 1 <= b /\ a + 1 \in Nat
    OBVIOUS
  <2>2. line + 1 <= scene.n_lines /\ line + 1 \in Nat
    BY <1>2, <2>1
  <2>3. scene \in SceneType /\ result \in {"none", "no scene", "no line", "ok"}
    BY DEF LoadInv
  <2> QED BY <1>6, <2>2, <2>3
<1> QED BY <1>6, <1>10, <1>11, <1>12, <1>13, <1>14, <1>15 DEF LoadInv

\* A line that is not there has been taken away by a later conversion.
LEMMA LineMissingStep ==
    ASSUME DiskInv, ScanInv, LoadInv, lpc = "line", line < scene.n_lines,
           ~LineLoads(DirOf(Current), line, scene), lpc' = "loaded", result' = "no line",
           UNCHANGED <<data, line>>, UNCHANGED <<disk, converter, scan, current, scene, load>>
    PROVE  LoadInv'
<1>1. /\ UNCHANGED <<meta, files, begun, done, paths, current, Current>>
      /\ Current \in SceneDirs /\ DirInv(Current) /\ Len(begun[Current]) \in Nat
      /\ Opened /\ Opened' /\ line \in Nat
  <2>1. Current \in SceneDirs
    BY CurrentDir
  <2>2. UNCHANGED <<meta, files, begun, done, paths, current>>
    BY DEF disk, converter, scan
  <2> QED BY <2>1, <2>2, CurrentDir DEF DiskInv, Current, Opened, LoadInv
<1>2. PICK im \in Images : IsBegun(Current, im) /\ Describes(im)
  BY <1>1 DEF LoadInv
<1>3. Len(begun[Current]) # 0 /\ LastBegun(Current) \in Images
  BY <1>2, CurrentDir
<1>4. Len(begun[Current]) > 1
  <2>1. ASSUME Len(begun[Current]) = 1 PROVE FALSE
    <3>1. begun[Current][1] = im
      BY <1>2, <2>1, CurrentDir
    <3>2. Holds(Current, im)
      BY <1>1, <2>1, <3>1 DEF LoadInv
    <3> QED BY <1>1, <1>2, <3>2, LineIsThere
  <2> QED BY <1>1, <1>3, <2>1, MoreThanOne
<1>5. ~Undisturbed
  <2>1. ASSUME Undisturbed PROVE FALSE
    <3>1. done[Current] /\ Describes(LastBegun(Current))
      BY <1>1, <2>1 DEF LoadInv
    <3>2. Holds(Current, LastBegun(Current))
      BY <1>1, <3>1 DEF DirInv
    <3> QED BY <1>1, <1>3, <3>1, <3>2, LineIsThere
  <2> QED BY <2>1
<1>6. Undisturbed' <=> Undisturbed
  BY <1>1 DEF Undisturbed
<1>7. \A k : Describes(k)' <=> Describes(k)
  BY DEF Describes
<1>8. \A k : IsBegun(Current, k)' <=> IsBegun(Current, k)
  BY <1>1 DEF IsBegun
<1>9. (\E k \in Images : IsBegun(Current, k) /\ Describes(k))'
  BY <1>2, <1>7, <1>8
<1>10. (Len(begun[Current]) = 1 => Holds(Current, begun[Current][1]))'
  <2>1. Len(begun'[Current]) # 1
    BY <1>1, <1>4, MoreThanOne
  <2> QED BY <1>1, <2>1
<1>11. (\A k \in DOMAIN data : /\ data[k].samples >= scene.width * scene.n_bands
                               /\ data[k].samples <= Samples(data[k].from)
                               /\ IsBegun(Current, data[k].from))'
  BY <1>1 DEF LoadInv, IsBegun
<1> QED BY <1>1, <1>4, <1>5, <1>6, <1>9, <1>10, <1>11 DEF LoadInv


\* The end of the load keeps its invariant.
LEMMA LoadEndsStep == DiskInv /\ ScanInv /\ LoadInv /\ LoadEnds => LoadInv'
<1> SUFFICES ASSUME DiskInv, ScanInv, LoadInv, LoadEnds PROVE LoadInv'
  OBVIOUS
<1>1. /\ UNCHANGED <<meta, files, begun, done, paths, current, Current>>
      /\ UNCHANGED <<scene, line, data, load>> /\ lpc = "line" /\ line >= scene.n_lines
      /\ lpc' = "loaded" /\ result' = "ok"
  BY DEF LoadEnds, disk, converter, scan, Current
<1>2. Opened /\ Opened' /\ line \in Nat /\ scene.n_lines \in Nat /\ line <= scene.n_lines
  BY <1>1 DEF Opened, LoadInv, SceneType
<1>3. line = scene.n_lines
  <2>1. \A a, b \in Nat : a <= b /\ a >= b => a = b
    OBVIOUS
  <2> QED BY <1>1, <1>2, <2>1
<1>4. Undisturbed' <=> Undisturbed
  BY <1>1 DEF Undisturbed
<1>5. PICK im \in Images : IsBegun(Current, im) /\ Describes(im)
  BY <1>2 DEF LoadInv
<1>6. (\E k \in Images : IsBegun(Current, k) /\ Describes(k))'
  <2>1. IsBegun(Current, im)' /\ Describes(im)'
    BY <1>1, <1>5 DEF IsBegun, Describes
  <2> QED BY <2>1
<1>7. (Len(begun[Current]) = 1 => Holds(Current, begun[Current][1]))'
  BY <1>1, <1>2 DEF LoadInv, Holds, FullUpTo
<1>8. (Undisturbed => /\ Describes(LastBegun(Current))
                      /\ \A k \in DOMAIN data : data[k] = FullLine(LastBegun(Current))
                      /\ LastBegun(Current).n_lines # 0)'
  BY <1>1, <1>2, <1>4 DEF LoadInv, LastBegun, Describes
<1>9. (\A k \in DOMAIN data : /\ data[k].samples >= scene.width * scene.n_bands
                              /\ data[k].samples <= Samples(data[k].from)
                              /\ IsBegun(Current, data[k].from))'
  BY <1>1, <1>2 DEF LoadInv, IsBegun
<1>10. /\ load.begun \in Nat /\ load.begun <= Len(begun[Current])
       /\ Undisturbed => done[Current]
       /\ scene \in SceneType /\ data \in Seq(FileType) /\ line = Len(data)
  BY <1>1, <1>2 DEF LoadInv
<1> QED BY <1>1, <1>2, <1>3, <1>4, <1>6, <1>7, <1>8, <1>9, <1>10 DEF LoadInv

\* Scanning, and going to the next scene, leave what was loaded behind.
LEMMA NotLoading ==
    ASSUME LoadInv, UNCHANGED <<scene, line, data, result>>,
           lpc' \in {"path", "readdir", "empty", "load"}
    PROVE  LoadInv'
BY DEF LoadInv, Opened

\* Steps that leave the load alone keep its invariant.
LEMMA LoadStays ==
    ASSUME LoadInv, UNCHANGED vars
    PROVE  LoadInv'
<1>1. /\ UNCHANGED <<meta, files, begun, done, lpc, paths, current, Current>>
      /\ UNCHANGED <<scene, line, data, result, load>>
  BY DEF vars, disk, converter, scan, loading, Current
<1>2. /\ Undisturbed' <=> Undisturbed
      /\ Opened' <=> Opened
  BY <1>1 DEF Undisturbed, Opened
<1>3. ASSUME Opened PROVE (\E k \in Images : IsBegun(Current, k) /\ Describes(k))'
  <2>1. PICK im \in Images : IsBegun(Current, im) /\ Describes(im)
    BY <1>3 DEF LoadInv
  <2>2. IsBegun(Current, im)' /\ Describes(im)'
    BY <1>1, <2>1 DEF IsBegun, Describes
  <2> QED BY <2>2
<1>4. ASSUME Opened PROVE (Len(begun[Current]) = 1 => Holds(Current, begun[Current][1]))'
  BY <1>1, <1>4 DEF LoadInv, Holds, FullUpTo
<1>5. ASSUME Opened
      PROVE  (Undisturbed => /\ Describes(LastBegun(Current))
                             /\ \A k \in DOMAIN data : data[k] = FullLine(LastBegun(Current))
                             /\ LastBegun(Current).n_lines # 0)'
  BY <1>1, <1>2, <1>5 DEF LoadInv, LastBegun, Describes
<1>6. ASSUME Opened
      PROVE  (\A k \in DOMAIN data : /\ data[k].samples >= scene.width * scene.n_bands
                                     /\ data[k].samples <= Samples(data[k].from)
                                     /\ IsBegun(Current, data[k].from))'
  BY <1>1, <1>6 DEF LoadInv, IsBegun
<1>7. (/\ lpc = "loaded" /\ result = "no line" => Len(begun[Current]) > 1 /\ ~Undisturbed
       /\ lpc = "loaded" /\ result = "no scene" /\ Undisturbed
              => LastBegun(Current).n_lines = 0)'
  BY <1>1, <1>2 DEF LoadInv, LastBegun
<1> QED BY <1>1, <1>2, <1>3, <1>4, <1>5, <1>6, <1>7 DEF LoadInv

\* Every step keeps the invariant of the load.
LEMMA LoadStep == DiskInv /\ ScanInv /\ LoadInv /\ [Next]_vars => LoadInv'
<1> SUFFICES ASSUME DiskInv, ScanInv, LoadInv, [Next]_vars PROVE LoadInv'
  OBVIOUS
<1>1. CASE Converter
  BY <1>1, LoadKept
<1>2. CASE LoadMetadata
  BY <1>2, LoadMetadataStep
<1>3. CASE LoadLine
  BY <1>3, LineReadStep, LineMissingStep DEF LoadLine
<1>4. CASE LoadEnds
  BY <1>4, LoadEndsStep
<1>5. CASE ScanPath
  <2>1. CASE lpc' = "load" \/ lpc' = "empty" \/ lpc' = "readdir"
    BY <1>5, <2>1, NotLoading DEF ScanPath, loading
  <2> QED BY <1>5, <2>1 DEF ScanPath
<1>6. CASE ReadEnd
  BY <1>6, NotLoading DEF ReadEnd, loading
<1>7. ASSUME NEW e \in SceneDirs, ReadEntry(e) PROVE LoadInv'
  BY <1>7, NotLoading DEF ReadEntry, loading
<1>8. ASSUME NEW direction \in {1, -1}, Advance(direction) PROVE LoadInv'
  BY <1>8, NotLoading DEF Advance
<1>9. CASE NoScenes \/ UNCHANGED vars
  BY <1>9, LoadStays DEF NoScenes
<1> QED BY <1>1, <1>2, <1>3, <1>4, <1>5, <1>6, <1>7, <1>8, <1>9 DEF Next, Loader

(***************************************************************************)
(* Theorems.                                                                 *)
(***************************************************************************)
\* The invariant: disk, list and loaded scene, whatever runs when.
THEOREM StoreInvariant == Spec => []StoreInv
<1>1. Init => StoreInv
  BY DiskInit, ScanInit, LoadInit DEF StoreInv
<1>2. StoreInv /\ [Next]_vars => StoreInv'
  BY DiskStep, ScanStep, LoadStep DEF StoreInv
<1> QED BY <1>1, <1>2, PTL DEF Spec

\* scene_loader.c and convert.py keep their variables in range, and current is an index of
\* the list (StoreTypeOK).
THEOREM TypesOfTheStore == Spec => []StoreTypeOK
<1>1. StoreInv => StoreTypeOK
  <2> SUFFICES ASSUME StoreInv PROVE StoreTypeOK
    OBVIOUS
  <2>1. DiskType /\ ConverterInv
    BY DEF StoreInv, DiskInv
  <2>2. ScanInv /\ LoadInv
    BY DEF StoreInv
  <2> QED BY <2>1, <2>2 DEF DiskType, ConverterInv, ScanInv, LoadInv, StoreTypeOK
<1> QED BY <1>1, StoreInvariant, PTL

\* xs_scene_list_scan: the list is in order, without duplicates, holds scenes only, and
\* every scene there was when it started unless it is full (ScanListsScenes).
THEOREM ScanIsComplete == Spec => []ScanListsScenes
<1>1. StoreInv => ScanListsScenes
  BY DEF StoreInv, ScanInv, ScanListsScenes
<1> QED BY <1>1, StoreInvariant, PTL

\* The metadata is written last (convert.py:215): a line can be missing from a scene that
\* loads only after a second conversion into its directory (FirstConversionIsWhole).
THEOREM FirstIsWhole == Spec => []FirstConversionIsWhole
<1>1. StoreInv => FirstConversionIsWhole
  BY DEF StoreInv, LoadInv, FirstConversionIsWhole
<1> QED BY <1>1, StoreInvariant, PTL

\* When a load succeeds, every line has been read, at least as long as the scene says.
LEMMA LoadedLines ==
    ASSUME StoreInv, lpc = "loaded", result = "ok"
    PROVE  /\ Current \in SceneDirs /\ Len(begun[Current]) \in Nat
           /\ Len(begun[Current]) # 0 /\ DOMAIN begun[Current] = 1 .. Len(begun[Current])
           /\ data \in Seq(FileType) /\ Len(data) = scene.n_lines /\ scene.n_lines \in Nat
           /\ \E im \in Images : IsBegun(Current, im) /\ Describes(im)
           /\ \A k \in DOMAIN data : /\ data[k].samples >= scene.width * scene.n_bands
                                     /\ data[k].samples <= Samples(data[k].from)
                                     /\ IsBegun(Current, data[k].from)
<1>1. DiskInv /\ ScanInv /\ LoadInv /\ Opened
  BY DEF StoreInv, Opened
<1>2. /\ Current \in SceneDirs /\ begun[Current] \in Seq(Images)
      /\ Len(begun[Current]) \in Nat
      /\ \A im : IsBegun(Current, im) => Len(begun[Current]) # 0
  BY <1>1, CurrentDir
<1>3. /\ \E im \in Images : IsBegun(Current, im) /\ Describes(im)
      /\ data \in Seq(FileType) /\ line = Len(data) /\ line = scene.n_lines
      /\ scene.n_lines \in Nat
      /\ \A k \in DOMAIN data : /\ data[k].samples >= scene.width * scene.n_bands
                                /\ data[k].samples <= Samples(data[k].from)
                                /\ IsBegun(Current, data[k].from)
  BY <1>1 DEF LoadInv, SceneType
<1> QED BY <1>2, <1>3

\* A sequence of n full lines of an image is FullLines.
LEMMA AllFull ==
    ASSUME NEW t \in Seq(FileType), NEW im, NEW n \in Nat, Len(t) = n,
           \A k \in DOMAIN t : t[k] = FullLine(im)
    PROVE  t = FullLines(im, n)
BY DEF FullLines

\* A directory that only ever held one image, however often its conversion was interrupted
\* and repeated, loads as that image or not at all (LoadsAreNotTorn).
THEOREM NoTornLoads == Spec => []LoadsAreNotTorn
<1>1. StoreInv => LoadsAreNotTorn
  <2> SUFFICES ASSUME StoreInv, lpc = "loaded", result = "ok",
                      \A k \in DOMAIN begun[Current] : begun[Current][k] = begun[Current][1]
               PROVE  data = FullLines(begun[Current][1], begun[Current][1].n_lines)
    BY DEF LoadsAreNotTorn
  <2> DEFINE im == begun[Current][1]
  <2>1. \A i : IsBegun(Current, i) => i = im
    BY DEF IsBegun
  <2>2. im \in Images /\ Describes(im)
    BY <2>1, LoadedLines
  <2>3. /\ scene.width * scene.n_bands = Samples(im) /\ Samples(im) \in Nat
        /\ scene.n_lines = im.n_lines
    BY <2>2, ImageFields DEF Describes, Samples
  <2> HIDE DEF im
  <2>4. ASSUME NEW k \in DOMAIN data PROVE data[k] = FullLine(im)
    <3>1. data[k] \in FileType
      BY LoadedLines
    <3>2. /\ data[k].samples >= Samples(im) /\ data[k].samples <= Samples(im)
          /\ data[k].from = im /\ data[k].samples \in Nat
      BY <2>1, <2>3, <3>1, LoadedLines DEF FileType
    <3>3. \A a, b \in Nat : a >= b /\ a <= b => a = b
      OBVIOUS
    <3>4. data[k].samples = Samples(im)
      BY <2>3, <3>2, <3>3
    <3> QED BY <3>1, <3>2, <3>4 DEF FileType, FullLine
  <2>5. data = FullLines(im, im.n_lines)
    BY <2>3, <2>4, LoadedLines, AllFull
  <2> QED BY <2>5 DEF im
<1> QED BY <1>1, StoreInvariant, PTL

\* Once a conversion has ended, loads deliver that image in full, whatever was in the
\* directory before (LastConversionLoads).
THEOREM LastLoads == Spec => []LastConversionLoads
<1>1. StoreInv => LastConversionLoads
  <2> SUFFICES ASSUME StoreInv, lpc = "loaded", Undisturbed
               PROVE  LET im == LastBegun(Current) IN
                      IF im.n_lines = 0 THEN result = "no scene"
                      ELSE result = "ok" /\ data = FullLines(im, im.n_lines)
    BY DEF LastConversionLoads, Undisturbed, LastBegun
  <2>1. DiskInv /\ ScanInv /\ LoadInv
    BY DEF StoreInv
  <2>2. result \in {"no scene", "ok"}
    BY <2>1 DEF LoadInv
  <2>3. CASE result = "no scene"
    BY <2>1, <2>3 DEF LoadInv
  <2>4. CASE result = "ok"
    <3>1. /\ Describes(LastBegun(Current)) /\ LastBegun(Current).n_lines # 0
          /\ \A k \in DOMAIN data : data[k] = FullLine(LastBegun(Current))
      BY <2>1, <2>4 DEF LoadInv, Opened
    <3>2. scene.n_lines = LastBegun(Current).n_lines
      BY <3>1 DEF Describes
    <3>3. data = FullLines(LastBegun(Current), LastBegun(Current).n_lines)
      BY <2>4, <3>1, <3>2, LoadedLines, AllFull
    <3> QED BY <2>4, <3>1, <3>3
  <2> QED BY <2>2, <2>3, <2>4
<1> QED BY <1>1, StoreInvariant, PTL
=============================================================================
