# A TLA+ development of the HyperScape100 emulator

The emulator (`src/src/`) stands in for a hyperspectral camera: it streams a
scene from disk as ICD packets over a TCP data port and takes commands on a
second, control port. A Rust client (`src/client/`) shows the stream, and a
Python converter (`src/tools/`) writes the scenes. This directory holds
TLA+ models of all three, TLC configurations that check them on small
instances, and proofs TLAPS checks for every instance.

## 1. The system

| part | state it keeps | operations | interacts with |
|---|---|---|---|
| emulator server, `emu_server.c` | the scene list and its current index; the loaded metadata `scene`; the band configuration `n_bands`, `band_indices`, `band_wavelengths`, `source_n_bands`; `session_id`, `sessions_sent`; inside a session the line, the band, `timestamp` and `last_telemetry` | boot; accept a data connection and stream a session on it; close it; accept a control connection, or time out; receive one command; reconfigure; switch scene; answer | the scene loader and the control parsers by calls, the serializers by calls, clients through two listening sockets |
| scene loader, `scene_loader.c` | the scene list (owned by the server); the directories | scan, load metadata, load a line, extract a band, advance | called by the server; reads what the converter writes |
| control protocol, `control.c` | none | serialize and parse RCFG, NSCN and ACK | called by the server |
| serializers, `serializer.c`, `packets.h` | none | one per packet: writes the packet, or returns 0 when it does not fit | called by the server and by the session builder |
| session builder, `session.c` | the write position and the session's counters | `xs_session_size`, `xs_build_session` | calls the serializers |
| packet parser and CRC, `pkt_parser.c`, `crc32.c` | none | find the sync word, parse a header, validate a CRC | used by the tests and by applications |
| client, `main.rs` | statistics, the image and a reconnect flag, shared by two threads; the UI's copy of the band list | receive and decode; key handlers that send a command and ask for a reconnection | the server, through both ports |
| converter, `convert.py` | files of a scene directory | write the line files, then the metadata | read by the scene loader |

The server is one thread that alternates between the ports. A session is sent
to one client, then the control port is served for at most one command or 60
seconds, then the data port again. What is hard about it is therefore not
locking, but *what state a session starts from*: the configuration is made of
seven variables written by four different code paths, some of which fail half
way, and sessions, timeouts, broken connections and commands come in any order.

The client has two threads of its own. The receiver writes the statistics packet by
packet, the interface copies from them, and a flag tells the receiver to
connect again; the acknowledgement of a command is waited for two seconds and
not looked at. The converter and the programs that load scenes share only files: what
makes a directory a scene is its metadata, which is written last.

What makes each part correct:

* a connection carries a prefix of a session in the documented order, and a
  closed session is whole (server, session builder);
* what a session announces (bands, wavelengths, size) is what it sends, read
  with the stride of the scene it is read from (server);
* a session is streamed under the last acknowledged configuration (server);
* nobody waits for ever: data clients, control clients, the caller of a server
  with a session limit; one state, in which a control client holds the only
  thread, is the known exception (server);
* per-band arrays are never indexed beyond their end (server);
* a buffer of the estimated size holds the session (session builder), and both
  readers find its packets again (packet parser, client);
* a client at rest shows the configuration the server holds, "complete" means
  complete, and a reconnection that was asked for is made (client);
* the scan finds every scene, in order, and a load never mixes lines of
  interrupted conversions into a scene (scene loader, converter).

## 2. Modules

| module | models |
|---|---|
| `Packets` | `serializer.c`, `packets.h`: sizes, padding, the out-of-room return, payload fields |
| `SceneFiles` | `scene_loader.c`: metadata and its casts, lines, advancing through the list |
| `SceneLoader` | the list of directories a running server has |
| `SceneStore` | `convert.py`'s writes, interrupted and repeated, beside `xs_scene_list_scan`, `xs_scene_load_metadata` and `xs_scene_load_all` |
| `Control` | `control.c`: what parses as which command, for every prefix of it |
| `StreamSession` | `stream_session`: one session, one packet per step |
| `EmuServer` | `xs_emu_run`, `match_bands_to_indices`, `reset_band_config`: the server's loop, composed with `StreamSession`, its clients and the kernel's backlogs |
| `IcdSession` | the abstract specification: which packets a connection may carry, decided from the packets alone |
| `EmuServerProps` | the properties of the server |
| `SessionBuilder` | `xs_session_size`, `xs_build_session` and their properties |
| `SessionReader` | the packet header, `xs_find_sync` and `xs_parse_header` in the loop of `count_packets`, and the reads and framing of the client (`receiver_thread`, `process_packets`), composed with `SessionBuilder`; and their properties |
| `Client` | `main.rs`: `receiver_thread`, `process_packets`, the reconnect loop, the band list, the key handlers and the two commands |
| `ClientServer` | `Client` and `EmuServer` joined by their connections, and the client's properties |
| `MCEmuServer`, `MCSessionBuilder`, `MCClientServer`, `MCSceneStore` | instances for TLC |
| `EmuServerProofs` | type correctness of the server |
| `EmuServerSafetyProofs` | identifiers, the session limit, pixels, the current scene |
| `AnnouncementProofs` | that sessions announce what they send, send what was acknowledged, and, whatever was asked for, what matched |
| `IcdLemmas` | what appending a packet does to the counts and times `IcdSession` is made of |
| `StreamOrderProofs` | that the server implements `IcdSession`; telemetry; whole sessions |
| `SessionBuilderProofs` | types of the builder; that its estimate suffices; that it implements `IcdSession`; telemetry; whole buffers; that both readers find its packets and hand on a session |
| `SceneStoreProofs` | the properties of `SceneStore` |
| `ClientServerProofs` | the composition: that it implements the server's specification; the client's types; what a resting client shows; complete sessions |

Definitions keep the names of the source. `PROJECT.json` maps each of them to
the lines it stands for.

**`StreamSession`.** `arguments` are the function's parameters; `stage` is the
statement it is at. Each send is a step, so a connection can break between any
two packets. `pixels` of a LINE DATA packet records *where the pixels were read
from* (the stride and the source band) instead of the samples: this is what
tells a right band from a wrong one. A send on an open connection succeeds; when the
client is gone it may still succeed (the reset has not arrived), fail, or raise
SIGPIPE (`BrokenPipe` in `EmuServer`). With "files" among the `Faults` a line file that is
there may fail to open or read at any time; the same fault makes a start or a scene switch fail
whose metadata is good (the server's `scene` is then as it was).

**`EmuServer`.** `pc` is the blocking call or loop the thread is in. The
directories are constants: a record of the integers the metadata parser finds
and of the number of samples in each line file, so that they may be unreadable,
unusable, truncated, or disagree with the metadata. `LoadedScene` performs the casts to the
field widths, and `SceneAfterLoad` what a failed load leaves behind. Data clients are a
count, control clients a queue of the bytes they will write; `Receive` lets the
one `recv` return any non-empty prefix of them. `match_bands_to_indices` takes one step
per requested wavelength because it writes the configuration in place. `promised` is a
history variable: what the last command answered "ok" asked for. A client may
close its connection at any time, also without a word (`ReceiveTooLittle`), but nothing says that it does.
On a silent connection that stays open only a receive timeout ends the `recv`. The code sets
`SO_RCVTIMEO` on the *listening* socket, for `accept` (emu_server.c:275-277), and first after the first session
(`accept_timeout`); Linux copies it to a connection when that is set up. So connections
made while the server waits for its first data client, or streams to it, have none: `untimed` counts those
not yet closed (history again: the code does not know them). They are accepted before all later ones, so while
`untimed` is not 0 the connection in `recv` is one of them (`RecvEnds`). If it is silent, the server
is `Held`: the only thread waits until that client closes.

**`SessionBuilder`.** Every serializer is handed the rest of the buffer. `Emit` is
one call and its check. The sizes are those `xs_session_size` adds up.

**`SessionReader`.** The builder runs (`Build`), then one of the two readers goes over the bytes it
returned, `lead` of which precede the session. `offsets` is a history variable: where each
packet was written. Of the bytes themselves only headers matter: `Header` is what `finalize_packet` writes, and
`HeadersAt` what eight bytes at an offset may be. At the start of a packet that is its header; before the session it is
none (a stray sync word there would start a false packet, in the code too); anywhere else in the session, where
pixels, times and CRCs stand, it is none or a look-alike of one, as the model chooses. The parser has
all bytes at once (`GivenBuffer`), the client those of its reads so far (`ClientReads`), and what `process_packets` leaves in
the buffer begins where it stands (`at`). `found` are the offsets of the packets taken.

**`Client`.** One action is one lock region, or one call that may block, so the two
threads interleave exactly where the mutexes let them. `rpc` and `upc` are the threads'
statements. The packets a read returns are whole here (`SessionReader` is about how
reads split them), and a payload is what the client keeps of it: wavelengths, the
scene's height, the band and line number. `stats.bands` stands for `n_bands` and the first
`n_bands` wavelengths; the preview is the set of lines and channels painted in it.
`list` is the interface's own copy of the bands, `enabled` its check marks; Space toggles any band of the
list, which stands for moving the cursor there first. `accum` is local to a call of
`receiver_thread` and always empty when one starts. `ReadTimesOut` changes nothing, and its step is a
stutter: the loop goes on.

**`ClientServer`.** A step of the server also delivers: a packet it appends to `wire`
is put in the client's `inbox`, of which at most `Window` are unread (then `send` blocks), and
closing the connection is the end of file after them. The queue of the control port holds the bytes
the client writes; the client's read returns when the server is done with its connection
(`Respond`), or gives up (`AckTimesOut`) and leaves the command in the queue. The server's own clients
(`DataConnect`, `ControlConnect`, `DataHangup`) are replaced by this one.
`ClientCommandsAssumption` says that what it can write is among the server's `Commands`: both
directions, and a reconfiguration with any bands of which each is a wavelength a scene has or one
`send_bands` makes up (`MadeUp`) for a wavelength of 0.

**`SceneStore`.** Directories are numbered in the order of `strcmp`. A line file is the image its
samples come from and how many of them have been written: `BeginLine` is the truncating
open with any part written, `EndLine` the rest. `Interrupt` may come anywhere and leaves the
disk as it is. `readdir` returns the directories in any order while conversions go on.
`begun` and `done` are history variables: the images converted into each directory, and whether the last
of these was finished. Directories the converter has not yet made are directories
without metadata.

**Mutants.** A definition preceded by "Mutant:" is a plausible error in the
definition after it; substituting it makes the property named in `PROJECT.json` fail.
They are no part of the model.

## 3. Runs

| run | environment | checks |
|---|---|---|
| `ServerOrderly` | two well-formed scenes of 3 and 4 bands, subset requests, scene switches and unknown bytes, every fault but "files", no limit | `TelemetryCadence`, `ReadsInsideThePixel`, `AnnouncedMatchesSent`, `StreamedSceneIsCurrent`, `StreamHonoursAcks`, `FreshSessionId` |
| `ServerRotten` | seven directories, five of them broken; requests that are permuted, partly or wholly unmatched, empty, too long, and a silent client; every fault but a failing `accept`; a limit of four sessions, so that every directory is reached; fairness | `TypeOK`, `EndedSessionsAreWhole`, `BlocksUntilMaxSessions`, `StreamFollowsIcd` (the server implements `IcdSession`), `Stops` |
| `ServerLive` | two scenes that load, one with the same wavelength in both of its bands; requests that are permuted, repeated, partly unmatched and as many as a scene has, scene switches, a silent control client; no faults, backlogs of two; fairness | `StreamsWhatMatched`, `DataClientServed`, `CommandTaken` |
| `SessionBuilder` | line periods on every side of the telemetry interval, 8- and 16-bit pixels, sessions of no line, of one and with telemetry between lines, payloads of one, two and three bytes' length, buffers one byte short, exact and roomy; the parser on the whole buffer, the client with reads that end in headers and payloads, at packets and at the end; stray bytes before the session | of the builder: `TypeOK`, `EstimateSuffices`, `BufferOnCadence`, `ReturnsWholeSession`, `BufferFollowsIcd` (it implements `IcdSession`); of it with a reader: `ReadersFollowBuffer`, `DeliveryFollowsIcd` (together they implement `IcdSession`) |
| `ClientServer` | one client that can write every command of `ClientCommandsAssumption`, two scenes of two and of one band, three keys, a server whose accepts may fail; fairness | `ClientTypeOK`, `ShownIsCurrent`, `CompleteIsWhole`, `ReconnectIsServed` |
| `SceneStore` | four directories, one of them hidden, room for two, scenes there from the start; conversions of three images with any interruption; a scan of the parent or of a directory, and loads | `StoreTypeOK`, `ScanListsScenes`, `FirstConversionIsWhole`, `LoadsAreNotTorn`, `LastConversionLoads` |

What the runs of the client and the store show: however commands, the two seconds of waiting, the flag and
sessions already under way interleave, a client that has come to rest after an acknowledged
command shows the configuration the server holds (`ShownIsCurrent`): the flag is
set after the command was taken, so the session it leads to began after it. What the status line
calls complete was received and painted whole (`CompleteIsWhole`), as long as the server's lines
load. A scan that runs beside conversions lists every scene that was there when it began, and
a directory converted for the first time is never loaded with lines missing, because
the metadata comes last; repeating a conversion gives up that protection, but never
puts a torn line into a load of the same image.

The liveness properties name the one place where the code can wait for ever. `Stops`: the server stops, or is `Held` from
some time on. `DataClientServed` and `CommandTaken`: again and again no connection is waiting, or again and again one is
accepted (so each has its turn: both queues are first in, first out), or the server is `Held` from some time on. They
do not say that it is not: in `ServerLive` and `ServerRotten` a client may connect during the first session and stay silent,
and then data clients, commands and the caller of a limited server do wait as long as it pleases. What they exclude is every other way to wait:
in particular that a connection with a timeout, silent or not, keeps the thread, or that one early client
delays the others after it has gone.

`StreamedSceneIsCurrent` needs files that can be read: `ServerOrderly` leaves the fault "files" to `ServerRotten`, because a
switch that fails for a moment has the same effect as one to a directory that never loads (`FailedSwitch`).

`UnmatchedBands` and `PermutedBands` below show what a session does not promise; `StreamsWhatMatched` is what it does
promise whatever is asked for: a band for each requested wavelength that some band of the scene is near to (`Selectable`), at its place among
those (`Slot`), announced with its own wavelength and, while fewer are selected than the scene has, read from it.
A reader of the stream meets the session order packet by packet, and every packet as soon as it is there, wherever its
reads end (`ReadersFollowBuffer`, `DeliveryFollowsIcd`).

Six runs show where the code departs from what it or its documentation says;
`PROJECT.json` quotes the lines:

* `FailedSwitch`: a scene switch that fails leaves the list advanced and the
  metadata behind; the next session mixes two scenes.
* `PermutedBands`: all bands of a scene in another order are announced in the
  requested order and sent in the scene's.
* `UnmatchedBands`: a band the scene lacks is dropped, and the answer is "ok".
* `BrokenPipe`: a client that disconnects in the middle of a session can kill the server.
* `WaitingCommand`: outside the window after a session a command is neither taken
  nor answered until a data client connects.
* `StaleBandList`: after a scene switch the client's band selector can show the old
  scene's bands and ask the new scene for them.

**Bounds.** `MaxBands` is 4 instead of 32: enough for a scene with fewer bands than
the maximum and one with exactly the maximum, and for a request one longer. The
telemetry interval is two line periods, so a three-line scene has a telemetry packet in the
middle and a two-line scene has none. Session identifiers wrap at 3, so the wrap is
reached. Backlogs hold one or two connections (`listen(fd, 1)`). `MaxSessions` is 4 where
the limit is what is checked; elsewhere there is none, and `sessions_sent`, read only under a
limit, stays 0, which makes the unlimited server finite. `SessionBuilder` runs with the
real intervals, since only the arithmetic matters there.

In the same run reads of 5, 24 and 65536 bytes (`ReadSizes`) end inside headers, inside payloads and between packets, and cover a session of
several packets in one read; a lead of 3 bytes (`Leads`) is shorter than a header. The builder's locals stay as they are while a reader
runs (`ReadersOnlyRead`), so one run serves both; rows of one pixel make every packet of a line padded, and rows of
40000 fill three bytes of length. `ServerLive` has requests of three and four wavelengths for a scene of
four bands and one of two.

In `ClientServer` the scenes differ in band count, wavelengths and height, so that a
client that shows the wrong one is caught; three keys (`MaxKeys`) are enough for a switch and a
selection, or for two commands and a third key between them; a read returns one or two packets (`MaxRead`) and two may be
unread (`Window`), so the server runs ahead of the client and blocks on it. `SceneKeys` is N alone:
with two scenes P does the same. The telemetry interval is three line periods: telemetry is
the server's subject, and here only the final packet is sent. In `SceneStore` two conversions
(`MaxConversions`, those from before the start included) are enough for one directory to be
converted twice and for two to be converted once each, and a `Capacity` of two for
a list that is full before all three visible directories are in it.

**Deadlock** is checked in every run: a server that has returned or been killed is the
action `Ended`.

**Fairness.** `Fairness` is weak fairness of the server's steps taken together: the
thread is scheduled, data clients read what they are sent (`send` has no timeout, so a client that
does not would hold the server for ever), and the 60-second timeouts run out where there are any: in `recv` it
assumes a step only if there is something to read or the connection has a timeout (`RecvEnds`). The
next step is determined except where the environment chooses, so weak fairness of the
disjunction is what a scheduled thread gives. `ReturningClients` adds that data clients
keep connecting; `DataClientServed`, `CommandTaken` and `Stops` are checked under it, and
`WaitingCommand` shows that `CommandTaken` needs it. Nothing is assumed of
control clients, nor that one that holds the server ever lets go. `FairnessBoth` of `ClientServer` is weak fairness of each of the three
threads, the server and the client's two: they are scheduled, and their reads have
timeouts. The user may press keys or not.

## 4. Proofs

TLAPS proves the following for every value of the constants that the named assumptions
(`MaxBandsAssumption`, `ScenesAssumption`, `PeriodsAssumption`, `FaultsAssumption`, `CommandsAssumption`,
`ServerAssumption`, `BuilderAssumption`, `ReaderAssumption`, `StoreAssumption`, `ClientAssumption`,
`ClientServerAssumption`, `ClientCommandsAssumption`) allow: any number of scenes with any metadata and any line files, any
set of commands, any faults, backlogs and limits.

| theorem | says | environment |
|---|---|---|
| `ServerTypeOK` | the server's variables keep their types; per-band indices stay inside the arrays | any |
| `SessionIdsAreFresh` | `FreshSessionId` | any |
| `LimitIsExact` | `BlocksUntilMaxSessions` | accept does not fail |
| `PixelsStayInside` | `ReadsInsideThePixel` | `Modest` |
| `StreamsTheCurrentScene` | `StreamedSceneIsCurrent` | `Loadable`, `SteadyFiles` |
| `AnnouncementsAreTrue` | `AnnouncedMatchesSent` | `Selective` |
| `SessionsHonourAnswers` | `StreamHonoursAcks` | `Answerable` |
| `SessionsFollowMatches` | `StreamsWhatMatched` | `Loadable` |
| `ServerTelemetry` | `TelemetryCadence` | any |
| `ClosedSessionsAreWhole` | `EndedSessionsAreWhole` | fewer than 2^24 lines |
| `ServerRefinesIcd` | `StreamFollowsIcd`: the server implements `IcdSession` | fewer than 2^24 lines |
| `BuilderTypeOK` | the builder's locals keep their types and ranges | any |
| `EstimateAlwaysSuffices` | `EstimateSuffices` | any |
| `TelemetryOnCadence` | `BufferOnCadence` | any |
| `WholeSessions` | `ReturnsWholeSession` | any |
| `BufferRefinesIcd` | `BufferFollowsIcd`: the builder implements `IcdSession` | fewer than 2^24 lines |
| `ReadersOnlyRead` | builder and reader implement the builder's `Spec` | any |
| `ReadersFindPackets` | `ReadersFollowBuffer` | any |
| `DeliveryRefinesIcd` | `DeliveryFollowsIcd`: builder and reader implement `IcdSession` | fewer than 2^24 lines |
| `TypesOfTheStore` | `StoreTypeOK` | any |
| `ScanIsComplete` | `ScanListsScenes` | any |
| `FirstIsWhole` | `FirstConversionIsWhole` | any |
| `NoTornLoads` | `LoadsAreNotTorn` | any |
| `LastLoads` | `LastConversionLoads` | any |
| `ServerInComposition` | the composition implements the server's `Init /\ [][Next]_vars` | any |
| `ClientTypes` | `ClientTypeOK` | any |
| `RestingClientIsCurrent` | `ShownIsCurrent` | `NoMemoryFault`, `ShortScenes` |
| `CompleteSessionsWereWhole` | `CompleteIsWhole` | `Streamable` |

`Loadable` says that every directory holds a scene, `SteadyFiles` that the fault "files" does not occur, `Modest` also that no client asks for more bands than the
smallest scene has; `Selective` that it asks for fewer. `Answerable` adds that a reconfiguration names at least one band,
that every scene has a band near enough to each it names, and that no scene has a wavelength twice. The scenes and
requests of `ServerOrderly` meet
them. They are needed: `FailedSwitch`, `PermutedBands` and `UnmatchedBands` break the properties
just outside of them, and so does a request for one band twice from a scene of one. Line numbers
and heights travel in 24 bits, so a scene of 2^24 lines or more announces another height than it
sends; `SCENE START` cannot describe it (`ShortScenes` says that there is none). `NoMemoryFault`: no allocation
fails, and every session is therefore opened; without it a session can end before its first packet, and the
client calls it complete with nothing on its screen. `Streamable` says that every scene
loads, line by line, is short, that its lines fit the packet buffer, and that no allocation and no read of a file fails: a session cut short
because a line does not load is "complete" for the client too. The scenes of `ClientServer` meet it.

*Types.* `TypeInv` adds to `TypeOK` that a session's locals are idle outside
`stream_session` (`Phase`) and that the preamble is indexed within its length
(`StreamInv`): without the first a scene switch could pull the configuration from under a
session, without the second `SendPreamble` could send a sixth packet. `TimeoutsStep`: of the control connections the server
knows of, `untimed` never counts more than there are.

*Pixels.* `PixelInv` has three parts. `SelectionInv`: the bands in force are all of the
scene's in order (`source_n_bands = 0`) or some of them under its own stride. `MatchInv`: the
entries `match_bands_to_indices` has written so far are bands of the scene, and there are
no more of them than requested; it is needed because they are written into the array that is in force.
Third, the band counter stays below the band count.

*Announcements.* Between the first match and the end of a command `band_indices` is new and
`band_wavelengths` old, so `ConfigInv` claims their agreement only outside that window
(`HalfWritten`) and the proof shows that no session starts inside it. `WireInv` carries it
to the packets: the third is the configuration in force and every line-data packet was read
under it. `FinishAnnounces` is where `Selective` is used: `stream_session` looks at
`band_indices` only if the stride is larger than the number of bands.

*Answers.* `AnswerInv` follows a reconfiguration through the matching: the entries written so
far are the bands nearest to the first wavelengths asked for, one for each of them, since
`Answerable` lets none be skipped. After the answer that is the configuration in force, until another command
replaces it; sessions, timeouts and rejected commands in between leave it alone.

*Any request.* `MatchedInv` drops what `AnswerInv` needs: that nothing is skipped. Of a request of which `i` wavelengths
have been looked at, `matched` is the number of those the scene can serve (`Selectable`), and the entry a served one was written to is the
number of those before it (`Slot`); `SelectableNext` and `SlotBelow` are the counting behind it. When the
command ends all wavelengths have been looked at, because a command with more than `MaxBands` does not parse. After a reset
the promise is the scene's own wavelengths: each has a nearest band although two may be equal (`NearOwn`: the first of them, by
well-foundedness), so all are served in order. `SentInv` carries the configuration in force to the
packets; it changes only when nothing is on the wire.

*Order.* For the server and for the builder alike, `OrderInv` says what the packets so far are at
every statement of the loop: between lines there are `line` exposures and `line * n_bands` line-data packets
(`InSession`), inside a line one exposure and `band` packets more, the last telemetry
is the one the local variable remembers, and at the end everything is there. `IcdLemmas`
gives what one more packet does to each count, and when `IcdSession` allows it
(division of the packet count by the band count yields the line and the band); each send then
maps to `Receive`, the end of a session to `Reconnect`, and every other step to a stutter.

*Store.* `StoreInv` has three parts. `DiskInv`: whatever a directory holds comes from a conversion
begun in it, the image under conversion is whole up to `valid_lines`, a finished conversion is whole, and
metadata after a single conversion describes a whole scene. It is inductive only because a file is written in place at
its number and never removed. `ScanInv`: what `readdir` has returned and what had metadata at the start
is on the list, which has no duplicates; sorting then orders it strictly. `LoadInv`: the loaded
fields are those of some conversion, and, if no other has begun since, of the last.

*Identifiers and limit.* `IdInv` (the first packet carries the identifier still held) and
`LifeInv` (a running server is below its limit).

*Estimate.* `SizeInv` of `SessionBuilderProofs` bounds the write position by the sizes of what has been
written, counts the telemetry packets, and keeps `telemetries * TelemetryInterval <=
last_telemetry_time <= timestamp <= line * period`. `TelemetryRoom` turns the last into the
allowance of `xs_session_size`, and `Room` shows that the packet about to be written
fits in what is left of the estimate.

*Readers.* `Tiled` says that the packets of the buffer lie end to end, with `pos` behind the last: a write moves `pos` by the
size the header then announces (`HeaderTells`, through the round trip of the 24-bit length and the flags' check bits,
for which payloads must stay below 2^24: `PayloadFits`). `ReaderInv` says where a reader can stand: before the session, at the
first packet it has not taken, or behind the last, and nowhere else; so it never looks at the bytes between headers, which may be anything.
Bytes are what it waits for only when the next packet is not whole. `DeliveryRefinesIcd` adds that every beginning of the
buffer allows its next packet (`InOrder`, kept by the builder's refinement), and that what was handed on is such a beginning
(`Handed`): a packet taken is a `Receive`.

*Client and server.* A step of either is a step or a stutter of the server's `Next`
(`StepOfServer`): the client's connection is a `DataConnect`, what it writes a `ControlConnect`, and the server meets no
reset, since the client keeps reading until the end of file. So the invariants of the server hold in the
composition. `TypesInv` adds where wavelengths come from (`SourceInv`): from scenes to the configuration,
into packets, statistics, the band list and back into a command; that they are commands the server knows is `RequestIsCommand`.

`ServerInv` is the server's half. `ConnInv`: a receiver that holds a connection and has not seen its end is in the
backlog or is streamed to, never both. `AnswerInv`: after "ok" no command is queued or being handled,
so the configuration stands still. `WireInv`: what is on the wire is ordered and was opened under the configuration in force.
`BlueInv`: of the first band as many lines have been sent as the loop has begun, in order; it is needed
because the client's line counter is that of the *last* first-band packet.

`ReceivedInv` is the client's half: while the receiver holds a connection there are a sequence of packets
and a number such that the sequence is what the server has sent (or, after the end of file, a
closed session), its first so many packets are what the statistics count (`CountsOf`) and the image shows (`ImageOf`), and
the others lie in order in the buffer and the socket (`Remaining`). Between the
statistics of a packet and its painting the statistics are one ahead. The sequence is quantified over instead of held in a history
variable, so nothing is added to the model; TLC checked the invariant with the sequence and the number as history
variables before it was proved. The step that relates the two halves is the end of file: from then on the sequence is no
longer `wire`, and `Closed` keeps what is known of it. That it stays current while the last
answer is "ok" and no reconnection is pending is `FreshKept`: a new command takes the place of the old answer before it can change the configuration.

Only model-checked: the liveness properties `Stops`, `DataClientServed`, `CommandTaken` and `ReconnectIsServed`, which are out of
the prover's reach. Every invariant, action property and refinement of the passing runs has a theorem.

## 5. Not modelled

* the sample values and the 8-bit encoding's copy of a 16-bit array: a property of them
  would restate the copy loop;
* the bytes of a packet other than the sync word, flags, length and the fields a reader
  depends on, and the CRC: `crc32.c` is a generated table and a loop of xor, of which a model
  would be a second copy, and no code in `src/emu` or the client validates it. (The client counts
  no CRC errors: `crc_errors` is shown and never written, although client/README.md:7
  names CRC validation.)
* the thumbnail serializer, which only tests call;
* the rate limiter's pauses, which only delay a send;
* the command line, which fills in the configuration: its values are the constants of
  `EmuServer`;
* the client's zoom, pan, rotation, drawing and quit key, and the scaling of samples to pixels; the `Escape`
  and cursor keys change nothing else than the mode and the band that Space toggles;
* GeoTIFF reading, scaling, cropping and padding in the converter;
* metadata with more than `XS_MAX_BANDS` bands and directions below minus the
  number of scenes: the code does not check them and its behaviour is undefined;
  the assumptions `DirOK` and `CommandsAssumption` exclude them;
* paths of 511 characters and more, whose last byte the scan leaves undefined;
* an acknowledgement whose connection is reset before it is sent;
* a converter that runs beside a server: `SceneStore` has the loader's calls and not the
  server's loop, whose directories are constants. `ServerRotten` has directories whose lines do not fit their metadata;
* a file that cannot be opened or read for a moment, in `SceneStore` (the server has it as the fault
  "files"): its loads fail only for what is on the disk, since `LastConversionLoads` is about that;
* several clients at once in `ClientServer`: `EmuServer` has any number, but not their
  screens.

## 6. Plan

Done: the server with its session, the builder, the abstract session, the client and its composition with
the server, the readers, the store, and the theorems of section 4. What could follow:

1. The server with directories that change, as a composition of `EmuServer` and the converter of
   `SceneStore`.
