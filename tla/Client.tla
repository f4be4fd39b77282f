------------------------------- MODULE Client -------------------------------
(***************************************************************************)
(* The terminal client (client/src/main.rs): a receiver thread and a user-     *)
(* interface thread that share three mutexes, around the session statistics,    *)
(* the preview image and the reconnect flag.  One action is one lock region, or  *)
(* one call that may block.  The packets a read returns are whole: framing is    *)
(* the subject of SessionReader.                                             *)
(***************************************************************************)
EXTENDS Control, FiniteSets

CONSTANTS
    MaxRead,         \* packets one read may return: its buffer has 64 KiB
    SceneKeys        \* the scene keys the user has: N is 1, P is -1

ASSUME ClientAssumption == MaxRead \in Nat \ {0} /\ SceneKeys \subseteq {1, -1}

VARIABLES
    rpc,             \* the statement the receiver thread is at
    stats,           \* SessionStats
    scene_image,     \* the preview: its height and what is painted in it
    reconnect,       \* the flag
    accum            \* packets read and not yet processed

VARIABLES
    upc,             \* the statement the user-interface thread is at
    mode,            \* AppMode
    list,            \* the first total_bands entries of App.band_wavelengths
    enabled,         \* band_enabled
    outgoing         \* the command a key handler is sending

VARIABLES
    inbox, eof,      \* the receiver's socket: packets not read yet, end of stream
    answer           \* the control connection: what the server did with it

receiver  == <<rpc, stats, scene_image, accum>>
ui        == <<upc, mode, list, enabled, outgoing>>
sockets   == <<inbox, eof, answer>>
clientVars == <<receiver, reconnect, ui, sockets>>

Statuses == {"", "Connecting", "Connected", "Streaming", "Complete", "Failed", "Error",
             "Reconnecting"}
ReceiverPCs == {"start", "dial", "dialled", "read", "process", "paint", "poll",
                "reset", "clear"}
UiPCs   == {"sync", "key", "send", "await", "after"}
Modes   == {"Normal", "BandSelect"}
Answers == {"none", "waiting", "ok", "failed", "closed", "late"}

\* bands stands for n_bands and the first n_bands entries of band_wavelengths.
NoStats == [status |-> "", bands |-> <<>>, scene_height |-> 0, line_data |-> 0,
            current_line |-> 0]

NoImage       == [drawn |-> FALSE, height |-> 0, painted |-> {}]
BlankImage(h) == [drawn |-> TRUE, height |-> h, painted |-> {}]

ClientInit ==
    /\ rpc = "start" /\ stats = NoStats /\ scene_image = NoImage /\ reconnect = FALSE
    /\ accum = <<>>
    /\ upc = "sync" /\ mode = "Normal" /\ list = <<>> /\ outgoing = Silent
    /\ enabled = [b \in BandSlots |-> TRUE]
    /\ inbox = <<>> /\ eof = FALSE /\ answer = "none"

(***************************************************************************)
(* receiver_thread                                                           *)
(***************************************************************************)
Status(s) == stats' = [stats EXCEPT !.status = s]

Starting ==
    /\ rpc = "start" /\ rpc' = "dial" /\ Status("Connecting")
    /\ UNCHANGED <<scene_image, accum, reconnect, ui, sockets>>

Dial ==
    /\ rpc = "dial" /\ rpc' = "dialled"
    /\ inbox' = <<>> /\ eof' = FALSE
    /\ UNCHANGED <<stats, scene_image, accum, reconnect, ui, answer>>

DialFails ==
    /\ rpc = "dial" /\ rpc' = "poll" /\ Status("Failed")
    /\ UNCHANGED <<scene_image, accum, reconnect, ui, sockets>>

Dialled ==
    /\ rpc = "dialled" /\ rpc' = "read" /\ Status("Connected")
    /\ UNCHANGED <<scene_image, accum, reconnect, ui, sockets>>

Read(k) ==
    /\ rpc = "read" /\ k <= Len(inbox)
    /\ rpc' = "process" /\ Status("Streaming")
    /\ accum' = SubSeq(inbox, 1, k)
    /\ inbox' = SubSeq(inbox, k + 1, Len(inbox))
    /\ UNCHANGED <<scene_image, reconnect, ui, eof, answer>>

ReadEnds ==
    /\ rpc = "read" /\ inbox = <<>> /\ eof
    /\ rpc' = "poll" /\ Status("Complete")
    /\ UNCHANGED <<scene_image, accum, reconnect, ui, sockets>>

\* Five seconds without a byte: WouldBlock, and the loop goes on.
ReadTimesOut ==
    /\ rpc = "read" /\ inbox = <<>> /\ ~eof
    /\ UNCHANGED clientVars

ReadFails ==
    /\ rpc = "read" /\ inbox = <<>>
    /\ rpc' = "poll" /\ Status("Error")
    /\ UNCHANGED <<scene_image, accum, reconnect, ui, sockets>>

(***************************************************************************)
(* process_packets: the statistics of one packet under their lock, then, for   *)
(* SCENE_START and LINE_DATA, the image under its own.                         *)
(***************************************************************************)
Painted(id) == id \in {"SCENE_START", "LINE_DATA"}

StatsAfter(p) ==
    CASE p.id = "IMAGER_CONFIG" -> [stats EXCEPT !.bands = p.wavelengths]
      [] p.id = "SCENE_START"   -> [stats EXCEPT !.scene_height = p.scene_height]
      [] p.id = "LINE_DATA"     ->
            [stats EXCEPT !.line_data = @ + 1,
                          !.current_line = IF p.spectral_band = 0 THEN p.line_number + 1
                                           ELSE @]
      [] p.id = "SESSION_END"   -> [stats EXCEPT !.status = "Complete"]
      [] OTHER                  -> stats

\* Mutant: the buffer is looked at before the packet is taken from it.
RestOrReadLate == IF accum = <<>> THEN "read" ELSE "process"
RestOrRead == IF Tail(accum) = <<>> THEN "read" ELSE "process"

NextPacket == accum' = Tail(accum) /\ rpc' = RestOrRead

Process ==
    /\ rpc = "process"
    /\ stats' = StatsAfter(Head(accum))
    /\ \/ Painted(Head(accum).id) /\ rpc' = "paint" /\ UNCHANGED accum
       \/ ~Painted(Head(accum).id) /\ NextPacket
    /\ UNCHANGED <<scene_image, reconnect, ui, sockets>>

\* update_image: the first, the middle and the last band, each in its channel.
Channel(b) ==
    LET n == Len(stats.bands) IN
    CASE n > 0 /\ b = 0                     -> {"blue"}
      [] n > 0 /\ b # 0 /\ b = n \div 2     -> {"green"}
      [] b # 0 /\ b # n \div 2 /\ b + 1 = n -> {"red"}
      [] OTHER                             -> {}

ImageAfter(p) ==
    CASE p.id = "SCENE_START" -> BlankImage(stats.scene_height)
      [] p.id = "LINE_DATA" /\ ~scene_image.drawn -> scene_image
      [] OTHER -> [scene_image EXCEPT !.painted =
              @ \cup {<<p.line_number, c>> : c \in Channel(p.spectral_band)}]

Paint ==
    /\ rpc = "paint"
    /\ scene_image' = ImageAfter(Head(accum))
    /\ NextPacket
    /\ UNCHANGED <<stats, reconnect, ui, sockets>>

(***************************************************************************)
(* The loop of the receiver's thread, between two sessions.                    *)
(***************************************************************************)
\* Mutant: only after a session that was received to its end.
TakeSignalIfComplete == reconnect /\ stats.status = "Complete" /\ reconnect' = FALSE
TakeSignal == reconnect /\ reconnect' = FALSE

Poll ==
    /\ rpc = "poll" /\ rpc' = "reset"
    /\ TakeSignal
    /\ UNCHANGED <<stats, scene_image, accum, ui, sockets>>

\* Mutant: the statistics of the last session are kept, but for the status.
StatsAtResetKept == [stats EXCEPT !.status = "Reconnecting"]
StatsAtReset == [NoStats EXCEPT !.status = "Reconnecting"]

Reset ==
    /\ rpc = "reset" /\ rpc' = "clear"
    /\ stats' = StatsAtReset
    /\ UNCHANGED <<scene_image, accum, reconnect, ui, sockets>>

Clear ==
    /\ rpc = "clear" /\ rpc' = "start"
    /\ scene_image' = NoImage
    /\ UNCHANGED <<stats, accum, reconnect, ui, sockets>>

(***************************************************************************)
(* The user interface: the band list is brought up to date, then a key is      *)
(* handled.  Zoom, pan and rotation change nothing else and are left out.      *)
(***************************************************************************)
\* Only when the interface has no list of its own.
Offered == list = <<>> /\ stats.bands # <<>> /\ stats.bands[1] > 0

SyncBands ==
    /\ upc = "sync" /\ upc' = "key"
    /\ \/ /\ Offered
          /\ list' = stats.bands
          /\ enabled' = [b \in BandSlots |-> b < Len(stats.bands) \/ enabled[b]]
       \/ /\ ~Offered
          /\ UNCHANGED <<list, enabled>>
    /\ UNCHANGED <<receiver, reconnect, mode, outgoing, sockets>>

IsStreaming == stats.status \in {"Streaming", "Connected", "Connecting"}

AtKey(m) == upc = "key" /\ mode = m

NoKey ==
    /\ upc = "key" /\ upc' = "sync"
    /\ UNCHANGED <<receiver, reconnect, mode, list, enabled, outgoing, sockets>>

PressScene(direction) ==
    /\ AtKey("Normal") /\ ~IsStreaming
    /\ outgoing' = NextScene(direction) /\ upc' = "send"
    /\ UNCHANGED <<receiver, reconnect, mode, list, enabled, sockets>>

PressBands ==
    /\ AtKey("Normal") /\ ~IsStreaming /\ list # <<>>
    /\ mode' = "BandSelect" /\ upc' = "sync"
    /\ UNCHANGED <<receiver, reconnect, list, enabled, outgoing, sockets>>

PressEsc ==
    /\ AtKey("BandSelect")
    /\ mode' = "Normal" /\ upc' = "sync"
    /\ UNCHANGED <<receiver, reconnect, list, enabled, outgoing, sockets>>

Listed == 0 .. Len(list) - 1

\* The cursor can be moved to any band of the list.
PressSpace ==
    /\ AtKey("BandSelect") /\ upc' = "sync"
    /\ \E b \in Listed : enabled' = [enabled EXCEPT ![b] = ~@]
    /\ UNCHANGED <<receiver, reconnect, mode, list, outgoing, sockets>>

PressAll ==
    /\ AtKey("BandSelect") /\ upc' = "sync"
    /\ enabled' = [b \in BandSlots |->
           IF b \in Listed THEN \E c \in Listed : ~enabled[c] ELSE enabled[b]]
    /\ UNCHANGED <<receiver, reconnect, mode, list, outgoing, sockets>>

\* send_bands: the enabled bands in order; a wavelength of 0 is made up.
Chosen == {b \in Listed : enabled[b]}
MadeUp(b, n) == 445 + (b * 880) \div n
Requested(b) ==
    IF list[b + 1] > 0 THEN list[b + 1] ELSE MadeUp(b, Len(list))
Request ==
    [k \in 1 .. Cardinality(Chosen) |->
        Requested(CHOOSE b \in Chosen : Cardinality({c \in Chosen : c < b}) = k - 1)]

PressEnter ==
    /\ AtKey("BandSelect")
    /\ \/ Chosen # {} /\ outgoing' = Reconfig(Request) /\ upc' = "send"
       \/ Chosen = {} /\ upc' = "after" /\ UNCHANGED outgoing
    /\ UNCHANGED <<receiver, reconnect, mode, list, enabled, sockets>>

(***************************************************************************)
(* send_bands and send_next_scene: connect, write, wait two seconds for the    *)
(* acknowledgement, and ignore it.                                           *)
(***************************************************************************)
SendCommand ==
    /\ upc = "send" /\ upc' = "await"
    /\ answer' = "waiting"
    /\ UNCHANGED <<receiver, reconnect, mode, list, enabled, outgoing, inbox, eof>>

ConnectFails ==
    /\ upc = "send" /\ upc' = "after"
    /\ answer' = "closed" /\ outgoing' = Silent
    /\ UNCHANGED <<receiver, reconnect, mode, list, enabled, inbox, eof>>

AckEnds ==
    /\ upc = "await" /\ answer # "waiting"
    /\ upc' = "after" /\ outgoing' = Silent
    /\ UNCHANGED <<receiver, reconnect, mode, list, enabled, sockets>>

AckTimesOut ==
    /\ upc = "await" /\ answer = "waiting"
    /\ upc' = "after" /\ outgoing' = Silent
    /\ answer' = "late"
    /\ UNCHANGED <<receiver, reconnect, mode, list, enabled, inbox, eof>>

\* Mutant: a session that is being received is not followed by another.
SignalUnlessStreaming == reconnect \/ ~IsStreaming
Signal == TRUE

\* After a scene switch reset_view forgets the list; after Enter the selector closes.
AfterCommand ==
    /\ upc = "after" /\ upc' = "sync"
    /\ reconnect' = Signal
    /\ list' = IF mode = "Normal" THEN <<>> ELSE list
    /\ mode' = "Normal"
    /\ UNCHANGED <<receiver, enabled, outgoing, sockets>>

(***************************************************************************)
(* The actions that need no server, by thread.                                *)
(***************************************************************************)
ReceiverAlone ==
    \/ Starting \/ Dialled \/ (\E k \in 1 .. MaxRead : Read(k)) \/ ReadEnds
    \/ ReadTimesOut \/ Process \/ Paint \/ Poll \/ Reset \/ Clear

UiAlone == SyncBands \/ NoKey \/ AckEnds \/ AckTimesOut \/ AfterCommand

Keys ==
    \/ (\E direction \in SceneKeys : PressScene(direction)) \/ PressBands
    \/ PressEsc \/ PressSpace \/ PressAll \/ PressEnter
=============================================================================
