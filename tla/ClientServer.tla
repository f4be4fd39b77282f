---------------------------- MODULE ClientServer ----------------------------
(***************************************************************************)
(* One client (client/src/main.rs) and the emulator server, joined by their   *)
(* two connections.  A step of the server also delivers what it sends; a step  *)
(* of the client that connects or writes also queues at the server's port.    *)
(***************************************************************************)
EXTENDS EmuServer, Client

CONSTANTS
    Window,          \* packets the sockets hold between the two: then send blocks
    MaxKeys          \* bound: the keys the user presses, those that do nothing aside

ASSUME ClientServerAssumption == Window \in Nat \ {0} /\ MaxKeys \in Nat

\* What the statistics can hold of a wavelength, and what the client asks for then.
Shown == {0} \cup {LoadedScene(dir).wavelengths[b] : dir \in Dirs, b \in BandSlots}
Asked == {w \in Shown : w > 0}
         \cup UNION {{MadeUp(b, n) : b \in 0 .. n - 1} : n \in 1 .. MaxBands}

\* The client is one of the server's control clients.
ASSUME ClientCommandsAssumption ==
    /\ \A direction \in SceneKeys : NextScene(direction) \in Commands
    /\ \A n \in 1 .. MaxBands : \A ws \in [1 .. n -> Asked] : Reconfig(ws) \in Commands

VARIABLE keys        \* pressed so far

allVars == <<vars, clientVars, keys>>

InitBoth == Init /\ ClientInit /\ keys = 0

(***************************************************************************)
(* What a step of the server does to the client's sockets.                    *)
(***************************************************************************)
Deliver ==
    IF Len(wire') > Len(wire)
    THEN Len(inbox) < Window /\ inbox' = Append(inbox, wire'[Len(wire')])
    ELSE inbox' = inbox

CloseData == eof' = (eof \/ (conn # "none" /\ conn' = "none"))

\* The connection the client waits on is the last one queued: it is done with
\* when the server leaves a command with none behind it, or exits.
Outcome == CASE reply' = <<AckOk>>     -> "ok"
             [] reply' = <<AckFailed>> -> "failed"
             [] OTHER                  -> "closed"

Respond ==
    answer' = IF /\ answer = "waiting"
                 /\ ctrlQ = <<>> /\ pc \in {"recv", "match"} /\ pc' = "acceptData"
              THEN Outcome
              ELSE IF answer = "waiting" /\ pc' = "exited" THEN "closed"
              ELSE answer

ServerStep ==
    /\ Server
    /\ Deliver /\ CloseData /\ Respond
    /\ UNCHANGED <<receiver, reconnect, ui, keys>>

(***************************************************************************)
(* The client's calls that reach the server.  A connection the server never    *)
(* accepts is reset when it exits.                                          *)
(***************************************************************************)
DialServer ==
    /\ Dial /\ Running /\ dataQ < Backlog
    /\ dataQ' = dataQ + 1
    /\ UNCHANGED <<arguments, locals, pc, rc, sessions_sent, ctrlQ,
                   control, timeouts, promised>>

DialNobody == DialFails /\ ~Running /\ UNCHANGED vars

ReadReset == ReadFails /\ ~Running /\ ~eof /\ UNCHANGED vars

SendToServer == SendCommand /\ Queued(outgoing)

SendToNobody ==
    /\ ConnectFails
    /\ ~Running \/ Len(ctrlQ) = Backlog
    /\ UNCHANGED vars

ReceiverStep ==
    /\ \/ DialServer \/ DialNobody \/ ReadReset
       \/ ReceiverAlone /\ UNCHANGED vars
    /\ UNCHANGED keys

UiStep ==
    /\ \/ SendToServer \/ SendToNobody
       \/ UiAlone /\ UNCHANGED vars
    /\ UNCHANGED keys

UserStep == Keys /\ UNCHANGED vars /\ keys < MaxKeys /\ keys' = keys + 1

NextBoth == ServerStep \/ ReceiverStep \/ UiStep \/ UserStep

\* The three threads are scheduled; the user presses keys or does not.  No recv of the
\* server waits on this client, which writes a command as soon as it has connected.
FairnessBoth ==
    WF_allVars(ServerStep) /\ WF_allVars(ReceiverStep) /\ WF_allVars(UiStep)

SpecBoth == InitBoth /\ [][NextBoth]_allVars /\ FairnessBoth

(***************************************************************************)
(* Properties.                                                              *)
(***************************************************************************)
StatsType == [status : Statuses, bands : Seq(Word), scene_height : 0 .. U24 - 1,
              line_data : Nat, current_line : Nat]
ImageType == [drawn : BOOLEAN, height : Nat, painted : SUBSET (Nat \X {"red", "green", "blue"})]

\* The client's variables have their types, and its threads never look for a packet
\* in an empty buffer, nor send what is no command (process_packets, main.rs:139).
ClientTypeOK ==
    /\ rpc \in ReceiverPCs /\ stats \in StatsType /\ scene_image \in ImageType
    /\ Len(stats.bands) <= MaxBands
    /\ reconnect \in BOOLEAN
    /\ rpc \in {"process", "paint"} <=> accum # <<>>
    /\ upc \in UiPCs /\ mode \in Modes
    /\ list \in Seq(Word) /\ Len(list) <= MaxBands
    /\ enabled \in [BandSlots -> BOOLEAN]
    /\ CommandOK(outgoing) /\ (upc \in {"send", "await"} <=> outgoing # Silent)
    /\ eof \in BOOLEAN /\ answer \in Answers

\* Nothing is under way between the two: the last command was answered "ok" before
\* the client stopped waiting, and no reconnection is pending.
Settled == /\ upc \in {"sync", "key"} /\ answer = "ok"
           /\ ~reconnect /\ rpc = "poll" /\ stats.status = "Complete"

\* However commands, the two seconds of waiting, the flag and sessions already under way
\* interleave, a client at rest after an acknowledged command shows the bands and
\* the height of the configuration the server then holds (main.rs:546, 701, 791).
ShownIsCurrent ==
    Settled => /\ stats.bands = [k \in 1 .. n_bands |-> band_wavelengths[k - 1]]
               /\ stats.scene_height = scene.n_lines

\* "Streaming complete" (main.rs:108) is shown for a session of which every line of
\* every band was counted since the last reset, and painted, whatever a read returned.
\* It takes scenes whose lines all load: one the server cuts short is complete as well.
CompleteIsWhole ==
    rpc = "poll" /\ stats.status = "Complete" =>
        /\ stats.line_data = stats.scene_height * Len(stats.bands)
        /\ stats.current_line = stats.scene_height
        /\ scene_image.height = stats.scene_height
        /\ \A l \in 0 .. stats.scene_height - 1 : <<l, "blue">> \in scene_image.painted

\* The flag set after a command leads to a new connection, whatever becomes of the one
\* that is open: the receiver always comes back to the poll (main.rs:546), it waits neither
\* on the server nor on the interface's thread for ever, and a flag is never lost.
ReconnectIsServed == reconnect ~> rpc = "reset"

\* client/README.md:13: "Scene/band controls blocked during streaming to prevent state
\* corruption": what the band selector asks for are bands of the scene it is open for.
RequestsNameSceneBands ==
    upc = "send" /\ outgoing.magic = "RCFG" =>
        \A k \in 1 .. outgoing.n_bands : \E b \in 0 .. scene.n_bands - 1 :
            outgoing.wavelengths[k] = scene.wavelengths[b]
=============================================================================
