----------------------------- MODULE EmuServer -----------------------------
(***************************************************************************)
(* The emulator server (xs_emu_run of src/emu/emu_server.c): a single thread  *)
(* that alternates between the data port, on which it streams one session per *)
(* connection, and the control port, on which it takes at most one command    *)
(* between two sessions.  The clients on both ports, the kernel's queues of    *)
(* connections not yet accepted and the scene directories are its            *)
(* environment.                                                             *)
(***************************************************************************)
EXTENDS StreamSession, Control

CONSTANTS
    Commands,          \* what control clients write
    Backlog,           \* connections the kernel queues on a listening socket
    MaxSessions,       \* max_sessions of the configuration, 0 for no limit
    SessionIds         \* 2^32: session_id is a uint32_t

ASSUME CommandsAssumption ==
    \A c \in Commands : CommandOK(c) /\ c.direction >= -Len(Scenes)
ASSUME ServerAssumption ==
    /\ Backlog \in Nat \ {0}
    /\ MaxSessions \in Nat
    /\ SessionIds \in Nat \ {0, 1}

VARIABLES
    pc,                \* the blocking call or loop xs_emu_run is in
    rc,                \* its return value
    sessions_sent,
    dataQ,             \* data connections the kernel holds, not yet accepted
    ctrlQ,             \* control connections likewise, as what they will send
    accept_timeout,    \* whether SO_RCVTIMEO has been set on ctrl_listen
    untimed,           \* control connections set up before that and not yet closed
    cmd,               \* cmd_buf
    i, matched,        \* counters of match_bands_to_indices
    reply,             \* the status bytes sent on the last control connection
    promised           \* what the last command answered "ok" asked to be streamed

control    == <<cmd, i, matched, reply>>
timeouts   == <<accept_timeout, untimed>>
vars       == <<arguments, locals, pc, rc, sessions_sent, dataQ, ctrlQ, control,
                timeouts, promised>>
bandConfig == <<n_bands, band_indices, band_wavelengths, source_n_bands>>

PCs == {"boot", "acceptData", "stream", "acceptCtrl", "recv", "match", "exited",
        "killed"}

\* promised is a history variable: the wavelengths a client may expect, one per
\* band of the next session.  The code keeps no such list.
SceneWavelengths(s) == [k \in 1 .. s.n_bands |-> s.wavelengths[k - 1]]

Init ==
    /\ pc = "boot" /\ rc = 0 /\ sessions_sent = 0
    /\ current = 0 /\ scene = BlankScene /\ session_id = 1
    /\ n_bands = 1 /\ source_n_bands = 0
    /\ band_indices = [b \in BandSlots |-> 0]
    /\ band_wavelengths = [b \in BandSlots |-> 0]
    /\ stage = "idle" /\ line = 0 /\ band = 0 /\ timestamp = 0
    /\ last_telemetry = 0 /\ conn = "none" /\ wire = <<>>
    /\ dataQ = 0 /\ ctrlQ = <<>> /\ accept_timeout = FALSE /\ untimed = 0
    /\ cmd = Silent /\ i = 0 /\ matched = 0 /\ reply = <<>> /\ promised = <<>>

(***************************************************************************)
(* Start-up and the data port.                                               *)
(***************************************************************************)
(* reset_band_config: the scene's own bands, in order.  The entries past the      *)
(* scene's last band keep what they held.  The mutant forgets source_n_bands.     *)
ResetBandsKeepsSource(s) ==
    /\ n_bands' = s.n_bands
    /\ source_n_bands' = source_n_bands
    /\ band_wavelengths' = [b \in BandSlots |->
           IF b < s.n_bands THEN s.wavelengths[b] ELSE band_wavelengths[b]]
    /\ band_indices' = [b \in BandSlots |->
           IF b < s.n_bands THEN b ELSE band_indices[b]]
ResetBands(s) ==
    /\ n_bands' = s.n_bands
    /\ source_n_bands' = 0
    /\ band_wavelengths' = [b \in BandSlots |->
           IF b < s.n_bands THEN s.wavelengths[b] ELSE band_wavelengths[b]]
    /\ band_indices' = [b \in BandSlots |->
           IF b < s.n_bands THEN b ELSE band_indices[b]]

Boot ==
    /\ pc = "boot" /\ LoadSucceeds(SceneDir)
    /\ scene' = LoadedScene(SceneDir)
    /\ ResetBands(scene')
    /\ promised' = SceneWavelengths(scene')
    /\ pc' = "acceptData"
    /\ UNCHANGED <<current, session_id, locals, rc, sessions_sent, dataQ, ctrlQ, control,
                   timeouts>>

\* No usable metadata, or no listening socket.
BootFails ==
    /\ pc = "boot"
    /\ ~LoadSucceeds(SceneDir) \/ Faults \cap {"files", "listen"} # {}
    /\ pc' = "exited" /\ rc' = -1
    /\ UNCHANGED <<arguments, locals, sessions_sent, dataQ, ctrlQ,
                   control, timeouts, promised>>

AcceptData ==
    /\ pc = "acceptData" /\ dataQ > 0
    /\ dataQ' = dataQ - 1
    /\ pc' = "stream"
    /\ Begin
    /\ UNCHANGED <<arguments, rc, sessions_sent, ctrlQ,
                   control, timeouts, promised>>

AcceptDataFails ==
    /\ pc = "acceptData" /\ "accept" \in Faults
    /\ pc' = "exited"
    /\ UNCHANGED <<arguments, locals, rc, sessions_sent, dataQ, ctrlQ,
                   control, timeouts, promised>>

Stream ==
    /\ pc = "stream"
    /\ StreamStep
    /\ UNCHANGED <<pc, rc, sessions_sent, dataQ, ctrlQ,
                   control, timeouts, promised>>

\* A send to a connection that was reset raises SIGPIPE, which ends the process.
BrokenPipe ==
    /\ pc = "stream" /\ conn = "gone" /\ stage \in SendStages
    /\ stage = "LINE_DATA" => LineFits
    /\ pc' = "killed"
    /\ UNCHANGED <<arguments, locals, rc, sessions_sent, dataQ, ctrlQ,
                   control, timeouts, promised>>

(* close(data_fd) and the bookkeeping after it, the same for a session that     *)
(* completed and one that ended early.  sessions_sent is only read under a limit. *)
\* Mutants: only complete sessions are numbered, or counted; the limit is checked
\* one session late; a waiting data client goes before any command.
NextSessionIdIfDone == IF stage = "done" THEN (session_id + 1) % SessionIds ELSE session_id
NextSessionId == (session_id + 1) % SessionIds

NextCountIfDone == IF stage = "done" THEN sessions_sent + 1 ELSE sessions_sent
NextCount == IF MaxSessions > 0 THEN sessions_sent + 1 ELSE 0

LimitReachedLate(sent) == MaxSessions > 0 /\ sent > MaxSessions
LimitReached(sent) == MaxSessions > 0 /\ sent >= MaxSessions

AfterSessionDataFirst == IF dataQ > 0 THEN "acceptData" ELSE "acceptCtrl"
AfterSession == IF LimitReached(NextCount) THEN "exited" ELSE "acceptCtrl"

CloseSession ==
    /\ pc = "stream" /\ stage \in {"done", "failed"}
    /\ Return
    /\ session_id' = NextSessionId
    /\ sessions_sent' = NextCount
    /\ pc' = AfterSession
    /\ accept_timeout' = (accept_timeout \/ AfterSession = "acceptCtrl")
    /\ UNCHANGED <<current, scene, bandConfig, rc, dataQ, ctrlQ,
                   control, untimed, promised>>

(***************************************************************************)
(* The control port: one connection, one recv, at most one reply.            *)
(***************************************************************************)
AcceptControl ==
    /\ pc = "acceptCtrl" /\ ctrlQ # <<>>
    /\ cmd' = Head(ctrlQ) /\ ctrlQ' = Tail(ctrlQ)
    /\ reply' = <<>>
    /\ pc' = "recv"
    /\ UNCHANGED <<arguments, locals, rc, sessions_sent, dataQ, i, matched, timeouts,
                   promised>>

\* The 60 s timeout, or an error of accept: back to the data port.
AcceptControlFails ==
    /\ pc = "acceptCtrl"
    /\ ctrlQ = <<>> \/ "accept" \in Faults
    /\ pc' = "acceptData"
    /\ UNCHANGED <<arguments, locals, rc, sessions_sent, dataQ, ctrlQ,
                   control, timeouts, promised>>

\* The connection is closed, with or without a reply on it, and what was read
\* from it is gone.
CloseControl == /\ cmd' = Silent /\ i' = 0 /\ matched' = 0
                /\ untimed' = IF untimed > 0 THEN untimed - 1 ELSE 0
                /\ pc' = "acceptData"
                /\ UNCHANGED accept_timeout

Answer(status) == reply' = <<status>> /\ CloseControl

(* Whether the recv returns whatever the client does.  Linux copies SO_RCVTIMEO    *)
(* from the listening socket when a connection is set up, and connections are     *)
(* accepted in that order: while one set up before the option was is not closed,   *)
(* the oldest is.  The mutant has the timeout on accept alone.                    *)
RecvEndsByDataOnly == cmd.len > 0
RecvEnds == cmd.len > 0 \/ untimed = 0

\* recv leaves fewer than 4 bytes: the client closed or reset the connection, the
\* receive timeout ran out, or TCP delivered less.  No reply is sent.
ReceiveTooLittle ==
    /\ pc = "recv"
    /\ CloseControl
    /\ UNCHANGED <<arguments, locals, rc, sessions_sent, dataQ, ctrlQ, reply, promised>>

ReceiveReconfig(k) ==
    /\ pc = "recv" /\ k >= 4
    /\ ParsesReconfig(Prefix(cmd, k))
    /\ cmd' = Prefix(cmd, k) /\ i' = 0 /\ matched' = 0
    /\ pc' = "match"
    /\ UNCHANGED <<arguments, locals, rc, sessions_sent, dataQ, ctrlQ, reply, timeouts,
                   promised>>

(* The list advances before the metadata is read: on a failure the server keeps  *)
(* the new directory and whatever the load left in scene.  The mutant reads the   *)
(* metadata first.                                                             *)
SwitchedDirStale(direction) == Scenes[current + 1]
SwitchedDir(direction) == Scenes[Advanced(current, direction, Len(Scenes)) + 1]

ReceiveNextScene(k) ==
    /\ pc = "recv" /\ k >= 4
    /\ ParsesNextScene(Prefix(cmd, k))
    /\ current' = Advanced(current, cmd.direction, Len(Scenes))
    /\ LET dir == SwitchedDir(cmd.direction) IN
       \/ /\ LoadSucceeds(dir)
          /\ scene' = LoadedScene(dir)
          /\ ResetBands(scene')
          /\ promised' = SceneWavelengths(scene')
          /\ Answer(AckOk)
       \/ /\ \/ ~LoadSucceeds(dir) /\ scene' = SceneAfterLoad(dir, scene)
             \/ "files" \in Faults /\ UNCHANGED scene
          /\ UNCHANGED <<bandConfig, promised>>
          /\ Answer(AckFailed)
    /\ UNCHANGED <<session_id, locals, rc, sessions_sent, dataQ, ctrlQ>>

ReceiveUnknown(k) ==
    /\ pc = "recv" /\ k >= 4
    /\ ~ParsesReconfig(Prefix(cmd, k)) /\ ~ParsesNextScene(Prefix(cmd, k))
    /\ Answer(AckFailed)
    /\ UNCHANGED <<arguments, locals, rc, sessions_sent, dataQ, ctrlQ, promised>>

Receive == \E k \in 1 .. cmd.len :
               ReceiveReconfig(k) \/ ReceiveNextScene(k) \/ ReceiveUnknown(k)

(***************************************************************************)
(* match_bands_to_indices, one requested wavelength per step, writing the     *)
(* band_indices the sessions use.                                            *)
(***************************************************************************)
Tolerance == 5
Distance(a, b) == IF a >= b THEN a - b ELSE b - a

\* The first of the scene's bands nearest to wl, if it is near enough.
Nearest(s, wl) ==
    {j \in 0 .. s.n_bands - 1 :
        /\ Distance(wl, s.wavelengths[j]) <= Tolerance
        /\ \A m \in 0 .. s.n_bands - 1 :
              /\ Distance(wl, s.wavelengths[j]) <= Distance(wl, s.wavelengths[m])
              /\ m < j => Distance(wl, s.wavelengths[j]) # Distance(wl, s.wavelengths[m])}

Matching == i < cmd.n_bands /\ matched < MaxBands

MatchBand ==
    /\ pc = "match" /\ Matching
    /\ \/ \E j \in Nearest(scene, cmd.wavelengths[i + 1]) :
             /\ band_indices' = [band_indices EXCEPT ![matched] = j]
             /\ matched' = matched + 1
       \/ /\ Nearest(scene, cmd.wavelengths[i + 1]) = {}
          /\ UNCHANGED <<band_indices, matched>>
    /\ i' = i + 1
    /\ UNCHANGED <<current, scene, n_bands, band_wavelengths, source_n_bands, session_id,
                   locals, pc, rc, sessions_sent, dataQ, ctrlQ, cmd, reply, timeouts,
                   promised>>

\* Mutants: the check that something matched is missing; the scene's first
\* wavelengths are announced instead of those of the selected bands.
ReconfiguredAlways == TRUE
Reconfigured == matched > 0

MatchedWavelengthInOrder(b) == scene.wavelengths[b]
MatchedWavelength(b) == scene.wavelengths[band_indices[b]]

\* The configuration changes only if something matched; the answer is "ok" anyway.
FinishReconfig ==
    /\ pc = "match" /\ ~Matching
    /\ \/ /\ Reconfigured
          /\ n_bands' = matched
          /\ source_n_bands' = scene.n_bands
          /\ band_wavelengths' = [b \in BandSlots |->
                 IF b < matched THEN MatchedWavelength(b) ELSE band_wavelengths[b]]
       \/ /\ ~Reconfigured
          /\ UNCHANGED <<n_bands, source_n_bands, band_wavelengths>>
    /\ promised' = [k \in 1 .. cmd.n_bands |-> cmd.wavelengths[k]]
    /\ Answer(AckOk)
    /\ UNCHANGED <<current, scene, band_indices, session_id, locals, rc, sessions_sent,
                   dataQ, ctrlQ>>

(***************************************************************************)
(* The clients.                                                             *)
(***************************************************************************)
Running == pc \notin {"boot", "exited", "killed"}

DataConnect ==
    /\ Running /\ dataQ < Backlog
    /\ dataQ' = dataQ + 1
    /\ UNCHANGED <<arguments, locals, pc, rc, sessions_sent, ctrlQ,
                   control, timeouts, promised>>

Queued(c) ==
    /\ Running /\ Len(ctrlQ) < Backlog
    /\ ctrlQ' = Append(ctrlQ, c)
    /\ untimed' = IF accept_timeout THEN untimed ELSE untimed + 1
    /\ UNCHANGED <<arguments, locals, pc, rc, sessions_sent, dataQ, control,
                   accept_timeout, promised>>

ControlConnect == \E c \in Commands : Queued(c)

DataHangup ==
    /\ pc = "stream" /\ Hangup
    /\ UNCHANGED <<arguments, pc, rc, sessions_sent, dataQ, ctrlQ,
                   control, timeouts, promised>>

Ended == pc \in {"exited", "killed"} /\ UNCHANGED vars

Server ==
    \/ Boot \/ BootFails \/ AcceptData \/ AcceptDataFails \/ Stream \/ BrokenPipe
    \/ CloseSession \/ AcceptControl \/ AcceptControlFails \/ ReceiveTooLittle
    \/ Receive \/ MatchBand \/ FinishReconfig

Clients == DataConnect \/ ControlConnect \/ DataHangup

Next == Server \/ Clients \/ Ended

\* The process is scheduled, data clients read what they are sent, and timeouts run
\* out where there is one.  Nothing is assumed of who connects, or when, nor that a
\* client that connected too early for a timeout ever writes or closes.
Fairness == WF_vars(Server /\ (pc = "recv" => RecvEnds))

Spec == Init /\ [][Next]_vars /\ Fairness

\* In addition, data clients keep coming back.
ReturningClients == WF_vars(DataConnect)
FairSpec == Spec /\ ReturningClients
=============================================================================
