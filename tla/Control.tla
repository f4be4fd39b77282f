------------------------------ MODULE Control ------------------------------
(***************************************************************************)
(* The control protocol (src/emu/control.c).  A command is what a control    *)
(* client writes on its connection: the magic in its first four bytes, its   *)
(* length in bytes, and what the bytes from offset 4 on mean under that       *)
(* magic.  TCP hands the server's one recv any non-empty prefix of it.        *)
(***************************************************************************)
EXTENDS Packets

\* xs_serialize_reconfig and xs_serialize_next_scene.
Reconfig(wavelengths) ==
    [magic |-> "RCFG", len |-> 5 + 2 * Len(wavelengths),
     n_bands |-> Len(wavelengths), wavelengths |-> wavelengths, direction |-> 0]
NextScene(direction) ==
    [magic |-> "NSCN", len |-> 5, n_bands |-> 0, wavelengths |-> <<>>,
     direction |-> direction]

\* Bytes that are no command, and a connection on which nothing is ever sent.
Unknown == [magic |-> "none", len |-> 5, n_bands |-> 0, wavelengths |-> <<>>,
            direction |-> 0]
Silent  == [Unknown EXCEPT !.len = 0]

CommandType == [magic : {"RCFG", "NSCN", "none"}, len : Nat, n_bands : Nat,
                wavelengths : Seq(Nat), direction : Int]

\* n_bands is the byte that announces the wavelengths that follow it.
CommandOK(c) ==
    /\ c \in CommandType
    /\ c.n_bands <= Len(c.wavelengths)

\* The buffer the server holds after a recv that returned k bytes of c.
Prefix(c, k) == [c EXCEPT !.len = k]

ParsesReconfig(c) ==
    /\ c.len >= 5
    /\ c.magic = "RCFG"
    /\ c.n_bands <= MaxBands
    /\ c.len >= 5 + c.n_bands * 2

ParsesNextScene(c) == c.len >= 5 /\ c.magic = "NSCN"

\* The status byte of xs_serialize_ack.
AckOk     == 0
AckFailed == 1
=============================================================================
