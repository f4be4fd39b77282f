---------------------------- MODULE SessionReader ----------------------------
(***************************************************************************)
(* The two readers of a session's bytes: the library's parser                 *)
(* (src/packets/pkt_parser.c), in the loop every test reads streams with, and   *)
(* the client's framing (process_packets in client/src/main.rs), which sees      *)
(* only as many bytes as have arrived.  They read the buffer xs_build_session    *)
(* fills; of a header's bytes, the sync word, the flags and the length count.    *)
(***************************************************************************)
EXTENDS SessionBuilder

CONSTANTS
    ReadSizes,       \* bytes a read of the client returns, when as many are left
    Leads            \* bytes before the session, with no sync word among them

ASSUME ReaderAssumption == ReadSizes \subseteq Nat \ {0} /\ Leads \subseteq Nat

VARIABLES
    offsets,         \* history: where each packet was written
    lead,            \* bytes of the stream before it
    reader,          \* which of the two reads the stream
    rstage,          \* waiting for bytes, going through them, or done
    arrived,         \* end of the bytes it has
    at,              \* where it is in them
    found            \* offsets of the packets it took

position   == <<at, found>>
source     == <<lead, reader>>
readerVars == <<offsets, source, rstage, arrived, position>>

SyncWord == 21331    \* 0x5353

\* xs_make_flags: the upper half of the byte is the complement of the lower.
\* Mutant: the complement is left in the lower half.
Lower(crc_en, enc_en) == (IF crc_en THEN 1 ELSE 0) + (IF enc_en THEN 2 ELSE 0)
MakeFlagsUnshifted(crc_en, enc_en) == 15 - Lower(crc_en, enc_en)
MakeFlags(crc_en, enc_en) ==
    16 * (15 - Lower(crc_en, enc_en)) + Lower(crc_en, enc_en)
FlagsValid(flags) == flags \div 16 = 15 - (flags % 16)
CrcEnabled(flags) == flags % 2 = 1

EncodeU24(val) == <<val % U8, (val \div U8) % U8, (val \div U16) % U8>>
DecodeU24(src) == src[1] + src[2] * U8 + src[3] * U16

PayloadOf(p) ==
    CASE p.id = "SESSION_START"    -> SessionStartPayload
      [] p.id = "IMAGER_INFO"      -> ImagerInfoPayload
      [] p.id = "IMAGER_CONFIG"    -> ImagerConfigPayload(cfg.n_bands)
      [] p.id = "TIME_SYNC"        -> TimeSyncPayload
      [] p.id = "SCENE_START"      -> SceneStartPayload
      [] p.id = "IMAGER_TELEMETRY" -> TelemetryPayload
      [] p.id = "EXPOSURE_START"   -> ExposureStartPayload
      [] p.id = "LINE_DATA"        -> LineDataPayload(PixelBytes(cfg))
      [] p.id = "SESSION_END"      -> SessionEndPayload

\* finalize_packet
Header(p) == [sync |-> SyncWord, flags |-> MakeFlags(TRUE, FALSE),
              length |-> EncodeU24(PayloadOf(p))]

\* The eight bytes at an offset: a header where a packet was written.  Elsewhere in
\* the session pixels, times and sums can be anything, a header's look-alike too.
NoHeader  == [sync |-> 0, flags |-> 0, length |-> EncodeU24(0)]
LookAlike == [Header(SessionEnd(0)) EXCEPT !.length = EncodeU24(0)]

WrittenAt(offset) == {k \in DOMAIN out : lead + offsets[k] = offset}

HeadersAt(offset) ==
    CASE WrittenAt(offset) # {} -> {Header(out[k]) : k \in WrittenAt(offset)}
      [] offset < lead          -> {NoHeader}
      [] OTHER                  -> {NoHeader, LookAlike}

\* Mutant: the CRC behind the payload is not counted.
TotalLenNoFooter(h) == HeaderSize + DecodeU24(h.length)
TotalLen(h) ==
    HeaderSize + DecodeU24(h.length) + (IF CrcEnabled(h.flags) THEN FooterSize ELSE 0)

ReaderInit ==
    /\ lead \in Leads /\ reader \in {"parser", "client"}
    /\ offsets = <<>> /\ rstage = "read" /\ arrived = 0 /\ at = 0 /\ found = <<>>

Build ==
    /\ Next
    /\ offsets' = IF out' = out THEN offsets ELSE Append(offsets, pos)
    /\ UNCHANGED <<source, rstage, arrived, position>>

SkipByte == at' = at + 1 /\ UNCHANGED found
Take(h)  == at' = at + TotalLen(h) /\ found' = Append(found, at)

(***************************************************************************)
(* The loop of count_packets: xs_find_sync, then xs_parse_header.             *)
(***************************************************************************)
GivenBuffer ==
    /\ reader = "parser" /\ rstage = "read" /\ Result > 0
    /\ arrived' = lead + Result /\ rstage' = "process"
    /\ UNCHANGED <<source, position>>

Parsing == reader = "parser" /\ rstage = "process"

FindSync(h) ==
    /\ Parsing /\ arrived - at >= 2 /\ h.sync # SyncWord
    /\ SkipByte
    /\ UNCHANGED <<source, rstage, arrived>>

Parses(h, buf_len) == buf_len >= HeaderSize /\ h.sync = SyncWord /\ FlagsValid(h.flags)

CountPacket(h) ==
    /\ Parsing /\ Parses(h, arrived - at) /\ at + TotalLen(h) <= arrived
    /\ Take(h)
    /\ UNCHANGED <<source, rstage, arrived>>

StopParsing(h) ==
    /\ Parsing
    /\ \/ arrived - at < 2
       \/ h.sync = SyncWord
          /\ ~(Parses(h, arrived - at) /\ at + TotalLen(h) <= arrived)
    /\ rstage' = "ended"
    /\ UNCHANGED <<source, arrived, position>>

(***************************************************************************)
(* process_packets, after each read: what it leaves in the buffer starts at    *)
(* the place it has come to.                                                 *)
(***************************************************************************)
ClientReads(n) ==
    /\ reader = "client" /\ rstage = "read" /\ Result > 0 /\ arrived < lead + Result
    /\ arrived' = IF arrived + n > lead + Result THEN lead + Result ELSE arrived + n
    /\ rstage' = "process"
    /\ UNCHANGED <<source, position>>

Processing == reader = "client" /\ rstage = "process"

HeaderArrived == at + HeaderSize <= arrived

ClientSkips(h) ==
    /\ Processing /\ HeaderArrived /\ h.sync # SyncWord
    /\ SkipByte
    /\ UNCHANGED <<source, rstage, arrived>>

ClientTakes(h) ==
    /\ Processing /\ HeaderArrived /\ h.sync = SyncWord /\ at + TotalLen(h) <= arrived
    /\ Take(h)
    /\ UNCHANGED <<source, rstage, arrived>>

ClientWaits(h) ==
    /\ Processing
    /\ \/ ~HeaderArrived
       \/ h.sync = SyncWord /\ at + TotalLen(h) > arrived
    /\ rstage' = "read"
    /\ UNCHANGED <<source, arrived, position>>

ReadStep ==
    /\ \/ GivenBuffer
       \/ \E n \in ReadSizes : ClientReads(n)
       \/ \E h \in HeadersAt(at) :
             \/ FindSync(h) \/ CountPacket(h) \/ StopParsing(h)
             \/ ClientSkips(h) \/ ClientTakes(h) \/ ClientWaits(h)
    /\ UNCHANGED <<vars, offsets>>

ReadingInit == Init /\ ReaderInit
ReadingNext == Build \/ ReadStep
ReadingSpec == ReadingInit /\ [][ReadingNext]_<<vars, readerVars>>

(***************************************************************************)
(* What they find.                                                          *)
(***************************************************************************)
EndOf(k) == lead + offsets[k] + PacketSize(PayloadOf(out[k]))

\* What the builder writes, both readers find: packets where they were written and
\* nowhere else, each once and in order; the parser all of them before it stops, and
\* the client, after every read, all that have arrived whole and none of the next,
\* wherever reads cut the stream and whatever precedes it (test_session.c:59,
\* test_parser.c:30, main.rs:137).
ReadersFollowBuffer ==
    /\ Len(found) <= Len(out)
    /\ \A k \in DOMAIN found : found[k] = lead + offsets[k] /\ EndOf(k) <= arrived
    /\ rstage = "ended" => Len(found) = Len(out)
    /\ rstage = "read" => \A k \in DOMAIN out : EndOf(k) <= arrived => k <= Len(found)

\* The packets a reader hands on: what was written where it took one.
Garbage == [id |-> "GARBAGE"]
PacketAt(offset) ==
    IF WrittenAt(offset) = {} THEN Garbage
    ELSE out[CHOOSE k \in DOMAIN out : lead + offsets[k] = offset]
Delivered == [k \in DOMAIN found |-> PacketAt(found[k])]

\* From the first byte to the last, what has been handed on is the beginning of a
\* session, and every packet a reader takes is one the order of README.md:73 allows
\* next: an application that decodes them one by one never meets line data without
\* its configuration, or a line out of its place.
Read == INSTANCE IcdSession WITH packets <- Delivered, Interval <- TelemetryInterval
DeliveryFollowsIcd == Read!Spec
=============================================================================
