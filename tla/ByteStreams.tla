---------------------------- MODULE ByteStreams ----------------------------
(***************************************************************************)
(* Streams of bytes on a device of sectors: io::Write of ZoneHandle and    *)
(* io::Read/Write of ZonedDeviceCursor, below the client of                *)
(* examples/zone_store.rs, which keeps one file per zone: a header with    *)
(* the length, the content, and padding, written through a BufWriter; and  *)
(* zone_store_async.rs, which passes all of it to write_all_sequential.    *)
(*                                                                         *)
(* A step is one write, read or fsync call.  Commands run one at a time;   *)
(* the machine may stop after any step.  The device is opened buffered, as *)
(* zone_store does, so that the kernel takes a write of any length, none   *)
(* of it when the call fails, and what is not flushed may be lost, the     *)
(* later bytes first: a sequential zone is written back in order.          *)
(* BufWriter is the standard library's.                                    *)
(***************************************************************************)
EXTENDS SectorUnits, Sequences

CONSTANTS
    Align,          \* WRITE_ALIGN
    BufSize,        \* the capacity given to the BufWriter
    Header,         \* HEADER_SIZE
    ZoneBytes,      \* capacity and length of the zone
    Files,          \* files to store
    SizeOf,         \* their sizes
    OversizeFiles   \* bound: also files that the BufWriter cannot hold, by a handle

NoFile == "NoFile"

ASSUME ByteAssumption ==
    /\ ZoneBytes + Align <= MaxU
    /\ {Align, BufSize, Header, ZoneBytes} \subseteq Nat \ {0}
    /\ Header < SectorSize
    /\ Align % SectorSize = 0 /\ BufSize % Align = 0 /\ ZoneBytes % Align = 0
    /\ SizeOf \in [Files -> Nat] /\ NoFile \notin Files
    /\ OversizeFiles \in BOOLEAN

VARIABLES
    zone,       \* the bytes of the zone
    durable,    \* how many of them a loss of power cannot take
    via,        \* the writer or reader
    pos,        \* the handle's write pointer or the cursor's position
    phase,      \* what runs
    file,       \* the file being written
    todo,       \* the write_all calls on the BufWriter still to make
    buf,        \* the BufWriter's buffer
    direct,     \* the BufWriter passes Head(todo) on without copying it
    size,       \* cmd_read: the length found in the header
    got,        \* cmd_read: the bytes read
    ragged,     \* history: a read of cmd_read ended inside a sector, or in the header
    outcome,    \* of the last command
    stored,     \* history: the file of the last write that returned Ok
    flushed     \* history: that write ended with fsync

writer == <<file, todo, buf, direct>>
reader == <<size, got, ragged>>
vars == <<zone, durable, via, pos, phase, writer, reader, outcome, stored, flushed>>

history == <<stored, flushed>>

\* A handle or a cursor below a BufWriter; write_all_sequential or write_all_at.
\* The loops of zone_store and of a reader of a cursor, and zone_store_async.
Writers == {"handle", "cursor", "write_all"}
Readers == {"read_at", "cursor", "read_once"}

Zero == <<NoFile, 0>>
Offsets == 0 .. ZoneBytes - 1
Blank == [i \in Offsets |-> Zero]

\* What is in a zone that zone_store has not written yet.
Foreign == <<NoFile, 1>>
OtherData == [i \in Offsets |-> Foreign]

\* Byte k of a stored file; the first Header bytes are its length.
Cells == {Zero, Foreign} \cup {<<f, k>> : f \in Files, k \in 1 .. ZoneBytes}
Bytes(f, first, last) == [k \in 1 .. last - first + 1 |-> <<f, first + k - 1>>]
HeaderOf(f) == Bytes(f, 1, Header)
Content(f) == Bytes(f, Header + 1, Header + SizeOf[f])
RoundUp(n) == ((n + Align - 1) \div Align) * Align
Padding(f) ==
    [k \in 1 .. RoundUp(Header + SizeOf[f]) - (Header + SizeOf[f]) |-> Zero]

StreamInit ==
    /\ zone \in {Blank, OtherData} /\ durable = ZoneBytes
    /\ via = "handle" /\ pos = 0
    /\ phase = "Idle" /\ file = NoFile
    /\ todo = <<>> /\ buf = <<>> /\ direct = FALSE
    /\ size = 0 /\ got = <<>> /\ ragged = FALSE
    /\ outcome = "None" /\ stored = NoFile /\ flushed = TRUE

-----------------------------------------------------------------------------
(* The two streams                                                         *)

\* How many bytes a call on n bytes at pos may transfer.  The kernel stops short
\* at sectors and pages; a cursor does not rely on it.
Counts(n) ==
    {c \in 1 .. n : pos + c <= ZoneBytes
                    /\ (via = "cursor" \/ c = n \/ (pos + c) % SectorSize = 0)}

\* A cursor refuses a position inside a sector, a handle a full zone.
Accepts == IF via = "cursor" THEN Place(pos) # Refused ELSE pos < ZoneBytes

\* The byte where the call acts.
At == IF via = "cursor" THEN Place(pos) ELSE pos

\* A handle and write_all_at count whole sectors, a cursor bytes.
Advance(c) ==
    pos' = pos + IF via = "cursor" THEN c ELSE (c \div SectorSize) * SectorSize

\* write, which took c bytes.
Write(data, c) ==
    /\ Accepts
    /\ c \in Counts(Len(data))
    /\ zone' = [i \in Offsets |->
                   IF i \in At .. At + c - 1 THEN data[i - At + 1] ELSE zone[i]]
    /\ Advance(c)

After(c, s) == SubSeq(s, c + 1, Len(s))

-----------------------------------------------------------------------------
(* cmd_write                                                               *)

\* Bound: which files go through which stream.
Chosen(f, v) ==
    v # "handle" \/ OversizeFiles \/ Header + SizeOf[f] <= BufSize

\* What an earlier cmd_read found is gone.
NothingRead == size' = 0 /\ got' = <<>> /\ ragged' = FALSE

BeginWrite(f, v) ==
    /\ phase = "Idle"
    /\ Chosen(f, v)
    /\ via' = v
    /\ IF Header + SizeOf[f] > ZoneBytes
       THEN /\ outcome' = "TooBig"
            /\ UNCHANGED <<phase, file>>
       ELSE /\ phase' = "Resetting"
            /\ file' = f
            /\ outcome' = "None"
    /\ NothingRead
    /\ UNCHANGED <<zone, durable, pos, todo, buf, direct, history>>

\* The calls for a file; without a BufWriter it is one call.
Calls(f) ==
    IF via = "write_all" THEN <<HeaderOf(f) \o Content(f) \o Padding(f)>>
                         ELSE <<HeaderOf(f), Content(f), Padding(f)>>

\* Mutant: cmd_write goes on after a reset that failed.
ResetZone_Ignored ==
    /\ phase = "Resetting"
    /\ pos' = 0
    /\ zone' \in {Blank, zone}
    /\ durable' = 0
    /\ stored' = NoFile
    /\ phase' = "Writing" /\ todo' = Calls(file) /\ direct' = (via = "write_all")
    /\ UNCHANGED <<via, file, buf, reader, outcome, flushed>>

\* handle.reset(), which may fail with and without effect.
ResetZone ==
    /\ phase = "Resetting"
    /\ \/ /\ zone' = Blank /\ durable' = ZoneBytes /\ stored' = NoFile
          /\ pos' = 0
          /\ phase' = "Writing" /\ todo' = Calls(file) /\ direct' = (via = "write_all")
          /\ UNCHANGED <<outcome, file>>
       \/ /\ \/ zone' = Blank /\ stored' = NoFile
             \/ UNCHANGED <<zone, history>>
          /\ phase' = "Idle" /\ outcome' = "Failed" /\ file' = NoFile
          /\ UNCHANGED <<durable, pos, todo, direct>>
    /\ UNCHANGED <<via, buf, reader, flushed>>

\* The `?` of cmd_write: the BufWriter is dropped and flushes once more.
Fail ==
    /\ phase' = "Dropping"
    /\ todo' = <<>> /\ direct' = FALSE
    /\ outcome' = "Failed"

Spare == BufSize - Len(buf)

\* BufWriter::write_all of a slice that fits.
Copy ==
    /\ phase = "Writing"
    /\ todo # <<>>
    /\ ~direct
    /\ Len(Head(todo)) < BufSize /\ Len(Head(todo)) <= Spare
    /\ buf' = buf \o Head(todo)
    /\ todo' = Tail(todo)
    /\ UNCHANGED <<zone, durable, via, pos, phase, file, direct, reader, outcome, history>>

\* BufWriter::write_all of a slice of the buffer's size or longer.
WriteThrough ==
    /\ phase = "Writing"
    /\ todo # <<>>
    /\ direct \/ (buf = <<>> /\ Len(Head(todo)) >= BufSize)
    /\ \/ \E c \in Counts(Len(Head(todo))) :
              /\ Write(Head(todo), c)
              /\ direct' = (c < Len(Head(todo)))
              /\ todo' = IF direct' THEN <<After(c, Head(todo))>> \o Tail(todo)
                                    ELSE Tail(todo)
              /\ durable' = IF pos < durable THEN pos ELSE durable
              /\ UNCHANGED <<phase, outcome>>
       \/ Fail /\ UNCHANGED <<zone, durable, pos>>
    /\ UNCHANGED <<via, file, buf, reader, history>>

\* For a slice that does not fit, for flush(), and when the BufWriter is dropped.
Flushing ==
    \/ phase = "Dropping"
    \/ phase = "Writing" /\ ~direct /\ todo = <<>>
    \/ phase = "Writing" /\ ~direct /\ todo # <<>> /\ Len(Head(todo)) > Spare

\* Mutant: an error is taken for an interrupted call.
FlushBuf_Retries ==
    /\ buf # <<>> /\ Flushing
    /\ \/ \E c \in Counts(Len(buf)) :
              /\ Write(buf, c)
              /\ buf' = After(c, buf)
              /\ durable' = IF pos < durable THEN pos ELSE durable
       \/ UNCHANGED <<zone, durable, pos, buf>>
    /\ UNCHANGED <<via, phase, file, todo, direct, reader, outcome, history>>

\* A turn of BufWriter::flush_buf; its error is ignored when it is dropped.
FlushBuf ==
    /\ buf # <<>> /\ Flushing
    /\ \/ \E c \in Counts(Len(buf)) :
              /\ Write(buf, c)
              /\ buf' = After(c, buf)
              /\ durable' = IF pos < durable THEN pos ELSE durable
              /\ UNCHANGED <<phase, todo, direct, outcome>>
       \/ /\ IF phase = "Writing"
             THEN Fail /\ UNCHANGED buf
             ELSE buf' = <<>> /\ UNCHANGED <<phase, todo, direct, outcome>>
          /\ UNCHANGED <<zone, durable, pos>>
    /\ UNCHANGED <<via, file, reader, history>>

\* Mutant: io::Write::flush of the stream does nothing.
Sync_None ==
    /\ phase = "Writing"
    /\ todo = <<>> /\ buf = <<>>
    /\ stored' = file /\ outcome' = "Ok" /\ flushed' = (via # "write_all")
    /\ phase' = "Idle" /\ file' = NoFile
    /\ UNCHANGED <<zone, durable, via, pos, todo, buf, direct, reader>>

\* flush() of the stream: fsync.  zone_store_async ends without it.
Sync ==
    /\ phase = "Writing"
    /\ todo = <<>> /\ buf = <<>>
    /\ \/ /\ durable' = IF via = "write_all" THEN durable ELSE ZoneBytes
          /\ stored' = file /\ outcome' = "Ok" /\ flushed' = (via # "write_all")
       \/ /\ via # "write_all"
          /\ UNCHANGED <<durable, history>> /\ outcome' = "Failed"
    /\ phase' = "Idle" /\ file' = NoFile
    /\ UNCHANGED <<zone, via, pos, todo, buf, direct, reader>>

EndDrop ==
    /\ phase = "Dropping"
    /\ buf = <<>>
    /\ phase' = "Idle" /\ file' = NoFile
    /\ UNCHANGED <<zone, durable, via, pos, todo, buf, direct, reader, outcome, history>>

-----------------------------------------------------------------------------
(* cmd_read                                                                *)

\* The lengths that the first k bytes of the header may stand for; those behind
\* them are the zeros of the reader's buffer.
Lengths(k) ==
    IF \A i \in 0 .. k - 1 : zone[i] = Zero THEN {0}
    ELSE IF \E f \in Files : \A i \in 0 .. Header - 1 : zone[i] = <<f, i + 1>>
         THEN IF k = Header THEN {SizeOf[zone[0][1]]} ELSE 0 .. SizeOf[zone[0][1]]
         ELSE 0 .. ZoneBytes + 1

\* How much of the header a read of the first block brings: zone_store does not
\* look at the count, zone_store_async refuses one below the header's size.
HeaderCounts(v) == IF v = "read_at" THEN 1 .. Header ELSE {Header}

\* Mutant: a length beyond the zone is not refused.
ReadHeader_AnyLength(v) ==
    /\ phase = "Idle"
    /\ \/ \E k \in HeaderCounts(v) :
              /\ \E n \in Lengths(k) :
                    IF n = 0
                    THEN outcome' = "Refused" /\ UNCHANGED <<phase, size>>
                    ELSE outcome' = "None" /\ phase' = "Reading" /\ size' = n
              /\ ragged' = (k < Header)
       \/ outcome' = "Failed" /\ ragged' = FALSE /\ UNCHANGED <<phase, size>>
    /\ via' = v /\ pos' = SeekStart(0) /\ got' = <<>>
    /\ UNCHANGED <<zone, durable, writer, history>>

\* The first block, of which only the header is looked at.
ReadHeader(v) ==
    /\ phase = "Idle"
    /\ \/ \E k \in HeaderCounts(v) :
              /\ \E n \in Lengths(k) :
                    IF n = 0 \/ n > ZoneBytes
                    THEN outcome' = "Refused" /\ UNCHANGED <<phase, size>>
                    ELSE outcome' = "None" /\ phase' = "Reading" /\ size' = n
              /\ ragged' = (k < Header)
       \/ outcome' = "Failed" /\ ragged' = FALSE /\ UNCHANGED <<phase, size>>
    /\ via' = v /\ pos' = SeekStart(0) /\ got' = <<>>
    /\ UNCHANGED <<zone, durable, writer, history>>

ReadLen == RoundUp(Header + size)

\* Behind the zone: the next one, or the zeros of the buffer at the device's end.
ByteAt(i) == IF i \in Offsets THEN zone[i] ELSE Zero

\* Where the next read begins: the `unwrap_or(Sector::ZERO)` of zone_store turns
\* a place inside a sector into the start of the zone.
ReadPlace ==
    IF via = "cursor" THEN Place(pos)
    ELSE IF Len(got) % SectorSize = 0 THEN Len(got) ELSE 0

\* What a read of c bytes brings.
ReadBytes(c) == [k \in 1 .. c |-> ByteAt(ReadPlace + k - 1)]

\* A read of the rest of the buffer.  A read_at may bring any number of bytes.
ReadOn ==
    /\ phase = "Reading" /\ via # "read_once"
    /\ Len(got) < ReadLen
    /\ \/ \E c \in 1 .. ReadLen - Len(got) :
              /\ via = "cursor" => Place(pos) # Refused
              /\ got' = got \o ReadBytes(c)
              /\ pos' = IF via = "cursor" THEN pos + c ELSE pos
              /\ ragged' = (ragged \/ (via = "read_at" /\ Len(got') % SectorSize # 0))
              /\ UNCHANGED <<phase, outcome>>
       \/ phase' = "Idle" /\ outcome' = "Failed" /\ UNCHANGED <<got, ragged, pos>>
    /\ UNCHANGED <<zone, durable, via, writer, size, history>>

\* zone_store_async takes one read for the whole, and panics when it slices one
\* that ends before the content does.
ReadOnce ==
    /\ phase = "Reading" /\ via = "read_once"
    /\ \/ \E c \in 1 .. ReadLen :
              /\ got' = ReadBytes(c)
              /\ outcome' = IF c < Header + size THEN "Panicked" ELSE "Read"
       \/ outcome' = "Failed" /\ UNCHANGED got
    /\ phase' = "Idle"
    /\ UNCHANGED <<zone, durable, via, pos, writer, size, ragged, history>>

\* Mutant: the first read is taken for the whole; the buffer was zeroed.
EndRead_Short ==
    /\ phase = "Reading"
    /\ got # <<>>
    /\ got' = got \o [k \in 1 .. ReadLen - Len(got) |-> Zero]
    /\ phase' = "Idle" /\ outcome' = "Read"
    /\ UNCHANGED <<zone, durable, via, pos, writer, size, ragged, history>>

EndRead ==
    /\ phase = "Reading"
    /\ Len(got) = ReadLen
    /\ phase' = "Idle" /\ outcome' = "Read"
    /\ UNCHANGED <<zone, durable, via, pos, writer, reader, history>>

-----------------------------------------------------------------------------
(* The specification                                                       *)

\* The process ends, perhaps with the power; what was written last may be gone.
Crash ==
    /\ \E k \in durable .. ZoneBytes :
           /\ k % SectorSize = 0 \/ k = durable
           /\ zone' = [i \in Offsets |-> IF i < k THEN zone[i] ELSE Zero]
    /\ durable' = ZoneBytes
    /\ phase' = "Idle" /\ outcome' = "None" /\ file' = NoFile
    /\ todo' = <<>> /\ buf' = <<>> /\ direct' = FALSE
    /\ stored' = IF flushed THEN stored ELSE NoFile
    /\ NothingRead
    /\ UNCHANGED <<via, pos, flushed>>

Step ==
    \/ ResetZone \/ Copy \/ WriteThrough \/ FlushBuf \/ Sync \/ EndDrop
    \/ ReadOn \/ ReadOnce \/ EndRead

StreamNext ==
    \/ Step
    \/ \E f \in Files, v \in Writers : BeginWrite(f, v)
    \/ \E v \in Readers : ReadHeader(v)
    \/ Crash

StreamSpec == StreamInit /\ [][StreamNext]_vars

\* A command that runs goes on to its next call.
StreamFairSpec == StreamSpec /\ WF_vars(Step)

-----------------------------------------------------------------------------
(* Properties                                                              *)

\* The variables have their types; the tail of a zone that may be lost begins
\* where something was written.
StreamTypeOK ==
    /\ zone \in [Offsets -> Cells] /\ durable \in 0 .. ZoneBytes
    /\ via \in Writers \cup Readers /\ pos \in 0 .. ZoneBytes + Align
    /\ phase \in {"Idle", "Resetting", "Writing", "Dropping", "Reading"}
    /\ file \in Files \cup {NoFile} /\ stored \in Files \cup {NoFile}
    /\ flushed \in BOOLEAN
    /\ Len(todo) <= 3 /\ Len(buf) <= BufSize /\ direct \in BOOLEAN
    /\ size \in 0 .. ZoneBytes /\ Len(got) <= RoundUp(Header + size)
    /\ ragged \in BOOLEAN
    /\ outcome \in {"None", "Ok", "Failed", "Refused", "TooBig", "Read", "Panicked"}

\* "The first 8 bytes of the zone store the file size as little-endian u64,
\* followed by the raw file content": for a write that returned Ok, and if it ended
\* with fsync, after a crash, too.
OnDiskFormat ==
    stored # NoFile =>
        \A k \in 1 .. Header + SizeOf[stored] : zone[k - 1] = <<stored, k>>

\* A read after a write that returned Ok gives the file back, and only an empty
\* file is refused, whatever short reads and writes there were, but for one kind:
\* zone_store has nothing against a read_at that ends inside a sector or in the
\* header, and may return wrong content then.  The single read of zone_store_async
\* gives the file back or panics.
RoundTrip ==
    stored # NoFile /\ phase = "Idle" /\ ~ragged =>
        /\ outcome = "Read" => SubSeq(got, Header + 1, Header + size) = Content(stored)
        /\ outcome = "Refused" => SizeOf[stored] = 0

\* The header is on the disk to its last byte.  A handle writes it with its sector;
\* a cursor may stop in the middle of it.
HeaderWhole == zone[Header - 1] # Zero

\* What a command that failed or a crash leaves is read as the beginning of one
\* file and zeros behind it, never as a mixture with what was there before; when
\* the header is torn too, as zeros only, of any length.  (Of the reads that
\* RoundTrip is about.)
TornIsPrefix ==
    phase = "Idle" /\ outcome = "Read" /\ ~ragged /\ zone # OtherData =>
        \E f \in Files : \E n \in 0 .. size :
            /\ IF HeaderWhole THEN size = SizeOf[f] ELSE n = 0
            /\ SubSeq(got, Header + 1, Header + size)
                   = [k \in 1 .. size |-> IF k <= n THEN Content(f)[k] ELSE Zero]

\* Every command ends, those that fail included.
CommandEnds == phase # "Idle" ~> phase = "Idle"
=============================================================================
