-------------------------------- MODULE Dmg --------------------------------
(***************************************************************************)
(* format/dmg.rs: a disk image stored as compressed ranges of sectors.     *)
(* The trailer leads to a property list, that to the tables of chunks; the *)
(* chunks are decoded into a raw image in a temp file, and the raw image   *)
(* is searched for a volume another reader can open: see HfsPlus and Apfs. *)
(*                                                                         *)
(* After Locate, `file` is the raw image: its offset is where a volume is  *)
(* being tried, its tries are the places left to try, and inside says that *)
(* the answer is still the disk image's to give.                           *)
(***************************************************************************)
EXTENDS StoredFile, SequencesExt, FiniteSets

CONSTANTS
  DmgImages,        \* the disk images
  Volumes,          \* what is behind each mark: see HfsPlus and Apfs
  SectorSize,       \* SECTOR_SIZE, 512
  KolySize,         \* KOLY_SIZE, 512
  VolumeHeaderAt,   \* VOLUME_HEADER_OFFSET, 1024
  ApfsMagicAt       \* APFS_MAGIC_OFFSET, 32

\* A disk image: its bytes; koly, the trailer when it has one, [fork, xmlAt,
\* xmlLen]; plist, what the property list says: [sound, tables], a table being
\* [sound, sector, sectors, base, chunks], a chunk [type, sector, sectors, at,
\* len].  A list that is nested too deep, lacks a key, or is not XML, and a table
\* that is not base64, is short or has the wrong signature, is not sound.

VARIABLES
  file,      \* the disk image, then the raw image made from it
  walk,      \* the chunks still to be decoded, and the raw image so far
  listing, status, answers

vars == <<file, walk, listing, status, answers>>

Init ==
  /\ file \in DmgImages
  /\ walk = <<>>
  /\ listing = <<>>
  /\ status = "new"
  /\ answers = <<>>

----------------------------------------------------------------------------
Larger(a, b) == IF a > b THEN a ELSE b

\* What a step of a decoder makes of what it has: where it is, what it gave.
Failed == [at |-> -1, out |-> <<>>]

\* adc_copy_overlap: byte by byte, so that a match may run into itself.
Repeat(out, back, n) ==
  LET start == Len(out) - back
  IN out \o [k \in 1..n |-> out[start + 1 + ((k - 1) % back)]]

CopyOverlap(out, back, n, limit) ==
  IF back > Len(out) \/ Len(out) + n > limit THEN Failed
  ELSE [at |-> 0, out |-> Repeat(out, back, n)]

\* adc_decode, from each position on: a literal run, a long match (four bytes or
\* more, two bytes of distance) or a short one (three or more, ten bits).
AdcDecode(in, limit) ==
  LET from[i \in 1 .. Len(in) + 1, out \in Seq(Nat)] ==
        LET b == in[i]
            literal == (b % 128) + 1
            long == b % 128 >= 64
            n == IF long THEN (b % 64) + 4 ELSE ((b % 64) \div 4) + 3
            width == IF long THEN 3 ELSE 2
            back == IF long THEN (in[i + 1] * 256) + in[i + 2] + 1
                    ELSE ((b % 4) * 256) + in[i + 1] + 1
        IN CASE i > Len(in) \/ Len(out) >= limit -> Answer("ok", out)
             [] i <= Len(in) /\ Len(out) < limit /\ b >= 128 ->
                  IF i + literal > Len(in) \/ Len(out) + literal > limit
                  THEN Answer("Corrupt", <<>>)
                  ELSE from[i + 1 + literal, out \o SubSeq(in, i + 1, i + literal)]
             [] OTHER ->
                  IF i + width - 1 > Len(in) THEN Answer("Corrupt", <<>>)
                  ELSE LET copied == CopyOverlap(out, back, n, limit)
                       IN IF copied = Failed THEN Answer("Corrupt", <<>>)
                          ELSE from[i + width, copied.out]
  IN from[1, <<>>]

\* The decoders of other crates (zlib, bzip2, xz, lzfse): a stream is its
\* length and its bytes.
Unpack(in) ==
  IF in = <<>> \/ Len(in) <= in[1] THEN Answer("Corrupt", <<>>)
  ELSE Answer("ok", SubSeq(in, 2, in[1] + 1))

\* decode_chunk: exactly the bytes of its sectors, or an error.
DecodeChunk(type, in, size) ==
  LET read == CASE type = "raw" -> Answer("ok", in)
                [] type = "packed" -> Unpack(in)
                [] type = "adc" -> AdcDecode(in, size)
                [] OTHER -> Answer("Corrupt", <<>>)
  IN IF read.said = "ok" /\ Len(read.given) # size THEN Answer("Corrupt", <<>>) ELSE read

----------------------------------------------------------------------------
Refuse(error) ==
  /\ status' = error
  /\ UNCHANGED <<file, walk, listing, answers>>

New == status = "new" /\ file.format = "dmg"

\* read_koly: the trailer is the last KolySize bytes.
Trailed == file.len >= KolySize /\ file.koly # <<>>
Koly == file.koly[1]
Tables == file.plist.tables
SoundList ==
  /\ Koly.xmlAt + Koly.xmlLen <= file.len
  /\ file.plist.sound
  /\ \A t \in DOMAIN Tables : Tables[t].sound

RefusePathless == New /\ ~file.path /\ Refuse("Unsupported")

NoTrailer == New /\ file.path /\ ~Trailed /\ Refuse("UnknownFormat")

BadList == New /\ file.path /\ Trailed /\ ~SoundList /\ Refuse("Corrupt")

\* The raw image is as long as the furthest table reaches.
RawLen(tables) ==
  FoldLeft(LAMBDA n, t : Larger(n, (t.sector + t.sectors) * SectorSize), 0, tables)

\* The chunks of all tables in order, each with its table.
AllChunks(tables) ==
  FlattenSeq([t \in DOMAIN tables |->
    [c \in DOMAIN tables[t].chunks |-> [table |-> t, chunk |-> tables[t].chunks[c]]]])

\* build_raw_image, up to its loop: the temp file is made of zeros.
Begin ==
  /\ New /\ file.path /\ Trailed /\ SoundList
  /\ status' = "walking"
  /\ walk' = [todo |-> AllChunks(Tables), raw |-> [len |-> RawLen(Tables), byte |-> <<>>]]
  /\ UNCHANGED <<file, listing, answers>>

----------------------------------------------------------------------------
Building == status = "walking" /\ file.format = "dmg"
Decoding == Building /\ walk.todo # <<>>
Chunk == walk.todo[1].chunk
Table == Tables[walk.todo[1].table]

Empty == Chunk.type \in {"zero", "ignore", "comment", "terminator"}

\* A chunk lies at its own offset, from its table's, from the data fork's.
ChunkAt == Koly.fork + Table.base + Chunk.at

OutAt == (Table.sector + Chunk.sector) * SectorSize

Decoded ==
  IF ChunkAt + Chunk.len > file.len THEN Answer("Corrupt", <<>>)
  ELSE DecodeChunk(Chunk.type, Bytes(file, ChunkAt, Chunk.len), Chunk.sectors * SectorSize)

\* The bytes written replace what was there, and may make the file longer.
Write(raw, p, bytes) ==
  [len |-> Larger(raw.len, p + Len(bytes)),
   byte |-> LET ones == {k \in DOMAIN bytes : bytes[k] # 0}
                kept == {q \in DOMAIN raw.byte : q < p \/ q >= p + Len(bytes)}
            IN [q \in kept \union {p + k - 1 : k \in ones} |->
                  IF q \in kept THEN raw.byte[q] ELSE bytes[q - p + 1]]]

\* The zeros are there, and comments and the end of a table have nothing.
SkipChunk ==
  /\ Decoding /\ Empty
  /\ walk' = [walk EXCEPT !.todo = Tail(@)]
  /\ UNCHANGED <<file, listing, status, answers>>

WriteChunk ==
  /\ Decoding /\ ~Empty /\ Decoded.said = "ok"
  /\ walk' = [todo |-> Tail(walk.todo), raw |-> Write(walk.raw, OutAt, Decoded.given)]
  /\ UNCHANGED <<file, listing, status, answers>>

BadChunk == Decoding /\ ~Empty /\ Decoded.said # "ok" /\ Refuse("Corrupt")

----------------------------------------------------------------------------
\* sweep_for_volume: the starts of sectors from where a signature is at its
\* place, up to the end of the raw image.
Sectors(raw, fs) ==
  [k \in 1 .. (raw.len \div SectorSize) + 1 |-> [fs |-> fs, offset |-> (k - 1) * SectorSize]]

Hits(raw, fs, at) ==
  {p \in Range(Sectors(raw, fs)) :
     /\ p.offset + at < raw.len
     /\ LET mark == ByteAt(raw, p.offset + at)
        IN mark \in DOMAIN Volumes /\ Volumes[mark].fs = fs}

Sweep(raw, fs, at) == Among(Sectors(raw, fs), Hits(raw, fs, at))

\* locate_volume: the start of the raw image for either file system, then the
\* whole of it for APFS, then for HFS+.
Candidates(raw) ==
  <<[fs |-> "hfs", offset |-> 0], [fs |-> "apfs", offset |-> 0]>>
    \o Sweep(raw, "apfs", ApfsMagicAt) \o Sweep(raw, "hfs", VolumeHeaderAt)

\* Slip: a try is not taken off the list.
MountedAgain(raw, tries) ==
  [format |-> tries[1].fs, offset |-> tries[1].offset, tries |-> tries,
   len |-> raw.len, byte |-> raw.byte, path |-> TRUE, inside |-> TRUE,
   members |-> file.members, damage |-> file.damage]

\* The raw image, with the first of the tries as the volume to open.
Mounted(raw, tries) ==
  [format |-> tries[1].fs, offset |-> tries[1].offset, tries |-> Tail(tries),
   len |-> raw.len, byte |-> raw.byte, path |-> TRUE, inside |-> TRUE,
   members |-> file.members, damage |-> file.damage]

Locate ==
  /\ Building /\ walk.todo = <<>>
  /\ file' = Mounted(walk.raw, Candidates(walk.raw))
  /\ walk' = <<>>
  /\ status' = "new"
  /\ UNCHANGED <<listing, answers>>

\* A volume that does not open, for whatever reason, leads to the next try ...
NotThisOne ==
  file.format \in {"hfs", "apfs"} /\ file.inside /\ status \notin {"new", "walking", "open"}

TryNext ==
  /\ NotThisOne /\ file.tries # <<>>
  /\ file' = Mounted(file, file.tries)
  /\ walk' = <<>>
  /\ status' = "new"
  /\ UNCHANGED <<listing, answers>>

\* ... and the last to the end.
NoVolume ==
  /\ NotThisOne /\ file.tries = <<>>
  /\ file' = [file EXCEPT !.inside = FALSE]
  /\ status' = "UnknownFormat"
  /\ UNCHANGED <<walk, listing, answers>>

Next ==
  \/ RefusePathless \/ NoTrailer \/ BadList \/ Begin
  \/ SkipChunk \/ WriteChunk \/ BadChunk
  \/ Locate \/ TryNext \/ NoVolume

Spec == Init /\ [][Next]_vars
===========================================================================
