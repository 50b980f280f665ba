-------------------------------- MODULE Wim --------------------------------
(***************************************************************************)
(* format/wim.rs: an image of resources.  The header leads to the lookup   *)
(* table, that to the metadata of the first image and, by their hashes, to *)
(* the bodies; the metadata is a tree of dentries, each directory a list   *)
(* of them somewhere in it.  A resource may be compressed, chunk by chunk. *)
(***************************************************************************)
EXTENDS StoredFile, SequencesExt, FiniteSets

CONSTANTS
  WimFiles,      \* the images
  WimHeaderLen,  \* HEADER_LEN, 208
  EndWidth,      \* how many bytes an entry of a chunk table has, 4
  StackFrames,   \* how many calls of walk_children, one in another, the stack has room for
  WimCuts        \* by how much somebody else may shorten an open file

NoHash == "0"

\* A resource: [at, onDisk, size, packed, meta]: where it lies, how long it is
\* there and when it is decoded, whether it is compressed, whether it is metadata.
\* An image: its bytes; magic, codecs (the compressors its flags name, when they
\* say there is one at all), chunk, spanned and table, as its header gives them;
\* lookup, what its lookup table says, [sound, entries], an entry a resource and
\* its hash; meta, what its first metadata says: [len, root, dents], root where
\* the security block ends and dents the dentries by offset.  A dentry:
\* [last, next, name, dir, hash, below]; below is where its children begin.

VARIABLES
  file,      \* the image
  walk,      \* the directories being walked: where in each, under which path
  listing,   \* the entries found so far, each with its resource
  status,    \* "new", "walking", "open", or the error `open` answered: one that
             \* it panicked or ran out of stack is no answer
  answers    \* what the last read_entry of each entry answered

vars == <<file, walk, listing, status, answers>>

Init ==
  /\ file \in WimFiles
  /\ walk = <<>>
  /\ listing = <<>>
  /\ status = "new"
  /\ answers = <<>>

----------------------------------------------------------------------------
\* The codecs of other crates: a chunk that shrank is a byte and how many of it.
Decompress(in, size) ==
  IF Len(in) = 2 /\ in[2] = size THEN Answer("ok", [k \in 1..size |-> in[1]])
  ELSE Answer("Corrupt", <<>>)

\* decode_one_chunk: a chunk that is as long as it should be did not shrink.
DecodeOneChunk(in, size) ==
  IF Len(in) = size THEN Answer("ok", in) ELSE Decompress(in, size)

ChunksOf(size, chunk) == ((size - 1) \div chunk) + 1

\* Where a resource's chunks end, counted from behind its table of ends; the
\* last ends where the resource does.
LittleEndian(bytes) == FoldRight(LAMBDA b, v : (v * 256) + b, bytes, 0)
TableLen(n) == (n - 1) * EndWidth
Ends(raw, n) ==
  [k \in 1..n |->
     IF k = n THEN Len(raw) - TableLen(n)
     ELSE LittleEndian(SubSeq(raw, ((k - 1) * EndWidth) + 1, k * EndWidth))]

ChunkSize(size, chunk, n, k) ==
  IF k < n THEN chunk
  ELSE IF size % chunk = 0 THEN chunk ELSE size % chunk

Begin(raw, n, k) == IF k = 1 THEN 0 ELSE Ends(raw, n)[k - 1]
ChunkRead(raw, size, chunk, n, k) ==
  DecodeOneChunk(
    SubSeq(raw, TableLen(n) + Begin(raw, n, k) + 1, TableLen(n) + Ends(raw, n)[k]),
    ChunkSize(size, chunk, n, k))

EndsFit(raw, n) ==
  /\ Len(raw) >= TableLen(n)
  /\ \A k \in 1..n : /\ Begin(raw, n, k) <= Ends(raw, n)[k]
                     /\ Ends(raw, n)[k] <= Len(raw) - TableLen(n)

\* decode_chunked_resource.  Nothing can be cut into chunks of no size: the
\* division panics.
DecodeChunked(raw, size, chunk) ==
  LET n == ChunksOf(size, chunk)
  IN CASE size = 0 -> Answer("ok", <<>>)
       [] size > 0 /\ chunk = 0 -> Answer("panic", <<>>)
       [] size > 0 /\ chunk > 0 /\ n = 1 -> DecodeOneChunk(raw, size)
       [] size > 0 /\ chunk > 0 /\ n > 1 ->
            IF /\ EndsFit(raw, n)
               /\ \A k \in 1..n : ChunkRead(raw, size, chunk, n, k).said = "ok"
            THEN Answer("ok", FlattenSeq([k \in 1..n |-> ChunkRead(raw, size, chunk, n, k).given]))
            ELSE Answer("Corrupt", <<>>)

\* read_resource: a resource says itself whether it is compressed, the header
\* says how.
ReadResource(f, r) ==
  LET raw == Bytes(f, r.at, Reach(f, r.at, r.onDisk))
  IN IF Len(raw) < r.onDisk THEN Answer("Corrupt", <<>>)
     ELSE IF ~r.packed THEN Answer("ok", raw)
     ELSE IF f.codecs = {} THEN Answer("Corrupt", <<>>)
     ELSE DecodeChunked(raw, r.size, f.chunk)

----------------------------------------------------------------------------
Metadata(f) == {k \in DOMAIN f.lookup.entries : f.lookup.entries[k].resource.meta}
FirstMetadata(f) ==
  f.lookup.entries[CHOOSE k \in Metadata(f) : \A j \in Metadata(f) : k <= j].resource

\* The bodies by hash: a later entry of one hash replaces an earlier one.
Bodies(f, hash) ==
  {k \in DOMAIN f.lookup.entries :
     ~f.lookup.entries[k].resource.meta /\ f.lookup.entries[k].hash = hash}
BodyOf(f, hash) ==
  f.lookup.entries[CHOOSE k \in Bodies(f, hash) : \A j \in Bodies(f, hash) : k >= j].resource

\* WimHeader::parse: a compressor must be told from the flags.
SoundHeader(f) ==
  /\ f.len >= WimHeaderLen /\ f.magic
  /\ Cardinality(f.codecs) <= 1

\* parse_lookup_table, build_dir_tree up to its walk.
SoundTables(f) ==
  /\ ReadResource(f, f.table).said = "ok"
  /\ f.lookup.sound
  /\ Metadata(f) # {}
  /\ ReadResource(f, FirstMetadata(f)).said = "ok"
  /\ f.meta.root <= f.meta.len
  /\ f.meta.root \in DOMAIN f.meta.dents

\* The lookup table, or the metadata it leads to, is compressed by chunks of no size.
TablesPanic(f) ==
  \/ ReadResource(f, f.table).said = "panic"
  \/ /\ ReadResource(f, f.table).said = "ok" /\ f.lookup.sound /\ Metadata(f) # {}
     /\ ReadResource(f, FirstMetadata(f)).said = "panic"

Refuse(error) ==
  /\ status' = error
  /\ listing' = <<>>
  /\ UNCHANGED <<file, walk, answers>>

RefuseStream ==
  /\ status = "new" /\ file.stream
  /\ Refuse("Unsupported")

RefuseHeader ==
  /\ status = "new" /\ ~file.stream /\ ~SoundHeader(file)
  /\ Refuse("Corrupt")

\* One part of several.
RefuseSpanned ==
  /\ status = "new" /\ ~file.stream /\ SoundHeader(file) /\ file.spanned
  /\ Refuse("Unsupported")

RefuseTables ==
  /\ status = "new" /\ ~file.stream /\ SoundHeader(file) /\ ~file.spanned /\ ~SoundTables(file)
  /\ ~TablesPanic(file)
  /\ Refuse("Corrupt")

Panic ==
  /\ status = "new" /\ ~file.stream /\ SoundHeader(file) /\ ~file.spanned
  /\ TablesPanic(file)
  /\ Refuse("panic")

\* The root is not an entry, only what is below it; it may be missing.
Root == file.meta.dents[file.meta.root]
Start ==
  /\ status = "new" /\ ~file.stream /\ SoundHeader(file) /\ ~file.spanned /\ SoundTables(file)
  /\ walk' = IF Root.last \/ Root.below = 0 THEN <<>> ELSE <<[at |-> Root.below, parent |-> <<>>]>>
  /\ status' = "walking"
  /\ UNCHANGED <<file, listing, answers>>

----------------------------------------------------------------------------
\* walk_children: one dentry of the innermost directory.
Walking == status = "walking" /\ walk # <<>>
Top == walk[Len(walk)]
Parses == Top.at \in DOMAIN file.meta.dents /\ file.meta.dents[Top.at].next <= file.meta.len
Dent == file.meta.dents[Top.at]
Path == Append(Top.parent, Dent.name)
Bodied == ~Dent.dir /\ Dent.hash # NoHash
Resolved == Bodied => Bodies(file, Dent.hash) # {}

EntryAtHand ==
  [path |-> Path, kind |-> IF Dent.dir THEN "dir" ELSE "file",
   size |-> IF Bodied THEN BodyOf(file, Dent.hash).size ELSE 0,
   body |-> IF Bodied THEN <<BodyOf(file, Dent.hash)>> ELSE <<>>,
   target |-> <<>>]

\* What is left of the walk: first what is below the dentry, whether or not it
\* says it is a directory, then what is behind it.
Onwards ==
  [walk EXCEPT ![Len(walk)].at = Dent.next]
    \o IF Dent.below # 0 THEN <<[at |-> Dent.below, parent |-> Path]>> ELSE <<>>

CannotParse == Walking /\ ~Parses /\ Refuse("Corrupt")

\* A hash the lookup table does not have.
Unresolved == Walking /\ Parses /\ ~Dent.last /\ ~Resolved /\ Refuse("Corrupt")

\* Nothing stops a directory from holding a directory that is above it: the
\* recursion goes on until the stack has no room for another call.
Room == Dent.below # 0 => Len(walk) < StackFrames

Overflow ==
  /\ Walking /\ Parses /\ ~Dent.last /\ Resolved /\ ~Room
  /\ Refuse("overflow")

Visit ==
  /\ Walking /\ Parses /\ ~Dent.last /\ Resolved /\ Room
  /\ listing' = Append(listing, EntryAtHand)
  /\ walk' = Onwards
  /\ UNCHANGED <<file, status, answers>>

Leave ==
  /\ Walking /\ Parses /\ Dent.last
  /\ walk' = SubSeq(walk, 1, Len(walk) - 1)
  /\ UNCHANGED <<file, listing, status, answers>>

Finish ==
  /\ status = "walking" /\ walk = <<>>
  /\ status' = "open"
  /\ answers' = [i \in DOMAIN listing |-> NotRead]
  /\ UNCHANGED <<file, walk, listing>>

----------------------------------------------------------------------------
\* read_entry: nothing is written unless all of it could be decoded.
ReadBody(e) == IF e.body = <<>> THEN Answer("ok", <<>>) ELSE ReadResource(file, e.body[1])

ReadEntry(i) ==
  /\ status = "open"
  /\ answers' = [answers EXCEPT ![i] = ReadBody(listing[i])]
  /\ UNCHANGED <<file, walk, listing, status>>

\* Somebody else cuts the file short while the reader holds it.
Shrink ==
  /\ status = "open" /\ ~file.shrunk
  /\ \E n \in WimCuts : n <= file.len
                        /\ file' = [file EXCEPT !.len = @ - n, !.shrunk = TRUE]
  /\ UNCHANGED <<walk, listing, status, answers>>

Next ==
  \/ RefuseStream \/ RefuseHeader \/ RefuseSpanned \/ RefuseTables \/ Panic \/ Start
  \/ CannotParse \/ Unresolved \/ Overflow \/ Visit \/ Leave \/ Finish
  \/ \E i \in DOMAIN listing : ReadEntry(i)
  \/ Shrink

Spec == Init /\ [][Next]_vars
===========================================================================
