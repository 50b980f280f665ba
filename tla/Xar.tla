-------------------------------- MODULE Xar --------------------------------
(***************************************************************************)
(* format/xar.rs: a header, a compressed table of contents in XML, and a   *)
(* heap of bodies.  The nesting of the XML is measured before it is        *)
(* parsed; the parsed tree is walked with a stack of its own.              *)
(*                                                                         *)
(* The table is kept twice: xml, its characters, which only the measuring  *)
(* looks at, and toc, the tree roxmltree makes of it.                      *)
(***************************************************************************)
EXTENDS StoredFile, SequencesExt

CONSTANTS
  XarFiles,      \* the archives
  MinHeader,     \* 28, the shortest header
  MaxToc,        \* MAX_TOC_COMPRESSED, 128 MiB
  MaxTocDepth,   \* MAX_TOC_DEPTH, 64
  HeapCuts       \* by how much somebody else may shorten an open file

\* An archive: its bytes; magic, headerLen and tocLen as its header gives them;
\* inflates, whether the table inflates to text; xml; toc, the <file>s in it, or
\* no <toc> at all; whether XML parses.  A <file>: its names (what '/' separates in
\* its decoded name; none when there is no <name>), type, data, link and kids, and
\* the path it is queued under.  Its <data>: offset, length, size and style.

VARIABLES
  file,      \* the archive
  walk,      \* the <file>s still to be met, the next one last
  listing,   \* the entries found so far, each with its place in the heap
  status,    \* "new", "walking", "open", or the error `open` answered
  answers    \* what the last read_entry of each entry answered

vars == <<file, walk, listing, status, answers>>

Init ==
  /\ file \in XarFiles
  /\ walk = <<>>
  /\ listing = <<>>
  /\ status = "new"
  /\ answers = <<>>

----------------------------------------------------------------------------
\* find_from and memchr_from: where pattern next begins, 0 for nowhere.
Find(text, from, pattern) ==
  LET starts == {k \in from .. Len(text) - Len(pattern) + 1 :
                   \A j \in DOMAIN pattern : text[k + j - 1] = pattern[j]}
  IN IF starts = {} THEN 0 ELSE CHOOSE k \in starts : \A j \in starts : k <= j

StartsWith(text, i, pattern) ==
  /\ i + Len(pattern) - 1 <= Len(text)
  /\ \A j \in DOMAIN pattern : text[i + j - 1] = pattern[j]

\* Where the tag that opens at i ends: the first '>' outside quotes.
TagEnd(text, i) ==
  LET end[k \in i + 1 .. Len(text) + 1, quote \in {"", "q", "'"}] ==
        IF k > Len(text) THEN 0
        ELSE IF quote = "" /\ text[k] = ">" THEN k
        ELSE IF quote = "" /\ text[k] \in {"q", "'"} THEN end[k + 1, text[k]]
        ELSE IF text[k] = quote THEN end[k + 1, ""]
        ELSE end[k + 1, quote]
  IN end[i + 1, ""]

\* exceeds_nesting_depth, from position i on; what is malformed is left to the
\* parser.  The double quote is written q, <![CDATA[ is shortened to <![.
ExceedsNestingDepth(text, limit) ==
  LET exceeds[i \in 1 .. Len(text) + 1, depth \in 0..limit] ==
        LET Past(end, n, d) == end # 0 /\ exceeds[end + n, d]
        IN IF i > Len(text) THEN FALSE
           ELSE IF text[i] # "<" THEN exceeds[i + 1, depth]
           ELSE IF StartsWith(text, i, <<"<", "!", "-", "-">>)
                THEN Past(Find(text, i + 4, <<"-", "-", ">">>), 3, depth)
           ELSE IF StartsWith(text, i, <<"<", "!", "[">>)
                THEN Past(Find(text, i + 3, <<"]", "]", ">">>), 3, depth)
           ELSE IF i < Len(text) /\ text[i + 1] \in {"?", "!"}
                THEN Past(Find(text, i + 2, <<">">>), 1, depth)
           ELSE IF i < Len(text) /\ text[i + 1] = "/"
                THEN Past(Find(text, i + 2, <<">">>), 1, IF depth = 0 THEN 0 ELSE depth - 1)
           ELSE LET e == TagEnd(text, i)
                IN IF e = 0 THEN FALSE
                   ELSE IF text[e - 1] = "/" /\ e - 1 > i THEN Past(e, 1, depth)
                   ELSE depth + 1 > limit \/ Past(e, 1, depth + 1)
  IN exceeds[1, 0]

----------------------------------------------------------------------------
\* A name that climbs or is rooted is not safe; what '/' separates in one that
\* is becomes one component, with ':' in its place.
Safe(names) == \A k \in DOMAIN names : names[k] # ".." /\ (k = 1 => names[k] # "")
Component(names) ==
  FoldLeft(LAMBDA s, n : s \o ":" \o n, names[1], Tail(names))

\* codec_from_style
Stored == {"none", "application/octet-stream"}
Packed == {"application/x-gzip", "application/zlib", "application/x-bzip2", "application/x-xz"}

Node == walk[Len(walk)]
Rest == SubSeq(walk, 1, Len(walk) - 1)
Skipped == Node.names = <<>> \/ ~Safe(Node.names)

Kind == CASE Node.type = "directory" -> "dir" [] Node.type = "symlink" -> "link" [] OTHER -> "file"
\* Anything that is not a directory or a link is a file; one without <data> is
\* empty.
HasBody == Kind = "file" /\ Node.hasData
Known == HasBody => Node.data.style \in Stored \union Packed

PathAtHand == Append(Node.parent, Component(Node.names))
EntryAtHand ==
  [path |-> PathAtHand, kind |-> Kind,
   size |-> IF HasBody THEN Node.data.size ELSE 0,
   target |-> IF Kind = "link" THEN Node.link ELSE <<>>,
   item |-> IF HasBody THEN <<Node.data>> ELSE <<>>]

\* Slip: the <file>s below are queued as they stand.
QueueForward(kids, parent) == [k \in DOMAIN kids |-> [kids[k] EXCEPT !.parent = parent]]

\* The <file>s below, in the order in which they will be taken from the end.
Queue(kids, parent) ==
  [k \in DOMAIN kids |->
     [kids[Len(kids) + 1 - k] EXCEPT !.parent = parent]]

----------------------------------------------------------------------------
Refuse(error) ==
  /\ status' = error
  /\ listing' = <<>>
  /\ UNCHANGED <<file, walk, answers>>

\* The heap is sought in: a stream is not taken.
RefuseStream ==
  /\ status = "new" /\ file.stream
  /\ Refuse("Unsupported")

SoundHeader(f) ==
  /\ f.len >= MinHeader /\ f.magic
  /\ f.headerLen >= MinHeader
  /\ f.tocLen \in 1 .. MaxToc
  /\ f.headerLen + f.tocLen <= f.len

SoundToc(f) ==
  /\ f.inflates
  /\ ~ExceedsNestingDepth(f.xml, MaxTocDepth)
  /\ f.parses /\ f.hasToc

RefuseToc ==
  /\ status = "new" /\ ~file.stream
  /\ ~(SoundHeader(file) /\ SoundToc(file))
  /\ Refuse("Corrupt")

Start ==
  /\ status = "new" /\ ~file.stream /\ SoundHeader(file) /\ SoundToc(file)
  /\ walk' = Queue(file.toc, <<>>)
  /\ status' = "walking"
  /\ UNCHANGED <<file, listing, answers>>

\* collect: a <file> without a name, or with an unsafe one, goes with all that
\* is below it.
Skip ==
  /\ status = "walking" /\ walk # <<>> /\ Skipped
  /\ walk' = Rest
  /\ UNCHANGED <<file, listing, status, answers>>

\* A body in an encoding nobody here knows: the archive is not opened at all.
RefuseStyle ==
  /\ status = "walking" /\ walk # <<>> /\ ~Skipped /\ ~Known
  /\ Refuse("Unsupported")

Collect ==
  /\ status = "walking" /\ walk # <<>> /\ ~Skipped /\ Known
  /\ listing' = Append(listing, EntryAtHand)
  /\ walk' = Rest \o Queue(Node.kids, PathAtHand)
  /\ UNCHANGED <<file, status, answers>>

Finish ==
  /\ status = "walking" /\ walk = <<>>
  /\ status' = "open"
  /\ answers' = [i \in DOMAIN listing |-> NotRead]
  /\ UNCHANGED <<file, walk, listing>>

----------------------------------------------------------------------------
HeapAt == file.headerLen + file.tocLen

\* The decoders of other crates: a stream is its length and its bytes; what it
\* gave before it broke off was written.
Unpack(in) ==
  IF in = <<>> THEN Answer("Corrupt", <<>>)
  ELSE LET given == SubSeq(in, 2, in[1] + 1)
       IN IF Len(in) <= in[1] THEN Answer("Corrupt", Tail(in)) ELSE Answer("ok", given)

\* Slip: offsets are taken from the start of the file.
HeapAtStart(d) == Bytes(file, d.offset, Reach(file, d.offset, d.length))

\* What a `take` of its length gives, from its place in the heap.
Raw(d) == Bytes(file, HeapAt + d.offset, Reach(file, HeapAt + d.offset, d.length))

\* read_entry: a stored body is whatever the heap still holds of it, any other
\* what its decoder makes of that.
ReadBody(e) ==
  IF e.item = <<>> THEN Answer("ok", <<>>)
  ELSE IF e.item[1].style \in Stored THEN Answer("ok", Raw(e.item[1]))
  ELSE Unpack(Raw(e.item[1]))

ReadEntry(i) ==
  /\ status = "open"
  /\ answers' = [answers EXCEPT ![i] = ReadBody(listing[i])]
  /\ UNCHANGED <<file, walk, listing, status>>

\* Somebody else cuts the file short while the reader holds it.
Shrink ==
  /\ status = "open" /\ ~file.shrunk
  /\ \E n \in HeapCuts : n <= file.len
                         /\ file' = [file EXCEPT !.len = @ - n, !.shrunk = TRUE]
  /\ UNCHANGED <<walk, listing, status, answers>>

Next ==
  \/ RefuseStream \/ RefuseToc \/ Start
  \/ Skip \/ RefuseStyle \/ Collect \/ Finish
  \/ \E i \in DOMAIN listing : ReadEntry(i)
  \/ Shrink

----------------------------------------------------------------------------
Spec == Init /\ [][Next]_vars
===========================================================================
