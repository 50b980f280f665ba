-------------------------------- MODULE Iso --------------------------------
(***************************************************************************)
(* format/iso.rs: the walk over the directory records of an ISO 9660       *)
(* image.  The cdfs crate reads records, and may panic at those it does    *)
(* not know; this code keeps the extents it has entered, so that a record  *)
(* that leads back does not lead round, and a limit on the depth.          *)
(***************************************************************************)
EXTENDS StoredFile, SequencesExt

CONSTANTS
  IsoImages,     \* the images
  MaxIsoDepth,   \* MAX_ISO_DEPTH, 32
  IsoCuts        \* by how much somebody else may shorten an open file

\* A record: its name ("" for what cdfs cannot decode), kind, the extent it leads
\* to, the size of its body, its target, and whether cdfs reads it, refuses it or
\* panics at it.
Record == [name : STRING, kind : {"file", "dir", "link"}, extent : Nat, size : Nat,
           target : Seq(STRING), reads : {"ok", "Corrupt", "Io", "panic"}]

\* An image: its bytes; whether it has the CD001 descriptor and whether that is
\* inside it; whether cdfs opens it; the extents of its directories.
IsoImage(f) ==
  /\ f.len \in Nat /\ Sparse(f.byte, Nat)
  /\ f.stream \in BOOLEAN /\ f.described \in BOOLEAN /\ f.opens \in BOOLEAN
  /\ f.descriptorEnd \in Nat /\ f.root \in Nat
  /\ f.extents = [e \in DOMAIN f.extents |-> f.extents[e]]
  /\ f.root \in DOMAIN f.extents
  /\ \A e \in DOMAIN f.extents :
       /\ f.extents[e] \in Seq(Record)
       /\ \A k \in DOMAIN f.extents[e] :
            f.extents[e][k].kind = "dir" => f.extents[e][k].extent \in DOMAIN f.extents

IsoAssumption ==
  /\ \A f \in IsoImages : IsoImage(f)
  /\ MaxIsoDepth \in Nat /\ IsoCuts \subseteq Nat

VARIABLES
  file,      \* the image
  walk,      \* the directories being walked, the root first, and the extents met
  listing,   \* the entries found so far, each with the extent of its body
  status,    \* "new", "walking", "open", or the error `open` answered
  answers    \* what the last read_entry of each entry answered

vars == <<file, walk, listing, status, answers>>

Init ==
  /\ file \in IsoImages
  /\ walk = [stack |-> <<>>, visited |-> {}]
  /\ listing = <<>>
  /\ status = "new"
  /\ answers = <<>>

----------------------------------------------------------------------------
Top == walk.stack[Len(walk.stack)]
Depth == Len(walk.stack) - 1
Records == file.extents[Top.extent]
Rec == Records[Top.next]

\* The two records every directory has for itself and its parent; a name that
\* cannot be decoded counts as one of them.
Self(name) == name \in {"", ".", ".."}

EntryAtHand ==
  [path |-> Append(Top.prefix, Rec.name), kind |-> Rec.kind, extent |-> Rec.extent,
   size |-> IF Rec.kind = "file" THEN Rec.size ELSE 0,
   target |-> IF Rec.kind = "link" THEN Rec.target ELSE <<>>]

\* Slip: a directory is entered whenever a record leads to it.
DescendsAgain == Rec.kind = "dir"

\* A directory is entered the first time its extent is met.
Descends == Rec.kind = "dir" /\ Rec.extent \notin walk.visited

Advanced == [walk.stack EXCEPT ![Len(walk.stack)].next = @ + 1]
Below == [extent |-> Rec.extent, prefix |-> Append(Top.prefix, Rec.name), next |-> 1]

----------------------------------------------------------------------------
Refuse(error) ==
  /\ status' = error
  /\ listing' = <<>>
  /\ UNCHANGED <<file, walk, answers>>

RefuseStream ==
  /\ status = "new" /\ file.stream
  /\ Refuse("Unsupported")

\* cd001_matches: too short for a descriptor is an error of its own.
NoDescriptor ==
  /\ status = "new" /\ ~file.stream
  /\ \/ file.len < file.descriptorEnd /\ Refuse("Io")
     \/ file.len >= file.descriptorEnd /\ ~file.described /\ Refuse("UnknownFormat")

Described == file.len >= file.descriptorEnd /\ file.described

CannotOpen ==
  /\ status = "new" /\ ~file.stream /\ Described /\ ~file.opens
  /\ Refuse("Corrupt")

Start ==
  /\ status = "new" /\ ~file.stream /\ Described /\ file.opens
  /\ walk' = [stack |-> <<[extent |-> file.root, prefix |-> <<>>, next |-> 1]>>,
              visited |-> {file.root}]
  /\ status' = "walking"
  /\ UNCHANGED <<file, listing, answers>>

----------------------------------------------------------------------------
Walking == status = "walking" /\ walk.stack # <<>>
AtRecord == Walking /\ Depth <= MaxIsoDepth /\ Top.next <= Len(Records)

TooDeep == Walking /\ Depth > MaxIsoDepth /\ Refuse("Corrupt")

\* catch_iso_panic: a panic of cdfs is an error like any other.
CannotRead ==
  /\ AtRecord /\ Rec.reads # "ok"
  /\ Refuse(IF Rec.reads = "panic" THEN "Corrupt" ELSE Rec.reads)

PassSelf ==
  /\ AtRecord /\ Rec.reads = "ok" /\ Self(Rec.name)
  /\ walk' = [walk EXCEPT !.stack = Advanced]
  /\ UNCHANGED <<file, listing, status, answers>>

\* One record of walk_dir.  A directory that has been met is listed, for its
\* name is real, and not entered.
Visit ==
  /\ AtRecord /\ Rec.reads = "ok" /\ ~Self(Rec.name)
  /\ listing' = Append(listing, EntryAtHand)
  /\ walk' = IF Descends
             THEN [stack |-> Append(Advanced, Below), visited |-> walk.visited \union {Rec.extent}]
             ELSE [walk EXCEPT !.stack = Advanced]
  /\ UNCHANGED <<file, status, answers>>

Leave ==
  /\ Walking /\ Depth <= MaxIsoDepth /\ Top.next > Len(Records)
  /\ walk' = [walk EXCEPT !.stack = SubSeq(@, 1, Len(@) - 1)]
  /\ UNCHANGED <<file, listing, status, answers>>

Finish ==
  /\ status = "walking" /\ walk.stack = <<>>
  /\ status' = "open"
  /\ answers' = [i \in DOMAIN listing |-> NotRead]
  /\ UNCHANGED <<file, walk, listing>>

----------------------------------------------------------------------------
\* The crate's reader starts at the body's first byte every time; where the
\* file ends too soon it fails after what it could give.
ReadBody(e) ==
  IF e.kind # "file" THEN Answer("ok", <<>>)
  ELSE LET given == Bytes(file, e.extent, Reach(file, e.extent, e.size))
       IN Answer(IF Len(given) = e.size THEN "ok" ELSE "Io", given)

ReadEntry(i) ==
  /\ status = "open"
  /\ answers' = [answers EXCEPT ![i] = ReadBody(listing[i])]
  /\ UNCHANGED <<file, walk, listing, status>>

\* Somebody else cuts the file short while the reader holds it.
Shrink ==
  /\ status = "open" /\ ~file.shrunk
  /\ \E n \in IsoCuts : n <= file.len
                        /\ file' = [file EXCEPT !.len = @ - n, !.shrunk = TRUE]
  /\ UNCHANGED <<walk, listing, status, answers>>

Next ==
  \/ RefuseStream \/ NoDescriptor \/ CannotOpen \/ Start
  \/ TooDeep \/ CannotRead \/ PassSelf \/ Visit \/ Leave \/ Finish
  \/ \E i \in DOMAIN listing : ReadEntry(i)
  \/ Shrink

----------------------------------------------------------------------------
\* No directory is walked inside itself, at any depth: the stack never holds
\* one extent twice, and never more than the limit and one.
NeverInsideItself ==
  /\ Len(walk.stack) <= MaxIsoDepth + 2
  /\ \A k \in DOMAIN walk.stack : walk.stack[k].extent \in walk.visited
  /\ \A j, k \in DOMAIN walk.stack :
       walk.stack[j].extent = walk.stack[k].extent => j = k

\* Every entry below the root comes after the directory it is in.
ParentsFirst ==
  \A i \in DOMAIN listing :
    LET path == listing[i].path IN
    \/ Len(path) = 1
    \/ \E j \in 1 .. i - 1 : /\ listing[j].kind = "dir"
                             /\ path = Append(listing[j].path, path[Len(path)])

Spec == Init /\ [][Next]_vars
===========================================================================
