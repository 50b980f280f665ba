------------------------------- MODULE Apfs -------------------------------
(***************************************************************************)
(* format/apfs.rs: the walk over the directories of an APFS volume, which  *)
(* may begin anywhere in an image.  The apfs-core crate finds the volume,  *)
(* a directory's records and a file's bytes; the walk down the tree, its   *)
(* two limits and the listing are this code's own.                         *)
(*                                                                         *)
(* An image's bytes hold, at ApfsMagicAt from where its container begins,  *)
(* the mark of the volume in it: Volumes says what each mark stands for.   *)
(***************************************************************************)
EXTENDS StoredFile, SequencesExt

CONSTANTS
  ApfsImages,   \* the images
  Volumes,      \* what is behind each mark
  ApfsMagicAt,  \* APFS_MAGIC_OFFSET, 32
  MaxDepth,     \* MAX_APFS_DEPTH, 256
  MaxEntries    \* MAX_APFS_ENTRIES, 1000000

\* An inode; a packed one (decmpfs) has its bytes compressed and its size in
\* the header of what is stored, and sound says that this header, or a link's
\* target, can be read.
Inode == [kind : {"file", "dir", "link"}, size : Nat, packed : BOOLEAN, real : Nat,
          sound : BOOLEAN, target : Seq(STRING), at : Nat, stored : Nat]

ApfsVolume(v) ==
  /\ v.mounts \in BOOLEAN /\ v.root \in Nat
  /\ v.dirs = [d \in DOMAIN v.dirs |-> v.dirs[d]]
  /\ \A d \in DOMAIN v.dirs : v.dirs[d] \in Seq([name : STRING, id : Nat])
  /\ v.inodes = [d \in DOMAIN v.inodes |-> v.inodes[d]]
  /\ \A d \in DOMAIN v.inodes :
       v.inodes[d] \in Inode /\ (v.inodes[d].packed => v.inodes[d].stored > 0)

ApfsImage(f) ==
  /\ f.len \in Nat /\ Sparse(f.byte, Nat)
  /\ f.offset \in Nat /\ f.path \in BOOLEAN

ASSUME ApfsAssumption ==
  /\ \A f \in ApfsImages : ApfsImage(f)
  /\ \A m \in DOMAIN Volumes : Volumes[m].fs = "apfs" => ApfsVolume(Volumes[m])
  /\ ApfsMagicAt \in Nat /\ MaxDepth \in Nat /\ MaxEntries \in Nat

VARIABLES
  file,      \* the image, and where in it the container begins
  walk,      \* the directories being walked, the root first
  listing,   \* the entries found so far, each with its inode's number
  status,    \* "new", "walking", "open", or the error `open` answered
  answers    \* what the last read_entry of each entry answered

vars == <<file, walk, listing, status, answers>>

\* One directory being walked: its number, the path of what is in it, and which
\* of its records is next; 0 before the records have been asked for.
Frame == [dir : Nat, prefix : Seq(STRING), next : Nat]

Init ==
  /\ file \in ApfsImages
  /\ walk = <<>>
  /\ listing = <<>>
  /\ status = "new"
  /\ answers = <<>>

----------------------------------------------------------------------------
\* OffsetReader: positions counted from base, nothing past the file's end.
Through(f, base, p, n) == Bytes(f, base + p, Reach(f, base + p, n))

\* The container's signature is looked for before the crate sees the image.
Mark == ByteAt(file, file.offset + ApfsMagicAt)
Signed ==
  /\ file.offset + ApfsMagicAt < file.len
  /\ Mark \in DOMAIN Volumes /\ Volumes[Mark].fs = "apfs"
Volume == Volumes[Mark]

Top == walk[Len(walk)]
Depth == Len(walk) - 1
Listable == Top.dir \in DOMAIN Volume.dirs
Children == Volume.dirs[Top.dir]

\* The record at hand, and the inode it names.
Rec == Children[Top.next]
Loads == Rec.id \in DOMAIN Volume.inodes /\ Volume.inodes[Rec.id].sound
Found == Volume.inodes[Rec.id]

\* file_size: a packed file's inode has no size of its own.
FileSize(inode) == IF inode.packed THEN inode.real ELSE inode.size

EntryAtHand ==
  [path |-> Append(Top.prefix, Rec.name), kind |-> Found.kind, id |-> Rec.id,
   size |-> IF Found.kind = "file" THEN FileSize(Found) ELSE 0,
   target |-> IF Found.kind = "link" THEN Found.target ELSE <<>>]

Advanced == [walk EXCEPT ![Len(walk)].next = @ + 1]

\* Slip: what lies below is named after its directory alone.
BelowByName == [dir |-> Rec.id, prefix |-> <<Rec.name>>, next |-> 0]

Below == [dir |-> Rec.id, prefix |-> Append(Top.prefix, Rec.name), next |-> 0]

----------------------------------------------------------------------------
Refuse(error) ==
  /\ status' = error
  /\ listing' = <<>>
  /\ UNCHANGED <<file, walk, answers>>

\* Only a file with a path can be opened again by the crate's reader.
RefusePathless ==
  /\ status = "new" /\ ~file.path
  /\ Refuse("Unsupported")

RefuseUnsigned ==
  /\ status = "new" /\ file.path /\ ~Signed
  /\ Refuse("UnknownFormat")

\* mount_first_volume
CannotMount ==
  /\ status = "new" /\ file.path /\ Signed /\ ~Volume.mounts
  /\ Refuse("Corrupt")

Mount ==
  /\ status = "new" /\ file.path /\ Signed /\ Volume.mounts
  /\ walk' = <<[dir |-> Volume.root, prefix |-> <<>>, next |-> 0]>>
  /\ status' = "walking"
  /\ UNCHANGED <<file, listing, answers>>

----------------------------------------------------------------------------
\* walk_tree, as it is entered for one directory ...
Walking == status = "walking" /\ walk # <<>>
Entering == Walking /\ Top.next = 0

Enter ==
  /\ Entering /\ Depth <= MaxDepth /\ Listable
  /\ walk' = Advanced
  /\ UNCHANGED <<file, listing, status, answers>>

TooDeep ==
  /\ Entering /\ Depth > MaxDepth
  /\ Refuse("Corrupt")

CannotList ==
  /\ Entering /\ Depth <= MaxDepth /\ ~Listable
  /\ Refuse("Corrupt")

\* ... for each of its records ...
Visiting == Walking /\ Top.next # 0 /\ Top.next <= Len(Children)

\* Slip: the limit is looked at too late by one.
FullAfter == Len(listing) > MaxEntries

Full == Len(listing) >= MaxEntries

TooMany ==
  /\ Visiting /\ Full
  /\ Refuse("Corrupt")

CannotLoad ==
  /\ Visiting /\ ~Full /\ ~Loads
  /\ Refuse("Corrupt")

Visit ==
  /\ Visiting /\ ~Full /\ Loads
  /\ listing' = Append(listing, EntryAtHand)
  /\ walk' = IF Found.kind = "dir" THEN Append(Advanced, Below) ELSE Advanced
  /\ UNCHANGED <<file, status, answers>>

\* ... and left.
Leave ==
  /\ Walking /\ Top.next # 0 /\ Top.next > Len(Children)
  /\ walk' = SubSeq(walk, 1, Len(walk) - 1)
  /\ UNCHANGED <<file, listing, status, answers>>

Finish ==
  /\ status = "walking" /\ walk = <<>>
  /\ status' = "open"
  /\ answers' = [i \in DOMAIN listing |-> NotRead]
  /\ UNCHANGED <<file, walk, listing>>

----------------------------------------------------------------------------
\* The crate's read_data, which unpacks what is packed: a packed body is its
\* length and its bytes.
ReadData(inode) ==
  LET raw == Through(file, file.offset, inode.at, inode.stored)
  IN CASE Len(raw) < inode.stored -> Answer("Corrupt", <<>>)
       [] Len(raw) = inode.stored /\ ~inode.packed -> Answer("ok", raw)
       [] OTHER -> Answer("ok", Tail(raw))

\* read_entry: the inode is loaded again by its number.
ReadBody(e) ==
  IF e.kind # "file" THEN Answer("ok", <<>>) ELSE ReadData(Volume.inodes[e.id])

ReadEntry(i) ==
  /\ status = "open"
  /\ answers' = [answers EXCEPT ![i] = ReadBody(listing[i])]
  /\ UNCHANGED <<file, walk, listing, status>>

Next ==
  \/ RefusePathless \/ RefuseUnsigned \/ CannotMount \/ Mount
  \/ Enter \/ TooDeep \/ CannotList
  \/ TooMany \/ CannotLoad \/ Visit
  \/ Leave \/ Finish
  \/ \E i \in DOMAIN listing : ReadEntry(i)

----------------------------------------------------------------------------
Entry == [path : Seq(STRING), kind : {"file", "dir", "link"}, id : Nat, size : Nat,
          target : Seq(STRING)]

TypeOK ==
  /\ ApfsImage(file)
  /\ walk \in Seq(Frame)
  /\ status = "walking" => Signed
  /\ listing \in Seq(Entry)
  /\ answers \in Seq(Answers)
  /\ status \in {"new", "walking", "open", "Corrupt", "UnknownFormat", "Unsupported"}

\* Whatever graph the directory records make, a cycle among them too, the walk
\* never holds more directories than its limit and one, nor lists more entries
\* than its limit.
WalkIsBounded ==
  /\ Len(walk) <= MaxDepth + 2
  /\ Len(listing) <= MaxEntries

\* Every entry below the root comes after the directory it is in: who extracts
\* in order never meets a file whose directory was not listed.  (In Trees this
\* is asked of every reader's listing.)
ParentsFirst ==
  \A i \in DOMAIN listing :
    LET path == listing[i].path IN
    \/ Len(path) = 1
    \/ \E j \in 1 .. i - 1 : /\ listing[j].kind = "dir"
                             /\ path = Append(listing[j].path, path[Len(path)])

Spec == Init /\ [][Next]_vars
===========================================================================
