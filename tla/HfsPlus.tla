------------------------------ MODULE HfsPlus ------------------------------
(***************************************************************************)
(* format/hfsplus.rs: an HFS+ volume, which may begin anywhere in a mapped *)
(* image.  The hfsplus-forensic crate walks the catalog; what it found is  *)
(* looked up record by record, and the volume's own two directories are    *)
(* left out.                                                               *)
(*                                                                         *)
(* As in Apfs, the byte at the volume header's place marks the volume.     *)
(***************************************************************************)
EXTENDS StoredFile, SequencesExt

CONSTANTS
  HfsImages,        \* the images
  Volumes,          \* what is behind each mark
  VolumeHeaderAt,   \* VOLUME_HEADER_OFFSET, 1024
  PrivateDirs       \* HFS_PRIVATE_DIRS

\* A volume: [fs, walks, found, record].  The crate walks the catalog or does
\* not; found is what it comes by, in order, each [path, id]; record gives an
\* id's [kind, size, at, stored, packed, decodes].

VARIABLES
  file,      \* the image, and where in it the volume begins
  walk,      \* unused: the crate walks at once
  listing,   \* the entries, each with its catalog number
  status,    \* "new", "open", or the error `open` answered
  answers    \* what the last read_entry of each entry answered

vars == <<file, walk, listing, status, answers>>

Init ==
  /\ file \in HfsImages
  /\ walk = <<>>
  /\ listing = <<>>
  /\ status = "new"
  /\ answers = <<>>

----------------------------------------------------------------------------
Mark == ByteAt(file, file.offset + VolumeHeaderAt)
Signed ==
  /\ file.offset + VolumeHeaderAt < file.len
  /\ Mark \in DOMAIN Volumes /\ Volumes[Mark].fs = "hfs"
Volume == Volumes[Mark]

\* is_hfs_private: at the root only, with all that is below.
IsHfsPrivate(path) == path # <<>> /\ path[1] \in PrivateDirs

Public(found) == {w \in Range(found) : ~IsHfsPrivate(w.path)}
Visible == Among(Volume.found, Public(Volume.found))
Recorded == \A i \in DOMAIN Visible : Visible[i].id \in DOMAIN Volume.record

\* The crate's read_file, which unpacks what is packed.
ReadFile(id) ==
  LET r == Volume.record[id]
      raw == Bytes(file, file.offset + r.at, r.stored)
  IN IF ~r.decodes \/ file.offset + r.at + r.stored > file.len THEN Answer("Corrupt", <<>>)
     ELSE Answer("ok", IF r.packed THEN Tail(raw) ELSE raw)

\* build_entries: a link's target is its body, or nothing.
EntryOf(w) ==
  LET r == Volume.record[w.id]
  IN [path |-> w.path, kind |-> r.kind, id |-> w.id,
      size |-> IF r.kind = "file" THEN r.size ELSE 0,
      target |-> IF r.kind = "link" THEN ReadFile(w.id).given ELSE <<>>]

----------------------------------------------------------------------------
Refuse(error) ==
  /\ status' = error
  /\ UNCHANGED <<file, walk, listing, answers>>

\* A source without a path cannot be mapped.
RefusePathless ==
  /\ status = "new" /\ ~file.path
  /\ Refuse("Unsupported")

RefuseUnsigned ==
  /\ status = "new" /\ file.path /\ ~Signed
  /\ Refuse("UnknownFormat")

\* The catalog cannot be walked, or has no record for what it lists.
RefuseCatalog ==
  /\ status = "new" /\ file.path /\ Signed
  /\ ~Volume.walks \/ ~Recorded
  /\ Refuse("Corrupt")

Open ==
  /\ status = "new" /\ file.path /\ Signed /\ Volume.walks /\ Recorded
  /\ listing' = [i \in DOMAIN Visible |-> EntryOf(Visible[i])]
  /\ answers' = [i \in DOMAIN Visible |-> NotRead]
  /\ status' = "open"
  /\ UNCHANGED <<file, walk>>

\* read_entry: what cannot be decoded is an error, never an empty body.
ReadEntry(i) ==
  /\ status = "open"
  /\ answers' = [answers EXCEPT ![i] =
       IF listing[i].kind # "file" THEN Answer("ok", <<>>) ELSE ReadFile(listing[i].id)]
  /\ UNCHANGED <<file, walk, listing, status>>

Next ==
  \/ RefusePathless \/ RefuseUnsigned \/ RefuseCatalog \/ Open
  \/ \E i \in DOMAIN listing : ReadEntry(i)

Spec == Init /\ [][Next]_vars
===========================================================================
