-------------------------------- MODULE Tar --------------------------------
(***************************************************************************)
(* format/tar.rs: a tar indexed once by the tar crate.  Where the archive  *)
(* is a file with a name its bodies stay in it; anything else is taken     *)
(* into memory whole before it is indexed.                                 *)
(***************************************************************************)
EXTENDS StoredFile

CONSTANTS
  TarFiles,    \* the archives
  Clippings    \* by how much somebody else may shorten an open file

\* A member: [path, kind, header, at, size, content], where its header and its
\* body are.  An archive: [format, len, byte, members, source, damage], source
\* being "path", "pathless" or "stream".

VARIABLES
  file,      \* the archive
  backing,   \* what bodies are read from: the file, or its bytes as they were
  listing,   \* the entries, each with its offset
  status,    \* "new", "open", or the error `open` answered
  answers    \* what the last read_entry of each entry answered

vars == <<file, backing, listing, status, answers>>

Unbacked == [kind |-> "none", len |-> 0]

Init ==
  /\ file \in TarFiles
  /\ backing = Unbacked
  /\ listing = <<>>
  /\ status = "new"
  /\ answers = <<>>

----------------------------------------------------------------------------
\* The tar crate: the members whose headers the file still holds, in order; the
\* last may have lost some of its body, which the crate finds out as it skips it.
Reached == {i \in DOMAIN file.members : file.members[i].header < file.len}
Torn == \E i \in Reached : file.members[i].at + file.members[i].size > file.len

\* index_from_reader and build_entries.
EntryOf(m) == [path |-> m.path, kind |-> m.kind, size |-> m.size, at |-> m.at,
               target |-> IF m.kind = "link" THEN m.content ELSE <<>>]

Refuse ==
  /\ status = "new" /\ Torn
  /\ status' = "Corrupt"
  /\ UNCHANGED <<file, backing, listing, answers>>

Open ==
  /\ status = "new" /\ ~Torn
  /\ backing' = [kind |-> IF file.source = "path" THEN "file" ELSE "buffer", len |-> file.len]
  /\ listing' = [i \in Reached |-> EntryOf(file.members[i])]
  /\ answers' = [i \in Reached |-> NotRead]
  /\ status' = "open"
  /\ UNCHANGED file

\* What was taken into memory has the length it had then.
Buffered == [file EXCEPT !.len = backing.len]

\* read_entry: exactly the bytes promised, from the file or from the buffer.
ReadBody(e) ==
  IF backing.kind = "file" THEN ReadStored(file, e.at, e.size)
  ELSE IF e.at + e.size > backing.len THEN Answer("Corrupt", <<>>)
  ELSE ReadStored(Buffered, e.at, e.size)

ReadEntry(i) ==
  /\ status = "open"
  /\ answers' = [answers EXCEPT ![i] = ReadBody(listing[i])]
  /\ UNCHANGED <<file, backing, listing, status>>

\* Somebody else cuts the file short while the reader is open.
Shrink ==
  /\ status = "open" /\ file.len = backing.len /\ file.source # "stream"
  /\ \E n \in Clippings : n <= file.len /\ file' = [file EXCEPT !.len = @ - n]
  /\ UNCHANGED <<backing, listing, status, answers>>

Next ==
  \/ Refuse \/ Open
  \/ \E i \in DOMAIN listing : ReadEntry(i)
  \/ Shrink

Spec == Init /\ [][Next]_vars
===========================================================================
