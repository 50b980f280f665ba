-------------------------------- MODULE Zip --------------------------------
(***************************************************************************)
(* format/zip.rs: a zip, or a bundle that is one, read through the zip     *)
(* crate.  The central directory is the crate's; what it does with a       *)
(* member is external and marked so.                                       *)
(*                                                                         *)
(* A member's lock is the password it is encrypted under, or NoPassword; a *)
(* weak lock (ZipCrypto) checks the password by one byte only.             *)
(***************************************************************************)
EXTENDS StoredFile, FiniteSets

CONSTANT ZipFiles   \* the archives, each with the password the caller gives

NoPassword == "none"

\* A member: [path, kind, content, lock, weak, lzma, props, sound], props being
\* whether an LZMA member has properties of the usual size.  An archive:
\* [format, members, password, stream, directory, damage], directory being
\* whether the crate finds a central directory.

VARIABLES
  file,      \* the archive
  verdict,   \* what verify_password last answered
  listing,   \* the entries
  status,    \* "new", "open", or the error `open` answered
  answers    \* what the last read_entry of each entry answered

vars == <<file, verdict, listing, status, answers>>

Init ==
  /\ file \in ZipFiles
  /\ verdict = ""
  /\ listing = <<>>
  /\ status = "new"
  /\ answers = <<>>

----------------------------------------------------------------------------
Locked(m) == m.lock # NoPassword

\* by_index and a read to its end.  The crate cannot read LZMA members.
ByIndex(m) ==
  IF Locked(m) THEN Answer("Encrypted", <<>>)
  ELSE IF m.lzma \/ ~m.sound THEN Answer("Io", <<>>)
  ELSE Answer("ok", m.content)

\* Whether by_index_decrypt takes a password.
Takes(m, password) ==
  IF password = m.lock THEN {TRUE} ELSE IF m.weak THEN BOOLEAN ELSE {FALSE}

\* What the decrypted member reads as: with the wrong password, garbage that
\* fails its check at the end.
Decrypted(m, password) ==
  IF password = m.lock /\ m.sound /\ ~m.lzma THEN Answer("ok", m.content)
  ELSE Answer("Io", <<>>)

----------------------------------------------------------------------------
\* The second pass reads the targets of links as best it can.
TargetOf(m) == IF ByIndex(m).said = "ok" THEN m.content ELSE <<>>

EntryOf(m) ==
  [path |-> m.path, kind |-> m.kind, size |-> Len(m.content), encrypted |-> Locked(m),
   lzma |-> m.lzma, target |-> IF m.kind = "link" THEN TargetOf(m) ELSE <<>>]

\* open_zip needs to seek, and needs a central directory.
Refuse ==
  /\ status = "new"
  /\ file.stream \/ ~file.directory
  /\ status' = IF file.stream THEN "Unsupported" ELSE "Corrupt"
  /\ UNCHANGED <<file, verdict, listing, answers>>

Open ==
  /\ status = "new" /\ ~file.stream /\ file.directory
  /\ status' = "open"
  /\ listing' = [i \in DOMAIN file.members |-> EntryOf(file.members[i])]
  /\ answers' = [i \in DOMAIN file.members |-> NotRead]
  /\ UNCHANGED <<file, verdict>>

Encrypted == {i \in DOMAIN listing : listing[i].encrypted}
FirstEncrypted == CHOOSE i \in Encrypted : \A j \in Encrypted : i <= j

\* verify_password tries the first encrypted entry, without reading it.
Verdicts ==
  IF Encrypted = {} THEN {"ok"}
  ELSE IF file.password = NoPassword THEN {"Encrypted"}
  ELSE {IF t THEN "ok" ELSE "WrongPassword" :
          t \in Takes(file.members[FirstEncrypted], file.password)}

VerifyPassword ==
  /\ status = "open"
  /\ verdict' \in Verdicts
  /\ UNCHANGED <<file, listing, status, answers>>

\* decode_zip_lzma: the crate's decoder cannot, so the member is decoded here,
\* from its raw bytes, to the size the directory gives.
DecodeLzma(m) ==
  IF ~m.props THEN Answer("Unsupported", <<>>)
  ELSE IF ~m.sound THEN Answer("Corrupt", <<>>)
  ELSE Answer("ok", m.content)

\* read_entry
ReadMember(m) ==
  IF m.lzma THEN {IF Locked(m) THEN Answer("Unsupported", <<>>) ELSE DecodeLzma(m)}
  ELSE IF ~Locked(m) THEN {ByIndex(m)}
  ELSE IF file.password = NoPassword THEN {Answer("Encrypted", <<>>)}
  ELSE {IF t THEN Decrypted(m, file.password) ELSE Answer("WrongPassword", <<>>) :
          t \in Takes(m, file.password)}

ReadEntry(i) ==
  /\ status = "open"
  /\ \E a \in ReadMember(file.members[i]) : answers' = [answers EXCEPT ![i] = a]
  /\ UNCHANGED <<file, verdict, listing, status>>

Next ==
  \/ Refuse \/ Open
  \/ VerifyPassword
  \/ \E i \in DOMAIN listing : ReadEntry(i)

Spec == Init /\ [][Next]_vars
===========================================================================
