------------------------------- MODULE Cpio -------------------------------
(***************************************************************************)
(* format/cpio.rs: the walk over the headers of a cpio archive in its      *)
(* three ASCII dialects, and the reader that then reads bodies where they  *)
(* lie.                                                                    *)
(*                                                                         *)
(* A file keeps, beside its bytes, the header that starts at each of its   *)
(* record positions.  A header field is a sequence of cells: a digit's     *)
(* value, Pad for a space or NUL, any other number for anything else.      *)
(***************************************************************************)
EXTENDS StoredFile, SequencesExt

CONSTANTS
  CpioFiles,    \* the archives
  SumModulus,   \* 2^32: the width of the crc dialect's sum
  Cuts          \* by how much somebody else may shorten an open file

Pad == -1
None == -1

HeaderLen == [newc |-> 110, crc |-> 110, odc |-> 76]
Base == [newc |-> 16, crc |-> 16, odc |-> 8]
Dialects == DOMAIN HeaderLen
MagicLen == 6
Trailer == <<"TRAILER!!!">>

Header == [magic : STRING, type : {"reg", "dir", "link", "other"}, plain : BOOLEAN,
           filesize : Seq(Int), namesize : Seq(Int), check : Seq(Int), name : Seq(STRING)]

\* A file's length, its headers by position, its bytes, and whether it comes as
\* a stream; what its writer put in it (members) and what has happened to it since
\* (damage) are for the properties only, as format is where other readers share
\* the variables.
CpioFile(f) ==
  /\ HasFields(f, {"format", "len", "rec", "byte", "stream"})
  /\ f.len \in Nat /\ Sparse(f.rec, Header) /\ Sparse(f.byte, Nat)
  /\ f.stream \in BOOLEAN /\ f.format = "cpio"

ASSUME CpioAssumption ==
  /\ \A f \in CpioFiles : CpioFile(f)
  /\ SumModulus \in Nat \ {0} /\ Cuts \subseteq Nat

VARIABLES
  file,      \* the archive
  scan,      \* the walk: where it takes the record to be, where its reader is
  listing,   \* the entries found so far, with their bodies
  status,    \* "new", "walking", "open", or the error `open` answered
  answers    \* what the last read_entry of each entry answered

vars == <<file, scan, listing, status, answers>>

Idle == [dialect |-> "", pos |-> 0, at |-> 0, len |-> 0]

Init ==
  /\ file \in CpioFiles
  /\ scan = Idle
  /\ listing = <<>>
  /\ status = "new"
  /\ answers = <<>>

----------------------------------------------------------------------------
\* parse_hex and parse_octal: padding before the digits is skipped, padding
\* after them ends the number, anything else spoils it.
Number(field, base) ==
  LET solid == {k \in DOMAIN field : field[k] # Pad}
      first == CHOOSE k \in solid : \A j \in solid : k <= j
      ends == {k \in first .. Len(field) : field[k] = Pad} \union {Len(field) + 1}
      digits == SubSeq(field, first, (CHOOSE k \in ends : \A j \in ends : k <= j) - 1)
  IN IF solid = {} \/ \E k \in DOMAIN digits : digits[k] \notin 0 .. base - 1
     THEN None
     ELSE FoldLeft(LAMBDA v, d : (v * base) + d, 0, digits)

\* pad4: what brings n up to a multiple of four.
Pad4(n) == (4 - (n % 4)) % 4

\* body_checksum: the bytes added up, wrapping.
Sum(bytes) == FoldLeft(LAMBDA v, b : (v + b) % SumModulus, 0, bytes)

----------------------------------------------------------------------------
\* The record at hand: hdr is what the reader finds where it is, positions are
\* counted from where the walk takes the record to begin.
There == scan.at \in DOMAIN file.rec
hdr == file.rec[scan.at]
Dialect == scan.dialect
FileSize == Number(hdr.filesize, Base[Dialect])
NameSize == Number(hdr.namesize, Base[Dialect])
Check == IF Dialect = "crc" THEN Number(hdr.check, Base[Dialect]) ELSE None

AfterHeader == scan.pos + HeaderLen[Dialect]
AfterName == AfterHeader + NameSize

\* Slip: the name's padding is counted from the name.
NamePadFromName == IF Dialect = "odc" THEN 0 ELSE Pad4(NameSize)

\* The name's padding is counted from the start of the record, the body's from
\* the body; odc has neither.
NamePad == IF Dialect = "odc" THEN 0 ELSE Pad4(HeaderLen[Dialect] + NameSize)
BodyPad == IF Dialect = "odc" THEN 0 ELSE Pad4(FileSize)

BodyStart == AfterName + NamePad
AfterBody == BodyStart + FileSize
NextRecord == AfterBody + BodyPad

\* advance: no length may lead past the end the file had when it was opened.
Fits(end) == end <= scan.len

\* The header is there, starts with the dialect's magic, its fields are
\* numbers, and its name is inside the file.
SoundHeader ==
  /\ Fits(AfterHeader)
  /\ There /\ hdr.magic = Dialect
  /\ hdr.plain
  /\ FileSize \in Nat /\ NameSize \in Nat
  /\ Dialect = "crc" => Check \in Nat
  /\ NameSize > 0
  /\ Fits(AfterName)

\* Slip: what lies past the name is left to the next header to find out.
BodyNotChecked == FileSize \in Nat

SoundBody == Fits(BodyStart) /\ Fits(AfterBody) /\ Fits(NextRecord)

\* skip_to: a relative seek, never backwards.
Skip(from, target) == IF target > from THEN target - from ELSE 0

\* The reader is after the name; a link's target is read, the rest is skipped.
ReaderMoves ==
  HeaderLen[Dialect] + NameSize +
  IF hdr.type = "link"
  THEN Skip(AfterName, BodyStart) + FileSize + Skip(AfterBody, NextRecord)
  ELSE Skip(AfterName, NextRecord)

\* build_entries: one leading "./" is dropped.
PathOf(name) == IF Len(name) > 1 /\ name[1] = "." THEN Tail(name) ELSE name

FileEntry == [path |-> PathOf(hdr.name), kind |-> "file", size |-> FileSize,
              at |-> BodyStart, sum |-> Check, target |-> <<>>]
DirEntry == [FileEntry EXCEPT !.kind = "dir", !.size = 0, !.at = 0, !.sum = None]
LinkEntry ==
  [FileEntry EXCEPT !.kind = "link", !.at = 0, !.sum = None,
     !.target = TrimNuls(Bytes(file, scan.at + HeaderLen[Dialect] + NameSize
                                       + Skip(AfterName, BodyStart), FileSize))]

\* Device nodes, pipes and sockets are passed over.
Listed ==
  CASE hdr.type = "reg"  -> Append(listing, FileEntry)
    [] hdr.type = "dir"  -> Append(listing, DirEntry)
    [] hdr.type = "link" -> Append(listing, LinkEntry)
    [] OTHER           -> listing

----------------------------------------------------------------------------
\* How a walk ends.
Refuse(error) ==
  /\ status' = error
  /\ listing' = <<>>
  /\ UNCHANGED <<file, scan, answers>>

Opened ==
  /\ status' = "open"
  /\ answers' = [k \in DOMAIN listing |-> NotRead]
  /\ UNCHANGED <<file, scan, listing>>

\* open_seekable: the leading magic picks the walk.
Start ==
  /\ status = "new"
  /\ file.len >= MagicLen /\ 0 \in DOMAIN file.rec
  /\ file.rec[0].magic \in Dialects
  /\ scan' = [dialect |-> file.rec[0].magic, pos |-> 0, at |-> 0, len |-> file.len]
  /\ status' = "walking"
  /\ UNCHANGED <<file, listing, answers>>

\* Too short for a magic, or none of the three.
NoMagic ==
  /\ status = "new"
  /\ ~(file.len >= MagicLen /\ 0 \in DOMAIN file.rec /\ file.rec[0].magic \in Dialects)
  /\ Refuse("Corrupt")

\* spill_to_temp: a stream is copied out first, and that may fail.
SpillFails ==
  /\ status = "new" /\ file.stream
  /\ Refuse("Io")

\* One turn of scan_newc_seekable or scan_odc_seekable.
Record ==
  /\ status = "walking"
  /\ SoundHeader /\ hdr.name # Trailer /\ SoundBody
  /\ scan' = [scan EXCEPT !.pos = NextRecord, !.at = @ + ReaderMoves]
  /\ listing' = Listed
  /\ UNCHANGED <<file, status, answers>>

MeetTrailer ==
  /\ status = "walking"
  /\ SoundHeader /\ hdr.name = Trailer
  /\ Opened

BadRecord ==
  /\ status = "walking"
  /\ ~(SoundHeader /\ (hdr.name = Trailer \/ SoundBody))
  /\ Refuse("Corrupt")

----------------------------------------------------------------------------
\* verify_checksum
SumHolds(e, bytes) == e.sum # None => e.sum = Sum(bytes)

\* Slip: only what was copied is looked at, not what it adds up to.
ReadUnsummed(e) == IF e.kind # "file" THEN Answer("ok", <<>>)
                   ELSE ReadStored(file, e.at, e.size)

\* read_entry: directories and links have no body; a body must be whole and,
\* in the crc dialect, add up.
ReadBody(e) ==
  LET read == ReadStored(file, e.at, e.size)
  IN CASE e.kind # "file" -> Answer("ok", <<>>)
       [] e.kind = "file" /\ read.said = "ok" /\ ~SumHolds(e, read.given) ->
            Answer("Corrupt", read.given)
       [] OTHER -> read

ReadEntry(i) ==
  /\ status = "open"
  /\ answers' = [answers EXCEPT ![i] = ReadBody(listing[i])]
  /\ UNCHANGED <<file, scan, listing, status>>

\* Somebody else cuts the file short while the reader holds it.  What was
\* spilled has no name anybody could reach it by.
Shrink ==
  /\ status = "open" /\ ~file.stream
  /\ file.len = scan.len
  /\ \E n \in Cuts : n <= file.len /\ file' = [file EXCEPT !.len = @ - n]
  /\ UNCHANGED <<scan, listing, status, answers>>

Next ==
  \/ Start \/ NoMagic \/ SpillFails
  \/ Record \/ MeetTrailer \/ BadRecord
  \/ \E i \in DOMAIN listing : ReadEntry(i)
  \/ Shrink

----------------------------------------------------------------------------
Entry == [path : Seq(STRING), kind : {"file", "dir", "link"}, size : Nat, at : Nat,
          sum : Nat \union {None}, target : Seq(Nat)]

TypeOK ==
  /\ CpioFile(file)
  /\ scan \in [dialect : Dialects \union {""}, pos : Nat, at : Nat, len : Nat]
  /\ status = "walking" => scan.dialect \in Dialects
  /\ listing \in Seq(Entry)
  /\ answers \in Seq(Answers)
  /\ status \in {"new", "walking", "open", "Corrupt", "Io"}

\* The reader is always where the walk takes the next record to begin, though
\* the two are counted separately, and differently for links.
InStep == status = "walking" => scan.at = scan.pos

\* Bodies lie in the file as it was opened, in the order of their entries, and
\* no two share a byte: a listing cannot give one entry a part of another.
BodiesApart ==
  file.format = "cpio" =>
    \A i \in DOMAIN listing : listing[i].kind = "file" =>
      /\ listing[i].at + listing[i].size <= scan.len
      /\ \A j \in 1 .. i - 1 :
           listing[j].kind = "file" => listing[j].at + listing[j].size <= listing[i].at

Spec == Init /\ [][Next]_vars
===========================================================================
