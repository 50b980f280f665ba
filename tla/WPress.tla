------------------------------ MODULE WPress ------------------------------
(***************************************************************************)
(* format/wpress.rs: a chain of fixed-length headers, each followed by its *)
(* body, with no magic to tell it by.  The walk ends at the end of the     *)
(* file or at a block of zeros; what goes wrong on the first record means  *)
(* that the guess from the file's extension was wrong.                     *)
(*                                                                         *)
(* Fields are sequences of ASCII codes, padded with NULs.                  *)
(***************************************************************************)
EXTENDS StoredFile, SequencesExt

CONSTANTS
  WPressFiles,   \* the archives
  BlockLen,      \* HEADER_LEN, 4377
  Shortenings    \* by how much somebody else may shorten an open file

Slash == 47
Backslash == 92
Dot == 46
Whitespace == {9, 10, 12, 13, 32}
Digits == 48 .. 57

Block == [name : Seq(Nat), size : Seq(Nat), mtime : Seq(Nat), prefix : Seq(Nat)]

\* As in Cpio: what is in the file, and what became of it for the properties.
WPressFile(f) ==
  /\ f.len \in Nat /\ Sparse(f.rec, Block) /\ Sparse(f.byte, Nat)
  /\ f.stream \in BOOLEAN

WPressAssumption ==
  /\ \A f \in WPressFiles : WPressFile(f)
  /\ BlockLen \in Nat \ {0} /\ Shortenings \subseteq Nat

VARIABLES
  file,      \* the archive
  scan,      \* the walk: where the next header is, the length the file had
  listing,   \* the entries found so far, with their bodies
  status,    \* "new", "walking", "open", or the error `open` answered
  answers    \* what the last read_entry of each entry answered

vars == <<file, scan, listing, status, answers>>

Init ==
  /\ file \in WPressFiles
  /\ scan = [pos |-> 0, len |-> 0]
  /\ listing = <<>>
  /\ status = "new"
  /\ answers = <<>>

----------------------------------------------------------------------------
\* text_field: up to the first NUL, and nothing but NULs after it.
Text(field) ==
  LET ends == {k \in DOMAIN field : field[k] = 0} \union {Len(field) + 1}
  IN SubSeq(field, 1, (CHOOSE k \in ends : \A j \in ends : k <= j) - 1)

SoundText(field) == \A k \in Len(Text(field)) + 1 .. Len(field) : field[k] = 0

\* decimal_field: white space after the digits is tolerated, an empty field is
\* unset, anything else is not a header.
DigitsOf(field) ==
  LET kept == {0} \union {k \in DOMAIN Text(field) : field[k] \notin Whitespace}
  IN SubSeq(field, 1, CHOOSE k \in kept : \A j \in kept : j <= k)

SoundNumber(field) ==
  SoundText(field) /\ \A k \in DOMAIN DigitsOf(field) : field[k] \in Digits

Decimal(field) == FoldLeft(LAMBDA v, d : (v * 10) + (d - 48), 0, DigitsOf(field))

\* parse_header: the name is a bare file name.
SoundBlock(h) ==
  /\ SoundText(h.name) /\ SoundNumber(h.size) /\ SoundNumber(h.mtime)
  /\ SoundText(h.prefix)
  /\ Text(h.name) # <<>>
  /\ \A k \in DOMAIN Text(h.name) : h.name[k] \notin {Slash, Backslash}

\* join_raw: every leading "./" and every trailing "/" of the prefix goes, and
\* "." is the root.
Join(prefix, name) ==
  LET lead == {k \in 0 .. Len(prefix) \div 2 : \A j \in 1..k :
                 prefix[(2 * j) - 1] = Dot /\ prefix[2 * j] = Slash}
      rest == SubSeq(prefix, (2 * CHOOSE k \in lead : \A j \in lead : j <= k) + 1, Len(prefix))
      dir == IF rest = <<Dot>> THEN <<>> ELSE rest
      kept == {0} \union {k \in DOMAIN dir : dir[k] # Slash}
      stem == SubSeq(dir, 1, CHOOSE k \in kept : \A j \in kept : j <= k)
  IN IF stem = <<>> THEN name ELSE stem \o <<Slash>> \o name

----------------------------------------------------------------------------
Remaining == IF scan.len > scan.pos THEN scan.len - scan.pos ELSE 0

\* Nothing but zeros in the n bytes at hand.
Zeros(n) ==
  \A p \in DOMAIN file.rec \union DOMAIN file.byte : p \notin scan.pos .. scan.pos + n - 1

\* Slip: a short tail is taken for the end whatever it holds.
TailUnread == Remaining < BlockLen \/ Zeros(BlockLen)

\* The end of the file, a short tail of zeros, or a whole block of them.
AtEnd ==
  \/ Remaining = 0
  \/ Remaining < BlockLen /\ Zeros(Remaining)
  \/ Remaining >= BlockLen /\ Zeros(BlockLen)

hdr == file.rec[scan.pos]
Size == Decimal(hdr.size)
BodyAt == scan.pos + BlockLen
NextAt == BodyAt + Size

\* The header parses and its body is inside the file.
SoundRecord ==
  /\ Remaining >= BlockLen
  /\ scan.pos \in DOMAIN file.rec
  /\ SoundBlock(hdr)
  /\ Size \in Nat
  /\ NextAt <= scan.len

\* corrupt_or_unknown
Blame == IF listing = <<>> THEN "UnknownFormat" ELSE "Corrupt"

EntryAtHand == [path |-> Join(Text(hdr.prefix), Text(hdr.name)), kind |-> "file",
          size |-> Size, at |-> BodyAt]

----------------------------------------------------------------------------
Refuse(error) ==
  /\ status' = error
  /\ listing' = <<>>
  /\ UNCHANGED <<file, scan, answers>>

\* Bodies are read by offset: a stream is not taken.
RefuseStream ==
  /\ status = "new" /\ file.stream
  /\ Refuse("Unsupported")

Start ==
  /\ status = "new" /\ ~file.stream
  /\ status' = "walking"
  /\ scan' = [pos |-> 0, len |-> file.len]
  /\ UNCHANGED <<file, listing, answers>>

\* One turn of scan.
Record ==
  /\ status = "walking" /\ ~AtEnd /\ SoundRecord
  /\ listing' = Append(listing, EntryAtHand)
  /\ scan' = [scan EXCEPT !.pos = NextAt]
  /\ UNCHANGED <<file, status, answers>>

BadRecord ==
  /\ status = "walking" /\ ~AtEnd /\ ~SoundRecord
  /\ Refuse(Blame)

\* With no record at all there is no evidence that this is a wpress archive.
End ==
  /\ status = "walking" /\ AtEnd
  /\ IF listing = <<>> THEN Refuse("UnknownFormat")
     ELSE /\ status' = "open"
          /\ answers' = [k \in DOMAIN listing |-> NotRead]
          /\ UNCHANGED <<file, scan, listing>>

ReadEntry(i) ==
  /\ status = "open"
  /\ answers' = [answers EXCEPT ![i] = ReadStored(file, listing[i].at, listing[i].size)]
  /\ UNCHANGED <<file, scan, listing, status>>

\* Somebody else cuts the file short while the reader holds it.
Shrink ==
  /\ status = "open" /\ file.len = scan.len
  /\ \E n \in Shortenings : n <= file.len /\ file' = [file EXCEPT !.len = @ - n]
  /\ UNCHANGED <<scan, listing, status, answers>>

Next ==
  \/ RefuseStream \/ Start
  \/ Record \/ BadRecord \/ End
  \/ \E i \in DOMAIN listing : ReadEntry(i)
  \/ Shrink

Spec == Init /\ [][Next]_vars
===========================================================================
