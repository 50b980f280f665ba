----------------------------- MODULE SplitZip -----------------------------
(***************************************************************************)
(* join_split_zip of volume.rs: the volumes name.z01, name.z02, ...,        *)
(* name.zip of a split archive are copied one after another into a          *)
(* temporary file, and the central directory and its end records are        *)
(* written again so that every offset counts from the start of that file.   *)
(*                                                                          *)
(* A split set is what the volumes hold of their directory: positions and   *)
(* sizes in bytes, field by field, with the limits of the 16 and 32 bit     *)
(* fields as constants.  A field that says its limit (0xFFFF, 0xFFFFFFFF)    *)
(* has its value in the zip64 field of its record.                          *)
(***************************************************************************)
EXTENDS Integers, Sequences

CONSTANTS
  Sets,     \* the sets of volumes found beside a name.zip
  Max16,    \* u16::MAX
  Max32,    \* u32::MAX
  Faults    \* TRUE: a file system call may fail

\* A central directory record: the length in bytes, the four fields a zip64
\* field may stand for, its values, and the length of the other extra fields.
DirRecord == [len : Nat, usize : 0..Max32, csize : 0..Max32, lho : 0..Max32,
              disk : 0..Max16, wide : Seq(Nat), other : Nat]

EndRecord == [disk : 0..Max16, cdDisk : 0..Max16, here : 0..Max16,
              total : 0..Max16, size : 0..Max32, off : 0..Max32]

\* The zip64 end record, at its place in the joined file, and its locator.
TailRecord == [here : BOOLEAN, at : Nat, locDisk : Nat, locOff : Nat,
               disk : Nat, cdDisk : Nat, total : Nat, size : Nat, off : Nat]

\* sizes: the volumes' lengths.  ended: the last volume has an end record.
\* dirAt: where the directory is when the volumes are joined.
SplitSet == [sizes : Seq(Nat), ended : BOOLEAN, end : EndRecord,
             tail : TailRecord, dirAt : Nat, records : Seq(DirRecord)]

Fixed == 46             \* the fixed part of a directory record
LocalHeader == 30       \* the least a local header takes
MaxRecord == Fixed + 3 * Max16

\* A record's length counts the zip64 field it holds.
ASSUME SplitZipAssumption ==
  /\ Max16 \in Nat \ {0} /\ Max32 \in Nat
  /\ Faults \in BOOLEAN
  /\ \A s \in Sets :
       /\ s.written \in SplitSet /\ s.written.sizes # <<>>
       /\ \A k \in 1..Len(s.written.records) :
            s.written.records[k].len >= Fixed + 4 + 8 * Len(s.written.records[k].wide)
               \/ s.written.records[k].wide = <<>>

VARIABLES
  archive,   \* what the volumes hold
  phase,     \* the step join_split_zip is at, or how it ended
  error,     \* why it ended: "none", "missing", "corrupt", "unsupported", "io"
  bases,     \* where each volume copied so far begins
  joined,    \* the length of the temporary file
  dir,       \* the directory's [total, size, off, disk], as the end says
  start,     \* cd_start
  out,       \* the records rebuilt
  read,      \* how many bytes of the directory they took (pos)
  result     \* what was written after the directory, or NoResult

place == <<bases, joined>>
vars == <<archive, phase, error, place, dir, start, out, read, result>>

Split == archive.written
Volumes == Len(Split.sizes)
NoResult == [end |-> [total |-> 0, size |-> 0, off |-> 0],
             wide |-> [total |-> 0, size |-> 0, off |-> 0]]

Init ==
  /\ archive \in Sets
  /\ phase = "find" /\ error = "none"
  /\ bases = <<>> /\ joined = 0
  /\ dir = [total |-> 0, size |-> 0, off |-> 0, disk |-> 0]
  /\ start = 0
  /\ out = <<>> /\ read = 0
  /\ result = NoResult

\* An error returns at once, and the temporary file goes with its handle.
Refuse(kind) ==
  /\ phase' = "refused" /\ error' = kind
  /\ UNCHANGED <<archive, place, dir, start, out, read, result>>

InProgress == phase \in {"find", "join", "tail", "directory", "rebuild", "write"}

IoFails == Faults /\ InProgress /\ Refuse("io")

----------------------------------------------------------------------------
\* Slip: the files found are taken to be the set.
CountTrusted == TRUE

\* find_eocd, and what the volume numbers of the end record say.
CountMatches == Split.end.disk = Max16 \/ Split.end.disk + 1 = Volumes

Unsplit == Split.ended /\ Split.end.disk = 0 /\ Split.end.cdDisk = 0

FindTrouble == IF ~Split.ended THEN "corrupt"
               ELSE IF ~CountMatches THEN "missing" ELSE "none"

\* An archive that was never split is left to be opened as it is.
FindPlain ==
  /\ phase = "find" /\ Unsplit
  /\ phase' = "plain"
  /\ UNCHANGED <<archive, error, place, dir, start, out, read, result>>

FindEnd ==
  /\ phase = "find" /\ ~Unsplit
  /\ \/ FindTrouble # "none" /\ Refuse(FindTrouble)
     \/ /\ FindTrouble = "none"
        /\ phase' = "join"
        /\ UNCHANGED <<archive, error, place, dir, start, out, read, result>>

\* The volumes are copied in order, and where each begins is noted.
JoinVolume ==
  /\ phase = "join"
  /\ bases' = Append(bases, joined)
  /\ joined' = joined + Split.sizes[Len(bases) + 1]
  /\ phase' = IF Len(bases) + 1 = Volumes THEN "tail" ELSE "join"
  /\ UNCHANGED <<archive, error, dir, start, out, read, result>>

\* read_zip64_end: the locator names a place that must hold the record, and the
\* record knows the number of volumes.
TailTrouble ==
  LET t == Split.tail
  IN IF ~t.here THEN "none"
     ELSE IF t.locDisk >= Volumes THEN "missing"
     ELSE IF bases[t.locDisk + 1] + t.locOff # t.at THEN "corrupt"
     ELSE IF t.disk + 1 # Volumes THEN "missing" ELSE "none"

\* The directory's place, from the zip64 end record when there is one.
ReadTail ==
  /\ phase = "tail"
  /\ \/ TailTrouble # "none" /\ Refuse(TailTrouble)
     \/ /\ TailTrouble = "none"
        /\ dir' = LET e == IF Split.tail.here THEN Split.tail ELSE Split.end
                  IN [total |-> e.total, size |-> e.size, off |-> e.off, disk |-> e.cdDisk]
        /\ phase' = "directory"
        /\ UNCHANGED <<archive, error, place, start, out, read, result>>

\* The directory must lie in the joined file and be able to hold its records.
DirTrouble ==
  IF dir.disk >= Volumes THEN "missing"
  ELSE IF bases[dir.disk + 1] + dir.off + dir.size > joined THEN "corrupt"
  ELSE IF dir.size > dir.total * MaxRecord THEN "corrupt" ELSE "none"

LocateDirectory ==
  /\ phase = "directory"
  /\ \/ DirTrouble # "none" /\ Refuse(DirTrouble)
     \/ /\ DirTrouble = "none"
        /\ start' = bases[dir.disk + 1] + dir.off
        /\ phase' = "rebuild"
        /\ UNCHANGED <<archive, error, place, dir, out, read, result>>

----------------------------------------------------------------------------
\* parse_zip64_extra: the zip64 values are there only for the fields that say
\* their limit, in this order.
Wants(r, n) == \/ n = 1 /\ r.usize = Max32
               \/ n = 2 /\ r.csize = Max32
               \/ n = 3 /\ r.lho = Max32
               \/ n = 4 /\ r.disk = Max16
Classic(r) == <<r.usize, r.csize, r.lho, r.disk>>

\* Where the n-th field's value is among the zip64 values.
Slot(r, n) == (IF n >= 1 /\ Wants(r, 1) THEN 1 ELSE 0)
            + (IF n >= 2 /\ Wants(r, 2) THEN 1 ELSE 0)
            + (IF n >= 3 /\ Wants(r, 3) THEN 1 ELSE 0)
            + (IF n >= 4 /\ Wants(r, 4) THEN 1 ELSE 0)

HasAll(r) == Slot(r, 4) <= Len(r.wide)
Field(r, n) == IF Wants(r, n) THEN r.wide[Slot(r, n)] ELSE Classic(r)[n]

\* The length of a zip64 field of n eight byte values.
WideLen(n) == IF n = 0 THEN 0 ELSE 4 + 8 * n

\* What the field held took: the volume number has four bytes only.
HeldLen(r) == IF r.wide = <<>> THEN 0
              ELSE WideLen(Len(r.wide)) - (IF Wants(r, 4) THEN 4 ELSE 0)

Absolute(r) == bases[Field(r, 4) + 1] + Field(r, 3)

\* Slip: a position that just fills the field is left in it.
FitsIn32Badly(p) == p <= Max32

\* A position or size that can stand in a 32 bit field: the limit itself
\* cannot, it says that the value is elsewhere.
FitsIn32(p) == p < Max32

NewWide(r) ==
  (IF Wants(r, 1) THEN <<Field(r, 1)>> ELSE <<>>)
  \o (IF Wants(r, 2) THEN <<Field(r, 2)>> ELSE <<>>)
  \o (IF FitsIn32(Absolute(r)) THEN <<>> ELSE <<Absolute(r)>>)

\* The record rebuilt: on volume 0, with its local header's place in the file.
Rebuilt(r) ==
  [r EXCEPT !.disk = 0,
            !.lho = IF FitsIn32(Absolute(r)) THEN Absolute(r) ELSE Max32,
            !.wide = NewWide(r),
            !.len = @ - HeldLen(r) + WideLen(Len(NewWide(r)))]

\* Slip: a local header may lie anywhere in the joined file.
LiesInFile(r) == Absolute(r) <= joined

\* Slip: a local header that ends where the directory begins does not fit.
LiesWellBefore(r) == Absolute(r) + LocalHeader < start

\* Local headers lie before the directory.
LiesBefore(r) == Absolute(r) + LocalHeader <= start

\* The record the loop is at: nothing is read where no directory is.
Current == Split.records[Len(out) + 1]
CanParse == /\ start = Split.dirAt
            /\ Len(out) < Len(Split.records)
            /\ read + Current.len <= dir.size

RecordTrouble ==
  IF ~CanParse \/ ~HasAll(Current) THEN "corrupt"
  ELSE IF Field(Current, 4) >= Volumes THEN "missing"
  ELSE IF ~LiesBefore(Current) THEN "corrupt"
  ELSE IF Current.other + WideLen(Len(NewWide(Current))) > Max16 THEN "unsupported"
  ELSE "none"

\* One turn of rebuild_central_directory, and its end.
RebuildRecord ==
  /\ phase = "rebuild" /\ Len(out) < dir.total
  /\ \/ RecordTrouble # "none" /\ Refuse(RecordTrouble)
     \/ /\ RecordTrouble = "none"
        /\ out' = Append(out, Rebuilt(Current))
        /\ read' = read + Current.len
        /\ UNCHANGED <<archive, phase, error, place, dir, start, result>>

EndRebuild ==
  /\ phase = "rebuild" /\ Len(out) = dir.total
  /\ \/ read # dir.size /\ Refuse("corrupt")
     \/ /\ read = dir.size
        /\ phase' = "write"
        /\ UNCHANGED <<archive, error, place, dir, start, out, read, result>>

----------------------------------------------------------------------------
\* eocd16 and eocd32: a field that said its limit goes on to say it; a value
\* that does not fit needs a zip64 record to be in.
EndField(held, value, max) == IF held = max \/ value >= max THEN max ELSE value
FieldFails(held, value, max) == held # max /\ value >= max /\ ~Split.tail.here

LengthOf(rs) ==
  LET upto[k \in 0..Len(rs)] == IF k = 0 THEN 0 ELSE upto[k - 1] + rs[k].len
  IN upto[Len(rs)]

EndFits == /\ ~FieldFails(Split.end.here, dir.total, Max16)
           /\ ~FieldFails(Split.end.total, dir.total, Max16)
           /\ ~FieldFails(Split.end.size, LengthOf(out), Max32)
           /\ ~FieldFails(Split.end.off, start, Max32)

\* The file is cut at the directory; the new one and the end records follow.
WriteEnd ==
  /\ phase = "write"
  /\ \/ ~EndFits /\ Refuse("unsupported")
     \/ /\ EndFits
        /\ result' =
             [end |-> [total |-> EndField(Split.end.total, dir.total, Max16),
                       size |-> EndField(Split.end.size, LengthOf(out), Max32),
                       off |-> EndField(Split.end.off, start, Max32)],
              wide |-> [total |-> dir.total, size |-> LengthOf(out), off |-> start]]
        /\ phase' = "joined"
        /\ UNCHANGED <<archive, error, place, dir, start, out, read>>

----------------------------------------------------------------------------
Next == FindPlain \/ FindEnd \/ JoinVolume \/ ReadTail \/ LocateDirectory
        \/ RebuildRecord \/ EndRebuild \/ WriteEnd \/ IoFails

Spec == Init /\ [][Next]_vars

----------------------------------------------------------------------------
(***************************************************************************)
(* What the archive was before it was split: archive.heads are the places of *)
(* the local headers in the unsplit file, archive.spots those of the records *)
(* in its directory, archive.starts those where it was cut, archive.volumes  *)
(* the number of volumes written, archive.intact whether all of them are     *)
(* there unchanged.                                                         *)
(***************************************************************************)

\* The end record that counts: the zip64 one when there is one.
EndOf(w) == IF w.tail.here THEN w.tail ELSE w.end

\* What a writer of split archives leaves: the volumes, where it cut and how many
\* there are,
WrittenVolumes(s) ==
  LET w == s.written
      n == Len(w.sizes)
  IN /\ Len(s.starts) = n /\ s.starts[1] = 0 /\ s.volumes = n
     /\ \A i \in 1 .. n - 1 : s.starts[i + 1] = s.starts[i] + w.sizes[i]
     /\ w.ended /\ (w.end.disk = Max16 \/ w.end.disk + 1 = n)
     /\ w.tail.here => /\ w.tail.locDisk < n /\ w.tail.disk + 1 = n
                       /\ s.starts[w.tail.locDisk + 1] + w.tail.locOff = w.tail.at

\* the directory, one record behind the other,
WrittenDirectory(s) ==
  LET w == s.written
      e == EndOf(w)
      n == Len(w.records)
  IN /\ e.total = n /\ e.cdDisk < Len(w.sizes)
     /\ w.dirAt = s.starts[e.cdDisk + 1] + e.off
     /\ w.dirAt + e.size <= s.starts[Len(w.sizes)] + w.sizes[Len(w.sizes)]
     /\ e.size <= n * MaxRecord
     /\ ~w.tail.here => w.end.size # Max32 /\ w.end.off # Max32
     /\ s.spots \in Seq(Nat) /\ Len(s.spots) = n + 1
     /\ s.spots[1] = 0 /\ s.spots[n + 1] = e.size
     /\ \A k \in 1..n : s.spots[k + 1] = s.spots[k] + w.records[k].len /\ s.spots[k + 1] <= e.size

\* and its records, which find their local headers before the directory.
WrittenRecords(s) ==
  LET w == s.written
  IN /\ Len(s.heads) = Len(w.records)
     /\ \A k \in 1..Len(w.records) :
          LET r == w.records[k]
          IN /\ HasAll(r) /\ Field(r, 4) < Len(w.sizes)
             /\ s.heads[k] = s.starts[Field(r, 4) + 1] + Field(r, 3)
             /\ s.heads[k] + LocalHeader <= w.dirAt
             /\ r.other + HeldLen(r) <= Max16

WrittenWhole(s) == WrittenVolumes(s) /\ WrittenDirectory(s) /\ WrittenRecords(s)

\* Where a volume is lost or added, the last still says how many were written: in its
\* end record, or in the zip64 one.
CountIsKept(s) ==
  LET w == s.written
  IN /\ w.ended
     /\ \/ w.end.disk # Max16 /\ w.end.disk + 1 = s.volumes
        \/ w.end.disk = Max16 /\ w.tail.here /\ w.tail.disk + 1 = s.volumes

ASSUME IntactAssumption == \A s \in Sets : s.intact \in BOOLEAN /\ (s.intact => WrittenWhole(s))
ASSUME CountAssumption == \A s \in Sets : Len(s.written.sizes) # s.volumes => CountIsKept(s)

\* The variables keep their types (join_split_zip).
TypeOK ==
  /\ phase \in {"find", "join", "tail", "directory", "rebuild", "write",
                "plain", "joined", "refused"}
  /\ error \in {"none", "missing", "corrupt", "unsupported", "io"}
  /\ (phase = "refused") <=> (error # "none")
  /\ bases \in Seq(Nat) /\ Len(bases) <= Volumes /\ joined \in Nat
  /\ dir \in [total : Nat, size : Nat, off : Nat, disk : Nat]
  /\ start \in Nat /\ read \in Nat
  /\ out \in Seq(DirRecord)

\* How a zip reader finds a record's local header, and the directory: by the
\* field, or by the zip64 value when the field says its limit.
FindsHead(r, p) == HasAll(r) /\ Field(r, 3) = p

Tells(field, wide, max, value) ==
  IF field = max /\ Split.tail.here THEN wide = value ELSE field = value

\* A set whose volumes are all there reads, joined, as the archive it was before
\* it was split: every record finds its own local header with its sizes, and the
\* end records find the directory (rebuild_central_directory, join_split_zip).
ReadsAsUnsplit ==
  phase = "joined" /\ archive.intact =>
    /\ Len(out) = Len(archive.heads)
    /\ \A k \in 1..Len(out) :
         /\ FindsHead(out[k], archive.heads[k])
         /\ \A n \in 1..2 : Field(out[k], n) = Field(Split.records[k], n)
         /\ Field(out[k], 4) = 0
    /\ Tells(result.end.total, result.wide.total, Max16, Len(out))
    /\ Tells(result.end.off, result.wide.off, Max32, Split.dirAt)
    /\ Tells(result.end.size, result.wide.size, Max32, LengthOf(out))

\* Whatever the volumes hold, no record of a joined archive points into the
\* directory or behind it, nor to a volume other than the first
\* (rebuild_central_directory).
PointsIntoData ==
  phase = "joined" =>
    \A k \in 1..Len(out) :
      HasAll(out[k]) /\ Field(out[k], 3) + LocalHeader <= start /\ out[k].disk = 0

\* A set with a volume too few or too many is never joined, and told to be
\* incomplete when the end record has the number (join_split_zip).
MissingIsTold ==
  Volumes # archive.volumes =>
    /\ phase # "joined"
    /\ phase = "refused" /\ Split.end.disk # Max16 => error \in {"missing", "io"}

\* A set that is intact is refused only where the joined archive would need a
\* zip64 field it has no room for (eocd16, eocd32, the limit of an extra field).
RefusesOnlyForRoom ==
  phase = "refused" /\ archive.intact /\ error # "io" =>
    /\ error = "unsupported"
    /\ \/ ~Split.tail.here
          /\ \/ Split.dirAt >= Max32 \/ dir.total >= Max16 \/ LengthOf(out) >= Max32
       \/ \E k \in 1..Len(archive.heads) :
            archive.heads[k] >= Max32 /\ Split.records[k].other + WideLen(3) > Max16
=============================================================================
