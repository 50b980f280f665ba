-------------------------- MODULE SplitZipProofs --------------------------
(***************************************************************************)
(* Proofs about SplitZip: for every set of volumes, whatever its fields say, *)
(* and every width of the fields.                                           *)
(***************************************************************************)
EXTENDS SplitZip, TLAPS

----------------------------------------------------------------------------
(***************************************************************************)
(* A rebuilt record: the fields a zip64 field stands for are three, so there *)
(* are eight kinds of records to go through.                                *)
(***************************************************************************)

\* The values a record stands for are numbers, when its zip64 field has them.
LEMMA FieldsAreNumbers ==
  ASSUME NEW r \in DirRecord, HasAll(r), NEW n \in 1..4
  PROVE  Field(r, n) \in Nat
<1> USE SplitZipAssumption
<1>1. CASE n = 1
  BY <1>1 DEF DirRecord, HasAll, Field, Wants, Classic, Slot
<1>2. CASE n = 2
  BY <1>2 DEF DirRecord, HasAll, Field, Wants, Classic, Slot
<1>3. CASE n = 3
  BY <1>3 DEF DirRecord, HasAll, Field, Wants, Classic, Slot
<1>4. CASE n = 4
  BY <1>4 DEF DirRecord, HasAll, Field, Wants, Classic, Slot
<1> QED BY <1>1, <1>2, <1>3, <1>4

LEMMA NewWideIsNumbers ==
  ASSUME NEW r \in DirRecord, HasAll(r), Absolute(r) \in Nat
  PROVE  NewWide(r) \in Seq(Nat)
<1>1. Field(r, 1) \in Nat /\ Field(r, 2) \in Nat
  BY FieldsAreNumbers
<1> QED BY <1>1 DEF NewWide

\* A rebuilt record is one of the first volume whose place is the absolute one,
\* and whose sizes are what they were.
LEMMA RebuiltFinds ==
  ASSUME NEW r \in DirRecord, HasAll(r), Absolute(r) \in Nat
  PROVE  LET q == Rebuilt(r)
         IN /\ HasAll(q) /\ q.disk = 0 /\ Field(q, 3) = Absolute(r)
            /\ Field(q, 1) = Field(r, 1) /\ Field(q, 2) = Field(r, 2)
<1> DEFINE q == Rebuilt(r)
           a == IF Wants(r, 1) THEN <<Field(r, 1)>> ELSE <<>>
           b == IF Wants(r, 2) THEN <<Field(r, 2)>> ELSE <<>>
           c == IF FitsIn32(Absolute(r)) THEN <<>> ELSE <<Absolute(r)>>
<1> USE SplitZipAssumption
<1>1. Field(r, 1) \in Nat /\ Field(r, 2) \in Nat
  BY FieldsAreNumbers
<1>2. /\ q.disk = 0 /\ q.wide = NewWide(r)
      /\ q.usize = r.usize /\ q.csize = r.csize
      /\ q.lho = IF FitsIn32(Absolute(r)) THEN Absolute(r) ELSE Max32
  BY DEF Rebuilt, DirRecord
<1>3. q.wide = (a \o b) \o c
  BY <1>2 DEF NewWide
<1>4. /\ (Wants(q, 1) <=> Wants(r, 1)) /\ (Wants(q, 2) <=> Wants(r, 2))
      /\ (Wants(q, 3) <=> ~FitsIn32(Absolute(r))) /\ ~Wants(q, 4)
  BY <1>2 DEF Wants, FitsIn32, DirRecord
<1>5. Classic(q)[3] = q.lho /\ Classic(q)[1] = r.usize /\ Classic(q)[2] = r.csize
      /\ Classic(r)[1] = r.usize /\ Classic(r)[2] = r.csize
  BY <1>2 DEF Classic
<1>a. Len(q.wide) = (IF Wants(r, 1) THEN 1 ELSE 0) + (IF Wants(r, 2) THEN 1 ELSE 0)
                      + (IF Wants(q, 3) THEN 1 ELSE 0)
  BY <1>1, <1>3, <1>4
<1>6. HasAll(q)
  BY <1>a, <1>4 DEF HasAll, Slot
<1>7. Field(q, 1) = Field(r, 1)
  BY <1>1, <1>3, <1>4, <1>5 DEF Field, Slot
<1>8. Field(q, 2) = Field(r, 2)
  BY <1>1, <1>3, <1>4, <1>5 DEF Field, Slot
<1>9. Field(q, 3) = Absolute(r)
  BY <1>1, <1>2, <1>3, <1>4, <1>5 DEF Field, Slot
<1> QED BY <1>2, <1>6, <1>7, <1>8, <1>9

\* It is a record again, its length counted anew.
LEMMA RebuiltIsRecord ==
  ASSUME NEW r \in DirRecord, HasAll(r), Absolute(r) \in Nat,
         r.len >= Fixed + 4 + 8 * Len(r.wide) \/ r.wide = <<>>
  PROVE  Rebuilt(r) \in DirRecord
<1> DEFINE n == Len(NewWide(r))
<1> USE SplitZipAssumption
<1>1. NewWide(r) \in Seq(Nat) /\ n \in Nat
  BY NewWideIsNumbers
<1>2. WideLen(n) \in Nat
  BY <1>1 DEF WideLen
<1>3. r.wide \in Seq(Nat) /\ Len(r.wide) \in Nat /\ r.len \in Nat
  BY DEF DirRecord
<1>4. HeldLen(r) \in Int /\ HeldLen(r) <= r.len
  <2> DEFINE w == Len(r.wide)
  <2>1. WideLen(w) \in Nat /\ WideLen(w) <= 4 + 8 * w
    BY <1>3 DEF WideLen
  <2>2. HeldLen(r) \in Int /\ (r.wide = <<>> => HeldLen(r) = 0)
    BY <2>1 DEF HeldLen
  <2>3. r.wide # <<>> => HeldLen(r) <= 4 + 8 * w
    BY <1>3, <2>1 DEF HeldLen
  <2> QED BY <1>3, <2>2, <2>3 DEF Fixed
<1>5. r.len - HeldLen(r) + WideLen(n) \in Nat
  BY <1>2, <1>3, <1>4
<1>6. (IF FitsIn32(Absolute(r)) THEN Absolute(r) ELSE Max32) \in 0..Max32
  BY DEF FitsIn32
<1>7. 0 \in 0..Max16
  OBVIOUS
<1> HIDE DEF n
<1> QED BY <1>1, <1>5, <1>6, <1>7 DEF Rebuilt, DirRecord, n

----------------------------------------------------------------------------
(***************************************************************************)
(* The inductive invariant.  PointsIntoData speaks of the end; the loop      *)
(* keeps it for the records rebuilt so far, because start is fixed before    *)
(* the first of them, and a record can be rebuilt at all because every       *)
(* volume has its base by then.                                             *)
(***************************************************************************)
PlaceInv ==
  /\ phase = "find" => bases = <<>>
  /\ phase = "join" => Len(bases) < Volumes
  /\ phase \in {"tail", "directory", "rebuild", "write", "joined"} =>
       Len(bases) = Volumes
  /\ phase \in {"find", "join", "tail", "directory"} => out = <<>>

RecordsInv ==
  \A k \in 1..Len(out) :
    HasAll(out[k]) /\ Field(out[k], 3) + LocalHeader <= start /\ out[k].disk = 0

IndInv == archive \in Sets /\ TypeOK /\ PlaceInv /\ RecordsInv

LEMMA SetTypes ==
  ASSUME archive \in Sets
  PROVE  /\ Split \in SplitSet /\ Volumes \in Nat \ {0}
         /\ \A i \in 1..Volumes : Split.sizes[i] \in Nat
         /\ Split.records \in Seq(DirRecord)
         /\ Split.tail \in TailRecord /\ Split.end \in EndRecord
  BY SplitZipAssumption DEF Split, Volumes, SplitSet

LEMMA InitInd == Init => IndInv
<1> SUFFICES ASSUME Init PROVE IndInv
  OBVIOUS
<1>1. Volumes \in Nat \ {0}
  BY SetTypes DEF Init
<1> QED BY <1>1 DEF Init, IndInv, TypeOK, PlaceInv, RecordsInv

\* Whatever is refused, what is known stays so.
LEMMA RefuseInd ==
  ASSUME IndInv, error = "none", NEW kind \in {"missing", "corrupt", "unsupported", "io"},
         Refuse(kind)
  PROVE  IndInv'
  BY DEF IndInv, TypeOK, PlaceInv, RecordsInv, Refuse, place, Volumes, Split

\* The tail of the sets: a step that only goes on to another phase.
LEMMA JoinInd ==
  ASSUME IndInv, JoinVolume PROVE IndInv'
<1> USE DEF IndInv, JoinVolume
<1>1. Split.sizes[Len(bases) + 1] \in Nat
  BY SetTypes DEF PlaceInv, TypeOK
<1>2. bases' \in Seq(Nat) /\ Len(bases') = Len(bases) + 1 /\ joined' \in Nat
  BY <1>1 DEF TypeOK
<1>3. Volumes \in Nat /\ Len(bases) < Volumes /\ Len(bases) \in Nat
  BY SetTypes DEF PlaceInv, TypeOK
<1>4. Volumes' = Volumes /\ Split' = Split
  BY DEF Volumes, Split
<1>5. TypeOK'
  BY <1>2, <1>3, <1>4 DEF TypeOK
<1>6. PlaceInv'
  BY <1>2, <1>3, <1>4 DEF PlaceInv
<1>7. RecordsInv'
  BY DEF RecordsInv
<1> QED BY <1>5, <1>6, <1>7

LEMMA RecordInd ==
  ASSUME IndInv, phase = "rebuild", RecordTrouble = "none",
         out' = Append(out, Rebuilt(Current)), read' = read + Current.len,
         UNCHANGED <<archive, phase, error, place, dir, start, result>>
  PROVE  IndInv'
<1> DEFINE r == Current
<1>1. /\ Split.records \in Seq(DirRecord) /\ out \in Seq(DirRecord)
      /\ archive \in Sets /\ Len(bases) = Volumes /\ bases \in Seq(Nat)
      /\ start \in Nat /\ read \in Nat /\ Volumes \in Nat
  BY SetTypes DEF IndInv, TypeOK, PlaceInv
<1>2. CanParse /\ HasAll(r) /\ ~(Field(r, 4) >= Volumes) /\ LiesBefore(r)
  BY DEF RecordTrouble
<1>3. Len(out) + 1 \in 1..Len(Split.records)
  BY <1>1, <1>2 DEF CanParse
<1>4. r \in DirRecord /\ r.len \in Nat
  <2>1. Split.records[Len(out) + 1] \in DirRecord
    BY <1>1, <1>3
  <2>2. r \in DirRecord
    BY <2>1 DEF Current
  <2> QED BY <2>2 DEF DirRecord
<1>5. r.len >= Fixed + 4 + 8 * Len(r.wide) \/ r.wide = <<>>
  BY <1>1, <1>3, SplitZipAssumption DEF Current, Split
<1>6. Field(r, 4) \in Nat /\ Field(r, 3) \in Nat
  BY <1>2, <1>4, FieldsAreNumbers
<1>7. Absolute(r) \in Nat
  BY <1>1, <1>2, <1>6 DEF Absolute
<1>8. Rebuilt(r) \in DirRecord
  BY <1>2, <1>4, <1>5, <1>7, RebuiltIsRecord
<1>9. HasAll(Rebuilt(r)) /\ Rebuilt(r).disk = 0 /\ Field(Rebuilt(r), 3) = Absolute(r)
  BY <1>2, <1>4, <1>7, RebuiltFinds
<1>10. Volumes' = Volumes /\ Split' = Split
  BY DEF Volumes, Split
<1>11. TypeOK'
  BY <1>1, <1>4, <1>8, <1>10 DEF IndInv, TypeOK, place
<1>12. RecordsInv'
  <2> SUFFICES ASSUME NEW k \in 1..Len(out')
               PROVE  HasAll(out'[k]) /\ Field(out'[k], 3) + LocalHeader <= start'
                      /\ out'[k].disk = 0
    BY DEF RecordsInv
  <2>1. CASE k \in 1..Len(out)
    BY <1>1, <1>8, <2>1 DEF IndInv, RecordsInv
  <2>2. CASE k = Len(out) + 1
    BY <1>1, <1>2, <1>8, <1>9, <2>2 DEF LiesBefore
  <2> QED BY <1>1, <1>8, <2>1, <2>2
<1> QED BY <1>1, <1>10, <1>11, <1>12 DEF IndInv, PlaceInv, place

\* Every step of join_split_zip keeps the invariant.
LEMMA NextInd == IndInv /\ [Next]_vars => IndInv'
<1> SUFFICES ASSUME IndInv, [Next]_vars PROVE IndInv'
  OBVIOUS
<1>0. /\ Volumes \in Nat \ {0} /\ Split.tail \in TailRecord /\ Split.end \in EndRecord
      /\ archive \in Sets
  BY SetTypes DEF IndInv
<1>1. CASE FindPlain
  BY <1>1 DEF FindPlain, IndInv, TypeOK, PlaceInv, RecordsInv, place, Volumes, Split
<1>2. CASE FindEnd
  <2>1. error = "none"
    BY <1>2 DEF FindEnd, IndInv, TypeOK
  <2>2. CASE FindTrouble # "none" /\ Refuse(FindTrouble)
    BY <2>1, <2>2, RefuseInd DEF FindTrouble
  <2>3. CASE FindTrouble = "none" /\ phase' = "join"
             /\ UNCHANGED <<archive, error, place, dir, start, out, read, result>>
    BY <1>0, <1>2, <2>3
    DEF FindEnd, IndInv, TypeOK, PlaceInv, RecordsInv, place, Volumes, Split
  <2> QED BY <1>2, <2>2, <2>3 DEF FindEnd
<1>3. CASE JoinVolume
  BY <1>3, JoinInd
<1>4. CASE ReadTail
  <2>1. error = "none"
    BY <1>4 DEF ReadTail, IndInv, TypeOK
  <2>2. CASE TailTrouble # "none" /\ Refuse(TailTrouble)
    BY <2>1, <2>2, RefuseInd DEF TailTrouble
  <2>3. CASE TailTrouble = "none" /\ ~(TailTrouble # "none" /\ Refuse(TailTrouble))
    <3>1. dir' \in [total : Nat, size : Nat, off : Nat, disk : Nat]
      BY <1>0, <1>4, <2>3, SplitZipAssumption DEF ReadTail, TailRecord, EndRecord
    <3> QED BY <1>4, <2>3, <3>1
        DEF ReadTail, IndInv, TypeOK, PlaceInv, RecordsInv, place, Volumes, Split
  <2> QED BY <1>4, <2>2, <2>3 DEF ReadTail
<1>5. CASE LocateDirectory
  <2>1. error = "none"
    BY <1>5 DEF LocateDirectory, IndInv, TypeOK
  <2>2. CASE DirTrouble # "none" /\ Refuse(DirTrouble)
    BY <2>1, <2>2, RefuseInd DEF DirTrouble
  <2>3. CASE DirTrouble = "none" /\ ~(DirTrouble # "none" /\ Refuse(DirTrouble))
    <3>1. ~(dir.disk >= Volumes) /\ Len(bases) = Volumes /\ out = <<>>
      BY <1>5, <2>3 DEF DirTrouble, LocateDirectory, IndInv, PlaceInv
    <3>2. bases[dir.disk + 1] \in Nat /\ dir.off \in Nat
      BY <1>0, <3>1 DEF IndInv, TypeOK
    <3> QED BY <1>5, <2>3, <3>1, <3>2
        DEF LocateDirectory, IndInv, TypeOK, PlaceInv, RecordsInv, place, Volumes, Split
  <2> QED BY <1>5, <2>2, <2>3 DEF LocateDirectory
<1>6. CASE RebuildRecord
  <2>1. error = "none"
    BY <1>6 DEF RebuildRecord, IndInv, TypeOK
  <2>2. CASE RecordTrouble # "none" /\ Refuse(RecordTrouble)
    BY <2>1, <2>2, RefuseInd DEF RecordTrouble
  <2>3. CASE RecordTrouble = "none" /\ ~(RecordTrouble # "none" /\ Refuse(RecordTrouble))
    BY <1>6, <2>3, RecordInd DEF RebuildRecord
  <2> QED BY <1>6, <2>2, <2>3 DEF RebuildRecord
<1>7. CASE EndRebuild
  <2>1. error = "none"
    BY <1>7 DEF EndRebuild, IndInv, TypeOK
  <2>2. CASE Refuse("corrupt")
    BY <2>1, <2>2, RefuseInd
  <2>3. CASE ~Refuse("corrupt")
    BY <1>7, <2>3 DEF EndRebuild, IndInv, TypeOK, PlaceInv, RecordsInv, place, Volumes, Split
  <2> QED BY <2>2, <2>3
<1>8. CASE WriteEnd
  <2>1. error = "none"
    BY <1>8 DEF WriteEnd, IndInv, TypeOK
  <2>2. CASE Refuse("unsupported")
    BY <2>1, <2>2, RefuseInd
  <2>3. CASE ~Refuse("unsupported")
    BY <1>8, <2>3 DEF WriteEnd, IndInv, TypeOK, PlaceInv, RecordsInv, place, Volumes, Split
  <2> QED BY <2>2, <2>3
<1>9. CASE IoFails
  <2>1. error = "none"
    BY <1>9 DEF IoFails, InProgress, IndInv, TypeOK
  <2> QED BY <1>9, <2>1, RefuseInd DEF IoFails
<1>10. CASE UNCHANGED vars
  BY <1>10 DEF vars, IndInv, TypeOK, PlaceInv, RecordsInv, place, Volumes, Split
<1> QED BY <1>1, <1>2, <1>3, <1>4, <1>5, <1>6, <1>7, <1>8, <1>9, <1>10 DEF Next

THEOREM Inductive == Spec => []IndInv
  BY InitInd, NextInd, PTL DEF Spec

----------------------------------------------------------------------------
\* The variables of join_split_zip keep their types for every set of volumes.
THEOREM TypeCorrect == Spec => []TypeOK
<1>1. IndInv => TypeOK
  BY DEF IndInv
<1> QED BY <1>1, Inductive, PTL

\* Whatever the volumes hold, the directory of a joined archive points before
\* itself and to the first volume only (rebuild_central_directory).
THEOREM PointsInside == Spec => []PointsIntoData
<1>1. IndInv => PointsIntoData
  BY DEF IndInv, RecordsInv, PointsIntoData
<1> QED BY <1>1, Inductive, PTL

----------------------------------------------------------------------------
(***************************************************************************)
(* An intact set.  The copy loop finds the places where the writer cut, so   *)
(* the base of a volume and an offset in it are again the place before the   *)
(* cut; the loop over the records carries that through.                     *)
(***************************************************************************)
EndTells ==
  /\ Tells(result.end.total, result.wide.total, Max16, Len(out))
  /\ Tells(result.end.off, result.wide.off, Max32, Split.dirAt)
  /\ Tells(result.end.size, result.wide.size, Max32, LengthOf(out))

BasesInv ==
  /\ \A i \in 1..Len(bases) : bases[i] = archive.starts[i]
  /\ joined = IF bases = <<>> THEN 0
              ELSE archive.starts[Len(bases)] + Split.sizes[Len(bases)]

DirInv ==
  /\ phase \in {"directory", "rebuild", "write", "joined"} =>
       /\ dir.total = Len(Split.records)
       /\ archive.starts[dir.disk + 1] + dir.off = Split.dirAt
       /\ ~Split.tail.here => dir.total = Split.end.total
  /\ phase \in {"rebuild", "write", "joined"} => start = Split.dirAt
  /\ phase \in {"write", "joined"} => Len(out) = dir.total

FollowInv ==
  \A k \in 1..Len(out) :
    /\ Field(out[k], 3) = archive.heads[k] /\ Field(out[k], 4) = 0
    /\ \A n \in 1..2 : Field(out[k], n) = Field(Split.records[k], n)

WholeInv == archive.intact =>
  BasesInv /\ DirInv /\ FollowInv /\ (phase = "joined" => EndTells)

LEMMA InitWhole == Init => WholeInv
  BY DEF Init, WholeInv, BasesInv, DirInv, FollowInv

LEMMA RefuseWhole ==
  ASSUME WholeInv, NEW kind, Refuse(kind)
  PROVE  WholeInv'
  BY DEF WholeInv, BasesInv, DirInv, FollowInv, Refuse, place, Split

LEMMA JoinWhole ==
  ASSUME IndInv, WholeInv, JoinVolume
  PROVE  WholeInv'
<1> SUFFICES ASSUME archive.intact
             PROVE  BasesInv' /\ DirInv' /\ FollowInv' /\ (phase' = "joined" => EndTells')
  BY DEF WholeInv, JoinVolume
<1>1. /\ WrittenWhole(archive) /\ bases \in Seq(Nat) /\ Len(bases) < Volumes
      /\ Volumes \in Nat /\ Len(bases) \in Nat /\ joined \in Nat /\ Split' = Split
  BY IntactAssumption, SetTypes DEF IndInv, TypeOK, PlaceInv, JoinVolume, Split
<1>2. joined = archive.starts[Len(bases) + 1]
  <2>1. CASE bases = <<>>
    BY <1>1, <2>1 DEF WholeInv, BasesInv, JoinVolume, WrittenWhole, WrittenVolumes
  <2>2. CASE bases # <<>>
    <3>1. Len(bases) \in 1 .. Len(archive.written.sizes) - 1
      BY <1>1, <2>2 DEF Volumes, Split
    <3> QED BY <1>1, <2>2, <3>1 DEF WholeInv, BasesInv, JoinVolume, WrittenWhole,
                                     WrittenVolumes, Split
  <2> QED BY <2>1, <2>2
<1>3. /\ Len(bases') = Len(bases) + 1 /\ bases' # <<>>
      /\ \A i \in 1..Len(bases) : bases'[i] = bases[i]
      /\ bases'[Len(bases) + 1] = joined
  BY <1>1 DEF JoinVolume
<1>4. BasesInv'
  BY <1>1, <1>2, <1>3 DEF JoinVolume, WholeInv, BasesInv
<1>5. DirInv' /\ FollowInv' /\ phase' # "joined"
  BY <1>1 DEF JoinVolume, WholeInv, DirInv, FollowInv
<1> QED BY <1>4, <1>5

LEMMA RecordWhole ==
  ASSUME IndInv, WholeInv, phase = "rebuild", RecordTrouble = "none",
         out' = Append(out, Rebuilt(Current)),
         UNCHANGED <<archive, phase, error, place, dir, start, result>>
  PROVE  WholeInv'
<1> DEFINE r == Current
<1> SUFFICES ASSUME archive.intact
             PROVE  BasesInv' /\ DirInv' /\ FollowInv' /\ (phase' = "joined" => EndTells')
  BY DEF WholeInv
<1>1. /\ Split.records \in Seq(DirRecord) /\ out \in Seq(DirRecord)
      /\ Len(bases) = Volumes /\ bases \in Seq(Nat) /\ Volumes \in Nat
      /\ WrittenWhole(archive) /\ Split' = Split
  BY SetTypes, IntactAssumption DEF IndInv, TypeOK, PlaceInv, Split
<1>2. CanParse /\ HasAll(r) /\ ~(Field(r, 4) >= Volumes)
  BY DEF RecordTrouble
<1>3. Len(out) + 1 \in 1..Len(Split.records)
  BY <1>1, <1>2 DEF CanParse
<1>4. r \in DirRecord
  <2>1. Split.records[Len(out) + 1] \in DirRecord
    BY <1>1, <1>3
  <2> QED BY <2>1 DEF Current
<1>5. Field(r, 4) \in Nat /\ Field(r, 3) \in Nat
  BY <1>2, <1>4, FieldsAreNumbers
<1>6. Field(r, 4) + 1 \in 1..Len(bases)
  BY <1>1, <1>2, <1>5
<1>7. Absolute(r) \in Nat
  BY <1>1, <1>5, <1>6 DEF Absolute
<1>8. Absolute(r) = archive.heads[Len(out) + 1]
  BY <1>1, <1>3, <1>6 DEF Absolute, WholeInv, BasesInv, WrittenWhole,
                               WrittenRecords, Current, Split
<1>9. /\ Rebuilt(r).disk = 0 /\ Field(Rebuilt(r), 3) = Absolute(r)
      /\ Field(Rebuilt(r), 1) = Field(r, 1) /\ Field(Rebuilt(r), 2) = Field(r, 2)
  BY <1>2, <1>4, <1>7, RebuiltFinds
<1>10. Field(Rebuilt(r), 4) = 0
  BY <1>9, SplitZipAssumption DEF Field, Wants, Classic
<1>11. Len(out') = Len(out) + 1 /\ out'[Len(out) + 1] = Rebuilt(r)
       /\ \A k \in 1..Len(out) : out'[k] = out[k]
  BY <1>1
<1>12. FollowInv'
  <2> SUFFICES ASSUME NEW k \in 1..Len(out')
               PROVE  /\ Field(out'[k], 3) = archive.heads[k] /\ Field(out'[k], 4) = 0
                      /\ \A n \in 1..2 : Field(out'[k], n) = Field(Split.records[k], n)
    BY <1>1 DEF FollowInv
  <2>1. CASE k \in 1..Len(out)
    BY <1>11, <2>1 DEF WholeInv, FollowInv
  <2>2. CASE k = Len(out) + 1
    BY <1>8, <1>9, <1>10, <1>11, <2>2 DEF Current
  <2> QED BY <1>1, <1>11, <2>1, <2>2
<1>13. BasesInv' /\ DirInv'
  BY <1>1 DEF WholeInv, BasesInv, DirInv, place
<1> QED BY <1>12, <1>13

LEMMA WriteWhole ==
  ASSUME IndInv, WholeInv, WriteEnd
  PROVE  WholeInv'
<1>1. CASE Refuse("unsupported")
  BY <1>1, RefuseWhole
<1>2. CASE ~Refuse("unsupported")
  <2> SUFFICES ASSUME archive.intact
               PROVE  BasesInv' /\ DirInv' /\ FollowInv' /\ EndTells'
    BY <1>2 DEF WholeInv, WriteEnd
  <2>1. /\ WrittenWhole(archive) /\ EndFits /\ Split' = Split
        /\ Len(out) = dir.total /\ start = Split.dirAt
        /\ ~Split.tail.here => dir.total = Split.end.total
    BY <1>2, IntactAssumption DEF IndInv, WriteEnd, Split, WholeInv, DirInv
  <2>2. /\ result'.end.total = EndField(Split.end.total, Len(out), Max16)
        /\ result'.end.off = EndField(Split.end.off, Split.dirAt, Max32)
        /\ result'.end.size = EndField(Split.end.size, LengthOf(out), Max32)
        /\ result'.wide.total = Len(out) /\ result'.wide.off = Split.dirAt
        /\ result'.wide.size = LengthOf(out) /\ out' = out
    BY <1>2, <2>1 DEF WriteEnd
  <2>3. ~Split.tail.here => Split.end.size # Max32 /\ Split.end.off # Max32
    BY <2>1 DEF WrittenWhole, WrittenDirectory, Split
  <2>4. LengthOf(out)' = LengthOf(out)
    BY <2>2 DEF LengthOf
  <2>5. EndTells'
    BY <2>1, <2>2, <2>3, <2>4 DEF EndTells, Tells, EndField, EndFits, FieldFails
  <2>6. BasesInv' /\ DirInv' /\ FollowInv'
    BY <1>2, <2>1 DEF WriteEnd, WholeInv, BasesInv, DirInv, FollowInv, place
  <2> QED BY <2>5, <2>6
<1> QED BY <1>1, <1>2

LEMMA NextWhole == IndInv /\ WholeInv /\ [Next]_vars => WholeInv'
<1> SUFFICES ASSUME IndInv, WholeInv, [Next]_vars PROVE WholeInv'
  OBVIOUS
<1> USE DEF WholeInv, BasesInv, DirInv, FollowInv, place, Split
<1>1. CASE FindPlain
  BY <1>1 DEF FindPlain
<1>2. CASE FindEnd
  BY <1>2, RefuseWhole DEF FindEnd, IndInv, PlaceInv
<1>3. CASE JoinVolume
  BY <1>3, JoinWhole
<1>4. CASE ReadTail
  <2>1. CASE Refuse(TailTrouble)
    BY <2>1, RefuseWhole
  <2>2. CASE ~Refuse(TailTrouble)
    BY <1>4, <2>2, IntactAssumption
    DEF ReadTail, IndInv, PlaceInv, WrittenWhole, WrittenDirectory, EndOf
  <2> QED BY <2>1, <2>2
<1>5. CASE LocateDirectory
  <2>1. CASE Refuse(DirTrouble)
    BY <2>1, RefuseWhole
  <2>2. CASE ~Refuse(DirTrouble)
    <3>1. dir.disk + 1 \in 1..Len(bases) /\ out = <<>>
      BY <1>5, <2>2, SetTypes DEF LocateDirectory, DirTrouble, IndInv, TypeOK, PlaceInv
    <3> QED BY <1>5, <2>2, <3>1 DEF LocateDirectory
  <2> QED BY <2>1, <2>2
<1>6. CASE RebuildRecord
  BY <1>6, RefuseWhole, RecordWhole DEF RebuildRecord
<1>7. CASE EndRebuild
  BY <1>7, RefuseWhole DEF EndRebuild
<1>8. CASE WriteEnd
  BY <1>8, WriteWhole
<1>9. CASE IoFails
  BY <1>9, RefuseWhole DEF IoFails
<1>10. CASE UNCHANGED vars
  BY <1>10 DEF vars, EndTells, Tells, LengthOf
<1> QED BY <1>1, <1>2, <1>3, <1>4, <1>5, <1>6, <1>7, <1>8, <1>9, <1>10 DEF Next

\* An intact set reads, joined, as the archive before it was split, wherever it
\* was cut and whichever of its fields are in zip64 records (join_split_zip).
THEOREM JoinedAsUnsplit == Spec => []ReadsAsUnsplit
<1>1. IndInv /\ WholeInv => ReadsAsUnsplit
  <2> SUFFICES ASSUME IndInv, WholeInv, phase = "joined", archive.intact
               PROVE  ReadsAsUnsplit
    BY DEF ReadsAsUnsplit
  <2>1. Len(out) = Len(archive.heads)
    BY IntactAssumption DEF IndInv, WholeInv, DirInv, WrittenWhole, WrittenRecords,
                              Split
  <2>2. \A k \in 1..Len(out) : FindsHead(out[k], archive.heads[k])
    BY DEF IndInv, RecordsInv, WholeInv, FollowInv, FindsHead
  <2> QED BY <2>1, <2>2 DEF ReadsAsUnsplit, WholeInv, FollowInv, EndTells
<1>2. Spec => []WholeInv
  BY InitWhole, NextWhole, Inductive, PTL DEF Spec
<1> QED BY <1>1, <1>2, Inductive, PTL

----------------------------------------------------------------------------
(***************************************************************************)
(* A set with a volume too few or too many: the count is in the last volume, *)
(* in its end record or in the zip64 one, and each has a step that reads it. *)
(***************************************************************************)
CountInv == Volumes # archive.volumes =>
  /\ phase \in {"find", "join", "tail", "refused", "plain"}
  /\ phase \in {"join", "tail"} => Split.end.disk = Max16
  /\ phase = "refused" /\ Split.end.disk # Max16 => error \in {"missing", "io"}

LEMMA InitCount == Init => CountInv
  BY DEF Init, CountInv

LEMMA NextCount == IndInv /\ CountInv /\ [Next]_vars => CountInv'
<1> SUFFICES ASSUME IndInv, CountInv, [Next]_vars PROVE CountInv'
  OBVIOUS
<1>1. CASE archive' = archive /\ Volumes = archive.volumes
  BY <1>1 DEF CountInv, Volumes, Split
<1>2. CASE UNCHANGED vars
  BY <1>2 DEF vars, CountInv, Volumes, Split
<1>3. archive' = archive
  BY DEF Next, vars, FindPlain, FindEnd, JoinVolume, ReadTail, LocateDirectory, RebuildRecord,
         EndRebuild, WriteEnd, IoFails, Refuse
<1>4. CASE Next /\ Volumes # archive.volumes
  <2>1. /\ phase \in {"find", "join", "tail", "refused", "plain"}
        /\ phase \in {"join", "tail"} => Split.end.disk = Max16
        /\ phase = "refused" /\ Split.end.disk # Max16 => error \in {"missing", "io"}
    BY <1>4 DEF CountInv
  <2>2. CountIsKept(archive) /\ archive \in Sets
    BY <1>4, CountAssumption DEF IndInv, Volumes, Split
  <2>3. /\ Split.ended
        /\ \/ Split.end.disk # Max16 /\ Split.end.disk + 1 # Volumes
           \/ Split.end.disk = Max16 /\ Split.tail.here /\ Split.tail.disk + 1 # Volumes
    BY <1>4, <2>2 DEF CountIsKept, Split
  <2>4. Split' = Split /\ Volumes' = Volumes
    BY <1>3 DEF Split, Volumes
  <2>5. CASE FindPlain
    BY <1>3, <2>4, <2>5 DEF FindPlain, CountInv
  <2>6. CASE FindEnd
    <3>1. CASE Split.end.disk # Max16
      <4>1. FindTrouble = "missing"
        BY <2>3, <3>1 DEF FindTrouble, CountMatches
      <4> QED BY <1>3, <2>4, <2>6, <4>1 DEF FindEnd, Refuse, CountInv
    <3>2. CASE Split.end.disk = Max16
      BY <1>3, <2>4, <2>6, <3>2 DEF FindEnd, Refuse, CountInv
    <3> QED BY <3>1, <3>2
  <2>7. CASE JoinVolume
    BY <1>3, <2>1, <2>4, <2>7 DEF JoinVolume, CountInv
  <2>8. CASE ReadTail
    <3>1. Split.end.disk = Max16
      BY <2>1, <2>8 DEF ReadTail
    <3>2. TailTrouble # "none"
      BY <2>3, <3>1 DEF TailTrouble
    <3>3. Refuse(TailTrouble)
      BY <2>8, <3>2 DEF ReadTail
    <3>4. phase' = "refused"
      BY <3>3 DEF Refuse
    <3> QED BY <2>4, <3>1, <3>4 DEF CountInv
  <2>9. ~LocateDirectory /\ ~RebuildRecord /\ ~EndRebuild /\ ~WriteEnd
    BY <2>1 DEF LocateDirectory, RebuildRecord, EndRebuild, WriteEnd
  <2>10. CASE IoFails
    BY <1>3, <2>4, <2>10 DEF IoFails, Refuse, CountInv
  <2> QED BY <1>4, <2>5, <2>6, <2>7, <2>8, <2>9, <2>10 DEF Next
<1> QED BY <1>1, <1>2, <1>3, <1>4

\* A set with a volume too few or too many is never joined, whatever else its volumes
\* hold, and where the end record has the number it is told to be incomplete
\* (join_split_zip, read_zip64_end).
THEOREM IncompleteIsTold == Spec => []MissingIsTold
<1>1. CountInv => MissingIsTold
  BY DEF CountInv, MissingIsTold
<1> QED BY <1>1, InitCount, NextCount, Inductive, PTL DEF Spec

----------------------------------------------------------------------------
(***************************************************************************)
(* An intact set passes every check: what each step compares was written to  *)
(* be equal, and the loop is at each record where the writer put it.         *)
(***************************************************************************)
SizeInv ==
  /\ phase \in {"find", "join", "tail", "directory"} => read = 0
  /\ phase \in {"directory", "rebuild", "write"} =>
       dir.size = EndOf(Split).size /\ dir.disk = EndOf(Split).cdDisk
  /\ phase = "rebuild" => read = archive.spots[Len(out) + 1]
  /\ phase \in {"rebuild", "write"} => Len(out) <= dir.total

RoomInv == (archive.intact => SizeInv) /\ RefusesOnlyForRoom

LEMMA InitRoom == Init => RoomInv
  BY DEF Init, RoomInv, SizeInv, RefusesOnlyForRoom

\* A zip64 field with one value fewer takes no more room.
LEMMA WideLenGrows ==
  ASSUME NEW m \in Nat, NEW n \in Nat, m <= n
  PROVE  WideLen(m) \in Nat /\ WideLen(m) <= WideLen(n)
  BY DEF WideLen

\* A rebuilt record takes more room than it had only if its place needs a field.
LEMMA NoMoreRoom ==
  ASSUME NEW r \in DirRecord, HasAll(r), Absolute(r) \in Nat
  PROVE  /\ WideLen(Len(NewWide(r))) <= WideLen(3)
         /\ FitsIn32(Absolute(r)) => WideLen(Len(NewWide(r))) <= HeldLen(r)
<1> DEFINE a == IF Wants(r, 1) THEN 1 ELSE 0
           b == IF Wants(r, 2) THEN 1 ELSE 0
           c == IF FitsIn32(Absolute(r)) THEN 0 ELSE 1
           n == Len(NewWide(r))
<1>1. n = a + b + c
  <2>1. Field(r, 1) \in Nat /\ Field(r, 2) \in Nat
    BY FieldsAreNumbers
  <2> QED BY <2>1 DEF NewWide
<1>2. n \in Nat /\ n <= 3
  BY <1>1
<1>3. WideLen(n) <= WideLen(3)
  BY <1>2, WideLenGrows
<1>4. ASSUME FitsIn32(Absolute(r)) PROVE WideLen(n) <= HeldLen(r)
  <2>1. PICK w \in Nat : w = Len(r.wide) /\ (w = 0 <=> r.wide = <<>>)
    BY DEF DirRecord
  <2>2. n = a + b /\ n <= w /\ (Wants(r, 4) => n + 1 <= w)
    BY <1>1, <1>4, <2>1 DEF HasAll, Slot
  <2>3. CASE w = 0
    BY <2>1, <2>2, <2>3 DEF HeldLen, WideLen
  <2>4. CASE w # 0
    <3>1. HeldLen(r) = 4 + 8 * w - (IF Wants(r, 4) THEN 4 ELSE 0)
      BY <2>1, <2>4 DEF HeldLen, WideLen
    <3>2. WideLen(n) <= 4 + 8 * n
      BY <1>2 DEF WideLen
    <3> HIDE DEF n, a, b, c
    <3>3. CASE Wants(r, 4)
      <4>1. n + 1 <= w /\ HeldLen(r) = 8 * w
        BY <2>2, <3>1, <3>3
      <4> QED BY <1>2, <2>1, <3>2, <4>1 DEF WideLen
    <3>4. CASE ~Wants(r, 4)
      <4>1. n <= w /\ HeldLen(r) = 4 + 8 * w
        BY <2>2, <3>1, <3>4
      <4> QED BY <1>2, <2>1, <3>2, <4>1 DEF WideLen
    <3> QED BY <3>3, <3>4
  <2> QED BY <2>3, <2>4
<1> QED BY <1>3, <1>4

\* What is known of an intact set.
LEMMA IntactFacts ==
  ASSUME archive \in Sets, archive.intact
  PROVE  /\ WrittenVolumes(archive) /\ WrittenDirectory(archive) /\ WrittenRecords(archive)
         /\ Split = archive.written /\ Volumes = Len(archive.written.sizes)
  BY IntactAssumption DEF WrittenWhole, Split, Volumes

\* find_eocd and the volume numbers of the end record.
LEMMA FindsSet ==
  ASSUME IndInv, archive.intact
  PROVE  FindTrouble = "none"
  BY IntactFacts DEF IndInv, FindTrouble, CountMatches, WrittenVolumes

\* read_zip64_end.
LEMMA TailIsRight ==
  ASSUME IndInv, WholeInv, archive.intact, phase = "tail"
  PROVE  TailTrouble = "none"
<1>1. /\ WrittenVolumes(archive) /\ Split = archive.written /\ Len(bases) = Volumes
      /\ Volumes = Len(archive.written.sizes)
      /\ Volumes \in Nat /\ Split.tail \in TailRecord
  BY IntactFacts, SetTypes DEF IndInv, PlaceInv
<1>2. CASE Split.tail.here
  <2>1. /\ Split.tail.locDisk \in Nat /\ Split.tail.locDisk < Volumes
        /\ Split.tail.disk + 1 = Volumes
        /\ archive.starts[Split.tail.locDisk + 1] + Split.tail.locOff = Split.tail.at
    BY <1>1, <1>2 DEF WrittenVolumes, TailRecord
  <2>2. Split.tail.locDisk + 1 \in 1..Len(bases)
    BY <1>1, <2>1
  <2>3. bases[Split.tail.locDisk + 1] = archive.starts[Split.tail.locDisk + 1]
    BY <2>2 DEF WholeInv, BasesInv
  <2>4. ~(Split.tail.locDisk >= Volumes)
    BY <1>1, <2>1
  <2> QED BY <2>1, <2>3, <2>4 DEF TailTrouble
<1>3. CASE ~Split.tail.here
  BY <1>3 DEF TailTrouble
<1> QED BY <1>2, <1>3

\* The directory lies in the joined file and can hold its records.
LEMMA DirectoryIsRight ==
  ASSUME IndInv, WholeInv, archive.intact, SizeInv, phase = "directory"
  PROVE  DirTrouble = "none"
<1>1. /\ WrittenDirectory(archive) /\ Split = archive.written /\ Len(bases) = Volumes
      /\ Volumes = Len(archive.written.sizes)
      /\ Volumes \in Nat \ {0} /\ bases \in Seq(Nat) /\ joined \in Nat
      /\ dir \in [total : Nat, size : Nat, off : Nat, disk : Nat]
  BY IntactFacts, SetTypes DEF IndInv, PlaceInv, TypeOK
<1>2. /\ dir.total = Len(Split.records) /\ dir.size = EndOf(Split).size
      /\ dir.disk = EndOf(Split).cdDisk
      /\ archive.starts[dir.disk + 1] + dir.off = Split.dirAt
  BY DEF WholeInv, DirInv, SizeInv
<1>3. /\ dir.disk < Volumes /\ dir.size <= dir.total * MaxRecord
      /\ Split.dirAt + dir.size <= archive.starts[Volumes] + Split.sizes[Volumes]
  BY <1>1, <1>2 DEF WrittenDirectory
<1>4. dir.disk + 1 \in 1..Len(bases)
  BY <1>1, <1>3
<1>5. bases[dir.disk + 1] + dir.off = Split.dirAt
  BY <1>2, <1>4 DEF WholeInv, BasesInv
<1>6. joined = archive.starts[Volumes] + Split.sizes[Volumes]
  BY <1>1 DEF WholeInv, BasesInv
<1>7. ~(dir.disk >= Volumes)
  BY <1>1, <1>3
<1>8. ~(bases[dir.disk + 1] + dir.off + dir.size > joined)
  <2>1. bases[dir.disk + 1] \in Nat
    BY <1>1, <1>4
  <2>2. dir.off \in Nat /\ dir.size \in Nat
    BY <1>1
  <2>3. bases[dir.disk + 1] + dir.off + dir.size <= joined
    BY <1>3, <1>5, <1>6
  <2> QED BY <1>1, <2>1, <2>2, <2>3
<1>9. ~(dir.size > dir.total * MaxRecord)
  <2>1. dir.total * MaxRecord \in Int
    BY <1>1, SplitZipAssumption DEF MaxRecord, Fixed
  <2> QED BY <1>1, <1>3, <2>1
<1> QED BY <1>7, <1>8, <1>9 DEF DirTrouble

\* A record of an intact set is refused only for want of room.
LEMMA RecordIsRight ==
  ASSUME IndInv, WholeInv, archive.intact, SizeInv, phase = "rebuild", Len(out) < dir.total
  PROVE  /\ read + Current.len = archive.spots[Len(out) + 2]
         /\ \/ RecordTrouble = "none"
            \/ /\ RecordTrouble = "unsupported"
               /\ \E k \in 1..Len(archive.heads) :
                    /\ archive.heads[k] >= Max32
                    /\ Split.records[k].other + WideLen(3) > Max16
<1> DEFINE r == Current  k == Len(out) + 1
<1>1. /\ WrittenDirectory(archive) /\ WrittenRecords(archive) /\ Split = archive.written
      /\ Len(bases) = Volumes /\ Volumes = Len(archive.written.sizes)
      /\ Volumes \in Nat \ {0} /\ bases \in Seq(Nat) /\ out \in Seq(DirRecord)
      /\ Split.records \in Seq(DirRecord) /\ start \in Nat /\ read \in Nat
  BY IntactFacts, SetTypes DEF IndInv, PlaceInv, TypeOK
<1>2. /\ dir.total = Len(Split.records) /\ dir.size = EndOf(Split).size
      /\ start = Split.dirAt /\ read = archive.spots[k]
  BY DEF WholeInv, DirInv, SizeInv
<1>3. k \in 1..Len(Split.records) /\ r = Split.records[k] /\ k + 1 = Len(out) + 2
  BY <1>1, <1>2 DEF Current
<1>4. r \in DirRecord
  BY <1>1, <1>3
<1>5. /\ read + r.len = archive.spots[k + 1] /\ archive.spots[k + 1] <= dir.size
  BY <1>1, <1>2, <1>3 DEF WrittenDirectory
<1>6. CanParse
  BY <1>2, <1>3, <1>5 DEF CanParse
<1>7. /\ HasAll(r) /\ Field(r, 4) < Volumes
      /\ archive.heads[k] = archive.starts[Field(r, 4) + 1] + Field(r, 3)
      /\ archive.heads[k] + LocalHeader <= start
      /\ r.other + HeldLen(r) <= Max16 /\ Len(archive.heads) = Len(Split.records)
  BY <1>1, <1>2, <1>3 DEF WrittenRecords
<1>8. Field(r, 4) \in Nat /\ Field(r, 3) \in Nat
  BY <1>4, <1>7, FieldsAreNumbers
<1>9. Field(r, 4) + 1 \in 1..Len(bases)
  BY <1>1, <1>7, <1>8
<1>10. Absolute(r) = archive.heads[k] /\ Absolute(r) \in Nat
  <2>1. /\ bases[Field(r, 4) + 1] = archive.starts[Field(r, 4) + 1]
        /\ bases[Field(r, 4) + 1] \in Nat
    BY <1>1, <1>9 DEF WholeInv, BasesInv
  <2>2. Absolute(r) = bases[Field(r, 4) + 1] + Field(r, 3)
    BY DEF Absolute
  <2>3. Absolute(r) = archive.heads[k]
    BY <1>7, <2>1, <2>2
  <2> QED BY <1>8, <2>1, <2>2, <2>3
<1>11. ~(Field(r, 4) >= Volumes) /\ LiesBefore(r)
  BY <1>1, <1>7, <1>8, <1>10 DEF LiesBefore
<1>12. /\ WideLen(Len(NewWide(r))) <= WideLen(3)
       /\ FitsIn32(Absolute(r)) => WideLen(Len(NewWide(r))) <= HeldLen(r)
  BY <1>4, <1>7, <1>10, NoMoreRoom
<1>13. r.other \in Nat /\ WideLen(Len(NewWide(r))) \in Nat /\ HeldLen(r) \in Int
       /\ WideLen(3) \in Nat /\ Max16 \in Nat /\ Max32 \in Nat
  <2>1. Len(NewWide(r)) \in Nat
    BY <1>4, <1>7, <1>10, NewWideIsNumbers
  <2>2. Len(r.wide) \in Nat /\ r.other \in Nat
    BY <1>4 DEF DirRecord
  <2> QED BY <2>1, <2>2, SplitZipAssumption DEF WideLen, HeldLen
<1>14. CASE r.other + WideLen(Len(NewWide(r))) > Max16
  <2>1. RecordTrouble = "unsupported"
    BY <1>6, <1>7, <1>11, <1>14 DEF RecordTrouble
  <2>2. ~FitsIn32(Absolute(r))
    BY <1>7, <1>12, <1>13, <1>14
  <2>3. archive.heads[k] >= Max32 /\ Split.records[k].other + WideLen(3) > Max16
    <3>1. Absolute(r) >= Max32
      BY <1>10, <1>13, <2>2 DEF FitsIn32
    <3>2. r.other + WideLen(3) > Max16
      BY <1>12, <1>13, <1>14
    <3> QED BY <1>3, <1>10, <3>1, <3>2
  <2> QED BY <1>3, <1>5, <1>7, <2>1, <2>3
<1>15. CASE ~(r.other + WideLen(Len(NewWide(r))) > Max16)
  BY <1>3, <1>5, <1>6, <1>7, <1>11, <1>15 DEF RecordTrouble
<1> QED BY <1>14, <1>15

\* What is refused for want of room stays refused for it, and a file that fails is
\* another matter.
LEMMA RefuseRoom ==
  ASSUME NEW kind, Refuse(kind),
         archive.intact /\ kind # "io" =>
           /\ kind = "unsupported"
           /\ \/ /\ ~Split.tail.here
                 /\ Split.dirAt >= Max32 \/ dir.total >= Max16 \/ LengthOf(out) >= Max32
              \/ \E k \in 1..Len(archive.heads) :
                   archive.heads[k] >= Max32 /\ Split.records[k].other + WideLen(3) > Max16
  PROVE  RoomInv'
<1>1. /\ archive' = archive /\ Split' = Split /\ dir' = dir /\ out' = out
      /\ phase' = "refused" /\ error' = kind
  BY DEF Refuse, Split
<1>2. LengthOf(out)' = LengthOf(out)
  BY <1>1 DEF LengthOf
<1>3. RefusesOnlyForRoom'
  BY <1>1, <1>2 DEF RefusesOnlyForRoom
<1>4. SizeInv'
  BY <1>1 DEF SizeInv
<1> QED BY <1>3, <1>4 DEF RoomInv

LEMMA NextRoom == IndInv /\ WholeInv /\ RoomInv /\ [Next]_vars => RoomInv'
<1> SUFFICES ASSUME IndInv, WholeInv, RoomInv, [Next]_vars PROVE RoomInv'
  OBVIOUS
<1>1. archive \in Sets /\ (archive.intact => SizeInv)
  BY DEF IndInv, RoomInv
<1>2. CASE FindPlain
  BY <1>1, <1>2 DEF FindPlain, RoomInv, SizeInv, RefusesOnlyForRoom
<1>3. CASE FindEnd
  <2>1. CASE FindTrouble # "none" /\ Refuse(FindTrouble)
    BY <2>1, FindsSet, RefuseRoom
  <2>2. CASE phase' = "join" /\ UNCHANGED <<archive, error, place, dir, start, out, read, result>>
    BY <1>1, <1>3, <2>2 DEF FindEnd, RoomInv, SizeInv, RefusesOnlyForRoom
  <2> QED BY <1>3, <2>1, <2>2 DEF FindEnd
<1>4. CASE JoinVolume
  BY <1>1, <1>4 DEF JoinVolume, RoomInv, SizeInv, RefusesOnlyForRoom
<1>5. CASE ReadTail
  <2>1. CASE TailTrouble # "none" /\ Refuse(TailTrouble)
    <3>1. ~archive.intact
      BY <1>5, <2>1, TailIsRight DEF ReadTail
    <3> QED BY <2>1, <3>1, RefuseRoom
  <2>2. CASE ~(TailTrouble # "none" /\ Refuse(TailTrouble))
    <3>1. dir'.size = EndOf(Split).size /\ dir'.disk = EndOf(Split).cdDisk /\ Split' = Split
      BY <1>5, <2>2 DEF ReadTail, EndOf, Split
    <3>2. phase = "tail" /\ phase' = "directory" /\ read' = read /\ archive' = archive
      BY <1>5, <2>2 DEF ReadTail
    <3> QED BY <1>1, <3>1, <3>2 DEF RoomInv, SizeInv, RefusesOnlyForRoom
  <2> QED BY <2>1, <2>2
<1>6. CASE LocateDirectory
  <2>1. CASE DirTrouble # "none" /\ Refuse(DirTrouble)
    <3>1. ~archive.intact
      BY <1>1, <1>6, <2>1, DirectoryIsRight DEF LocateDirectory
    <3> QED BY <2>1, <3>1, RefuseRoom
  <2>2. CASE ~(DirTrouble # "none" /\ Refuse(DirTrouble))
    <3>1. /\ phase = "directory" /\ phase' = "rebuild" /\ read' = read /\ archive' = archive
          /\ dir' = dir /\ out' = out /\ Split' = Split
      BY <1>6, <2>2 DEF LocateDirectory, Split
    <3>2. out = <<>> /\ dir.total \in Nat
      BY <3>1 DEF IndInv, PlaceInv, TypeOK
    <3>3. archive.intact => archive.spots[1] = 0
      BY <1>1, IntactFacts DEF WrittenDirectory
    <3>4. archive.intact => SizeInv'
      BY <1>1, <3>1, <3>2, <3>3 DEF SizeInv
    <3> QED BY <3>1, <3>4 DEF RoomInv, RefusesOnlyForRoom
  <2> QED BY <2>1, <2>2
<1>7. CASE RebuildRecord
  <2>1. CASE RecordTrouble # "none" /\ Refuse(RecordTrouble)
    BY <1>1, <1>7, <2>1, RecordIsRight, RefuseRoom DEF RebuildRecord
  <2>2. CASE ~(RecordTrouble # "none" /\ Refuse(RecordTrouble))
    <3>1. /\ phase = "rebuild" /\ phase' = "rebuild" /\ read' = read + Current.len
          /\ archive' = archive /\ dir' = dir /\ Split' = Split /\ Len(out) < dir.total
          /\ Len(out') = Len(out) + 1 /\ Len(out) \in Nat /\ dir.total \in Nat
      BY <1>7, <2>2 DEF RebuildRecord, Split, IndInv, TypeOK
    <3>2. archive.intact => read' = archive.spots[Len(out) + 2]
      BY <1>1, <3>1, RecordIsRight
    <3>3. Len(out') + 1 = Len(out) + 2 /\ Len(out') <= dir.total
      BY <3>1
    <3>4. archive.intact => SizeInv'
      BY <1>1, <3>1, <3>2, <3>3 DEF SizeInv
    <3> QED BY <3>1, <3>4 DEF RoomInv, RefusesOnlyForRoom
  <2> QED BY <2>1, <2>2
<1>8. CASE EndRebuild
  <2>1. archive.intact => read = dir.size
    <3>1. archive.intact => /\ read = archive.spots[Len(archive.written.records) + 1]
                            /\ dir.size = EndOf(archive.written).size
      BY <1>1, <1>8 DEF EndRebuild, SizeInv, WholeInv, DirInv, Split
    <3> QED BY <1>1, <3>1, IntactFacts DEF WrittenDirectory
  <2>2. CASE read # dir.size /\ Refuse("corrupt")
    BY <2>1, <2>2, RefuseRoom
  <2>3. CASE ~(read # dir.size /\ Refuse("corrupt"))
    BY <1>1, <1>8, <2>3 DEF EndRebuild, RoomInv, SizeInv, RefusesOnlyForRoom, Split
  <2> QED BY <2>2, <2>3
<1>9. CASE WriteEnd
  <2>1. CASE ~EndFits /\ Refuse("unsupported")
    <3>1. ~Split.tail.here /\ (start >= Max32 \/ dir.total >= Max16 \/ LengthOf(out) >= Max32)
      BY <2>1 DEF EndFits, FieldFails
    <3>2. archive.intact => start = Split.dirAt
      BY <1>9 DEF WriteEnd, WholeInv, DirInv
    <3> QED BY <2>1, <3>1, <3>2, RefuseRoom
  <2>2. CASE ~(~EndFits /\ Refuse("unsupported"))
    BY <1>9, <2>2 DEF WriteEnd, RoomInv, SizeInv, RefusesOnlyForRoom
  <2> QED BY <2>1, <2>2
<1>10. CASE IoFails
  BY <1>10, RefuseRoom DEF IoFails
<1>11. CASE UNCHANGED vars
  BY <1>11 DEF vars, RoomInv, SizeInv, RefusesOnlyForRoom, Split, LengthOf
<1> QED BY <1>2, <1>3, <1>4, <1>5, <1>6, <1>7, <1>8, <1>9, <1>10, <1>11 DEF Next

\* A set that is intact is joined, or refused where its joined archive would need a
\* zip64 field it has no room for, or a file fails: no check of join_split_zip stops a
\* good set, wherever it was cut (eocd16, eocd32, rebuild_central_directory).
THEOREM OnlyForRoom == Spec => []RefusesOnlyForRoom
<1>1. RoomInv => RefusesOnlyForRoom
  BY DEF RoomInv
<1>2. Spec => [](IndInv /\ WholeInv)
  BY InitWhole, NextWhole, Inductive, PTL DEF Spec
<1> QED BY <1>1, <1>2, InitRoom, NextRoom, PTL DEF Spec
===========================================================================
