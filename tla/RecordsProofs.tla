---------------------------- MODULE RecordsProofs ---------------------------
(***************************************************************************)
(* Proofs about the five readers of Records.  First Cpio alone: whatever   *)
(* the headers of an archive say, the walk and its reader stay in step and *)
(* the bodies it lists lie apart inside the file.  Then, for each format,  *)
(* the invariant that ties the reader to the archive as it was written,    *)
(* that its steps keep it, and that it implies every property of Records;  *)
(* last the five side by side.                                             *)
(***************************************************************************)
EXTENDS Records, WellFoundedInduction, FiniteSetTheorems, SequenceTheorems, TLAPS

\* What is listed lies behind the walk.
Behind ==
  status = "walking" =>
    \A i \in DOMAIN listing :
      listing[i].kind = "file" => listing[i].at + listing[i].size <= scan.pos

IndInv ==
  /\ TypeOK
  /\ InStep
  /\ Behind
  /\ BodiesApart
  /\ status = "new" => listing = <<>>
  /\ status = "open" => DOMAIN answers = DOMAIN listing

----------------------------------------------------------------------------
LEMMA Element == ASSUME NEW S, NEW s \in Seq(S), NEW i \in 1..Len(s) PROVE s[i] \in S
OBVIOUS

LEMMA AnswerType ==
  ASSUME NEW given \in Seq(Nat)
  PROVE  Answer("ok", given) \in Answers /\ Answer("Corrupt", given) \in Answers
BY DEF Answer, Answers

LEMMA NotReadType == NotRead \in Answers
<1>1. <<>> \in Seq(Nat)
  OBVIOUS
<1> QED BY <1>1 DEF NotRead, Answer, Answers

LEMMA BytesType ==
  ASSUME NEW f, Sparse(f.byte, Nat), NEW p \in Nat, NEW n \in Nat
  PROVE  Bytes(f, p, n) \in Seq(Nat)
<1>1. \A q : ByteAt(f, q) \in Nat
  BY DEF Sparse, ByteAt
<1> QED BY <1>1 DEF Bytes

\* What is left without the NULs is the front of what there was.
LEMMA TrimType == ASSUME NEW s \in Seq(Nat) PROVE TrimNuls(s) \in Seq(Nat)
<1> DEFINE K == {k \in DOMAIN s : \E j \in k .. Len(s) : s[j] # 0}
           m == Cardinality(K)
<1>1. K \subseteq 1 .. Len(s)
  OBVIOUS
<1>2. IsFiniteSet(1 .. Len(s)) /\ Cardinality(1 .. Len(s)) = Len(s)
  <2> DEFINE n == Len(s)
  <2>1. n \in Nat
    OBVIOUS
  <2> HIDE DEF n
  <2>2. IsFiniteSet(1..n) /\ Cardinality(1..n) = n
    BY <2>1, FS_Interval
  <2> QED BY <2>2 DEF n
<1>3. m \in Nat /\ m <= Len(s)
  BY <1>1, <1>2, FS_Subset, FS_CardinalityType
<1>4. \A i \in 1..m : s[i] \in Nat
  BY <1>3, Element
<1>5. TrimNuls(s) = SubSeq(s, 1, m)
  BY DEF TrimNuls
<1> HIDE DEF m
<1> QED BY <1>3, <1>4, <1>5, SubSeqProperties

LEMMA HeaderLenType == \A d \in Dialects : HeaderLen[d] \in Nat
BY DEF Dialects, HeaderLen

LEMMA PadType == \A n \in Nat : Pad4(n) \in Nat
BY DEF Pad4

----------------------------------------------------------------------------
\* Where the parts of a sound record are.
LEMMA Positions ==
  ASSUME IndInv, status = "walking", SoundHeader
  PROVE  /\ FileSize \in Nat /\ NameSize \in Nat /\ scan.pos \in Nat /\ scan.at \in Nat
         /\ HeaderLen[Dialect] \in Nat
         /\ NamePad \in Nat /\ BodyPad \in Nat
         /\ AfterHeader = scan.pos + HeaderLen[Dialect]
         /\ AfterName = AfterHeader + NameSize
         /\ BodyStart = AfterName + NamePad
         /\ AfterBody = BodyStart + FileSize
         /\ NextRecord = AfterBody + BodyPad
<1>1. Dialect \in Dialects /\ scan.pos \in Nat /\ scan.at \in Nat
  BY DEF IndInv, TypeOK, Dialect
<1>2. HeaderLen[Dialect] \in Nat
  BY <1>1, HeaderLenType
<1>3. FileSize \in Nat /\ NameSize \in Nat
  BY DEF SoundHeader
<1>4. NamePad \in Nat
  BY <1>2, <1>3, PadType DEF NamePad
<1>5. BodyPad \in Nat
  BY <1>3, PadType DEF BodyPad
<1> QED
  BY <1>1, <1>2, <1>3, <1>4, <1>5 DEF AfterHeader, AfterName, BodyStart, AfterBody, NextRecord

\* The reader goes just as far as the walk, for links and for all the rest.
LEMMA ReaderKeepsUp ==
  ASSUME IndInv, status = "walking", SoundHeader
  PROVE  scan.pos + ReaderMoves = NextRecord
<1>1. Skip(AfterName, BodyStart) = NamePad
  BY Positions DEF Skip
<1>2. Skip(AfterBody, NextRecord) = BodyPad
  BY Positions DEF Skip
<1>3. Skip(AfterName, NextRecord) = NamePad + FileSize + BodyPad
  BY Positions DEF Skip
<1>4. CASE hdr.type = "link"
  BY <1>1, <1>2, <1>4, Positions DEF ReaderMoves
<1>5. CASE hdr.type # "link"
  BY <1>3, <1>5, Positions DEF ReaderMoves
<1> QED BY <1>4, <1>5

LEMMA EntryType ==
  ASSUME IndInv, status = "walking", SoundHeader
  PROVE  FileEntry \in Entry /\ DirEntry \in Entry /\ LinkEntry \in Entry
<1>1. hdr \in Header
  BY DEF IndInv, TypeOK, CpioFile, SoundHeader, There, hdr, Sparse
<1>2. PathOf(hdr.name) \in Seq(STRING)
  <2>1. hdr.name \in Seq(STRING)
    BY <1>1 DEF Header
  <2>2. CASE hdr.name = <<>>
    <3>1. PathOf(hdr.name) = hdr.name
      BY <2>1, <2>2 DEF PathOf
    <3> QED BY <2>1, <3>1
  <2>3. CASE hdr.name # <<>>
    <3>1. Tail(hdr.name) \in Seq(STRING)
      BY <2>1, <2>3, HeadTailProperties
    <3> QED BY <2>1, <3>1 DEF PathOf
  <2> QED BY <2>2, <2>3
<1>3. Check \in Nat \union {None}
  BY DEF SoundHeader, Check
<1>4. <<>> \in Seq(Nat)
  OBVIOUS
<1>5. BodyStart \in Nat /\ FileSize \in Nat
  BY Positions
<1>6. FileEntry \in Entry
  BY <1>2, <1>3, <1>4, <1>5 DEF FileEntry, Entry
<1>7. DirEntry \in Entry
  BY <1>6 DEF DirEntry, Entry, None
<1> DEFINE p == scan.at + HeaderLen[Dialect] + NameSize + Skip(AfterName, BodyStart)
<1>8. p \in Nat
  BY Positions DEF Skip
<1>9. TrimNuls(Bytes(file, p, FileSize)) \in Seq(Nat)
  BY <1>5, <1>8, BytesType, TrimType DEF IndInv, TypeOK, CpioFile
<1>10. LinkEntry = [FileEntry EXCEPT !.kind = "link", !.at = 0, !.sum = None,
                                     !.target = TrimNuls(Bytes(file, p, FileSize))]
  BY DEF LinkEntry
<1> HIDE DEF p
<1>11. LinkEntry \in Entry
  BY <1>6, <1>9, <1>10 DEF Entry, None
<1> QED BY <1>6, <1>7, <1>11

LEMMA Placed ==
  ASSUME IndInv, NEW i \in DOMAIN listing
  PROVE  listing[i] \in Entry /\ listing[i].at \in Nat /\ listing[i].size \in Nat
<1>1. listing \in Seq(Entry)
  BY DEF IndInv, TypeOK
<1>2. listing[i] \in Entry
  BY <1>1, Element
<1> QED BY <1>2 DEF Entry

----------------------------------------------------------------------------
LEMMA InitInd == Init => IndInv
<1> SUFFICES ASSUME Init PROVE IndInv
  OBVIOUS
<1> USE CpioAssumption
<1>1. <<>> \in Seq(Entry) /\ <<>> \in Seq(Answers)
  OBVIOUS
<1>2. TypeOK
  BY <1>1 DEF Init, TypeOK, Idle
<1> QED BY <1>2 DEF Init, IndInv, InStep, Behind, BodiesApart

LEMMA RefuseKeeps ==
  ASSUME IndInv, NEW error \in {"Corrupt", "Io"}, Refuse(error)
  PROVE  IndInv'
<1>1. <<>> \in Seq(Entry)
  OBVIOUS
<1>2. TypeOK'
  BY <1>1 DEF IndInv, Refuse, TypeOK
<1> QED BY <1>2 DEF IndInv, Refuse, InStep, Behind, BodiesApart

LEMMA StartKeeps == IndInv /\ Start => IndInv'
<1> SUFFICES ASSUME IndInv, Start PROVE IndInv'
  OBVIOUS
<1>1. /\ file.rec[0].magic \in Dialects /\ UNCHANGED <<file, listing, answers>>
      /\ scan' = [dialect |-> file.rec[0].magic, pos |-> 0, at |-> 0, len |-> file.len]
      /\ status' = "walking" /\ listing = <<>>
  BY DEF IndInv, Start
<1>2. TypeOK'
  BY <1>1 DEF IndInv, TypeOK, CpioFile
<1> QED BY <1>1, <1>2 DEF IndInv, InStep, Behind, BodiesApart

\* The body of the record at hand begins behind everything listed, and ends
\* before the next record does; the file reaches further still.
LEMMA RecordKeeps == IndInv /\ Record => IndInv'
<1> SUFFICES ASSUME IndInv, Record PROVE IndInv'
  OBVIOUS
<1>1. status = "walking" /\ SoundHeader /\ UNCHANGED <<file, status, answers>>
  BY DEF Record
<1>2. /\ scan \in [dialect : Dialects \union {""}, pos : Nat, at : Nat, len : Nat]
      /\ scan.at = scan.pos /\ scan.dialect \in Dialects
  BY <1>1 DEF IndInv, TypeOK, InStep
<1>0. scan.pos \in Nat
  BY <1>2
<1>3. scan.pos + ReaderMoves = NextRecord /\ NextRecord \in Nat /\ NextRecord >= scan.pos
  BY <1>1, ReaderKeepsUp, Positions
<1>4. /\ scan' = [scan EXCEPT !.pos = NextRecord, !.at = @ + ReaderMoves]
      /\ scan'.pos = NextRecord /\ scan'.at = NextRecord
      /\ scan'.len = scan.len /\ scan'.dialect = scan.dialect
  <2>1. scan' = [scan EXCEPT !.pos = NextRecord, !.at = @ + ReaderMoves]
    BY DEF Record
  <2> QED BY <1>2, <1>3, <2>1
<1>5. scan' \in [dialect : Dialects \union {""}, pos : Nat, at : Nat, len : Nat]
  <2>1. scan.at + ReaderMoves \in Nat
    BY <1>2, <1>3
  <2> QED BY <1>2, <1>3, <1>4, <2>1
<1> DEFINE e == FileEntry
<1>6. /\ e \in Entry /\ e.kind = "file" /\ e.at = BodyStart /\ e.size = FileSize
      /\ DirEntry \in Entry /\ DirEntry.kind = "dir"
      /\ LinkEntry \in Entry /\ LinkEntry.kind = "link"
  BY <1>1, EntryType DEF FileEntry, DirEntry, LinkEntry
<1>7. /\ BodyStart \in Nat /\ FileSize \in Nat /\ scan.pos <= BodyStart
      /\ BodyStart + FileSize <= NextRecord /\ BodyStart + FileSize <= scan.len
  BY <1>1, Positions DEF Record, SoundBody, Fits
<1>8. listing \in Seq(Entry)
  BY DEF IndInv, TypeOK
<1>9. \/ listing' = listing
      \/ \E x \in {e, DirEntry, LinkEntry} : listing' = Append(listing, x)
  BY DEF Record, Listed
<1> HIDE DEF e
<1>10. ASSUME listing' = listing
       PROVE  IndInv'
  <2>1. \A i \in DOMAIN listing : listing[i] \in Entry
    BY <1>8, Element
  <2>2. TypeOK'
    BY <1>1, <1>2, <1>4, <1>5, <1>10 DEF IndInv, TypeOK
  <2>3. Behind'
    <3> SUFFICES ASSUME NEW i \in DOMAIN listing, listing[i].kind = "file"
                 PROVE  listing[i].at + listing[i].size <= NextRecord
      BY <1>4, <1>10 DEF Behind
    <3>1. listing[i].at + listing[i].size <= scan.pos
      BY <1>1 DEF IndInv, Behind
    <3>2. listing[i].at \in Nat /\ listing[i].size \in Nat
      BY Placed
    <3> QED BY <1>0, <1>3, <3>1, <3>2
  <2> QED BY <1>1, <1>4, <1>10, <2>2, <2>3 DEF IndInv, InStep, BodiesApart
<1>11. ASSUME NEW x \in {e, DirEntry, LinkEntry}, listing' = Append(listing, x)
       PROVE  IndInv'
  <2>1. x \in Entry /\ (x.kind = "file" => x.at = BodyStart /\ x.size = FileSize)
    BY <1>6, <1>11
  <2>2. /\ listing' \in Seq(Entry) /\ Len(listing') = Len(listing) + 1
        /\ \A i \in DOMAIN listing : listing'[i] = listing[i] /\ listing[i] \in Entry
        /\ listing'[Len(listing) + 1] = x
        /\ \A i \in DOMAIN listing' : i \in DOMAIN listing \/ i = Len(listing) + 1
    BY <1>8, <1>11, <2>1
  <2>3. TypeOK'
    BY <1>1, <1>2, <1>4, <1>5, <2>2 DEF IndInv, TypeOK
  <2>4. \A i \in DOMAIN listing : listing[i].kind = "file" =>
          /\ listing[i].at \in Nat /\ listing[i].size \in Nat
          /\ listing[i].at + listing[i].size <= scan.pos
    BY <1>1, Placed DEF IndInv, Behind
  <2>5. Behind'
    <3> SUFFICES ASSUME NEW i \in DOMAIN listing', listing'[i].kind = "file"
                 PROVE  listing'[i].at + listing'[i].size <= NextRecord
      BY <1>4 DEF Behind
    <3>1. CASE i \in DOMAIN listing
      BY <1>0, <1>3, <2>2, <2>4, <3>1
    <3>2. CASE i = Len(listing) + 1
      BY <1>7, <2>1, <2>2, <3>2
    <3> QED BY <2>2, <3>1, <3>2
  <2>6. BodiesApart'
    <3> SUFFICES ASSUME NEW i \in DOMAIN listing', listing'[i].kind = "file"
                 PROVE  /\ listing'[i].at + listing'[i].size <= scan.len
                        /\ \A j \in 1 .. i - 1 : listing'[j].kind = "file" =>
                             listing'[j].at + listing'[j].size <= listing'[i].at
      BY <1>4 DEF BodiesApart
    <3>1. CASE i \in DOMAIN listing
      <4>1. \A j \in 1 .. i - 1 : j \in DOMAIN listing
        BY <1>8, <3>1
      <4>2. file.format = "cpio"
        BY DEF IndInv, TypeOK, CpioFile
      <4> QED BY <2>2, <3>1, <4>1, <4>2 DEF IndInv, BodiesApart
    <3>2. CASE i = Len(listing) + 1
      <4>1. \A j \in 1 .. i - 1 : j \in DOMAIN listing
        BY <1>8, <3>2
      <4>2. listing'[i].at = BodyStart /\ listing'[i].size = FileSize
        BY <2>1, <2>2, <3>2
      <4>3. ASSUME NEW j \in 1 .. i - 1, listing'[j].kind = "file"
            PROVE  listing'[j].at + listing'[j].size <= BodyStart
        <5>1. j \in DOMAIN listing /\ listing'[j] = listing[j] /\ listing[j].kind = "file"
          BY <2>2, <4>1, <4>3
        <5>2. /\ listing[j].at \in Nat /\ listing[j].size \in Nat
              /\ listing[j].at + listing[j].size <= scan.pos
          BY <2>4, <5>1
        <5> QED BY <1>0, <1>7, <5>1, <5>2
      <4> QED BY <1>7, <4>2, <4>3
    <3> QED BY <2>2, <3>1, <3>2
  <2> QED BY <1>1, <1>4, <2>3, <2>5, <2>6 DEF IndInv, InStep
<1> QED BY <1>9, <1>10, <1>11

LEMMA TrailerKeeps == IndInv /\ MeetTrailer => IndInv'
<1> SUFFICES ASSUME IndInv, MeetTrailer PROVE IndInv'
  OBVIOUS
<1>1. UNCHANGED <<file, scan, listing>> /\ status' = "open"
  BY DEF MeetTrailer, Opened
<1>2. answers' \in Seq(Answers) /\ DOMAIN answers' = DOMAIN listing
  <2>1. listing \in Seq(Entry)
    BY DEF IndInv, TypeOK
  <2> QED BY <2>1, NotReadType DEF MeetTrailer, Opened
<1> QED BY <1>1, <1>2 DEF IndInv, TypeOK, InStep, Behind, BodiesApart

----------------------------------------------------------------------------
LEMMA ReadType ==
  ASSUME IndInv, NEW i \in DOMAIN listing
  PROVE  ReadBody(listing[i]) \in Answers
<1> DEFINE e == listing[i]
           given == Bytes(file, e.at, Reach(file, e.at, e.size))
           read == ReadStored(file, e.at, e.size)
<1>1. e.at \in Nat /\ e.size \in Nat
  BY Placed
<1>2. file.len \in Nat /\ Sparse(file.byte, Nat)
  BY DEF IndInv, TypeOK, CpioFile
<1> HIDE DEF e
<1>3. given \in Seq(Nat)
  <2>1. Reach(file, e.at, e.size) \in Nat
    BY <1>1, <1>2 DEF Reach
  <2> QED BY <1>1, <1>2, <2>1, BytesType
<1>4. read \in Answers /\ read.given = given
  BY <1>3, AnswerType DEF ReadStored, Answer
<1>5. <<>> \in Seq(Nat)
  OBVIOUS
<1> HIDE DEF given, read
<1> QED BY <1>3, <1>4, <1>5, AnswerType DEF ReadBody, read, e

LEMMA ReadKeeps ==
  ASSUME IndInv, NEW i \in DOMAIN listing, ReadEntry(i)
  PROVE  IndInv'
<1>1. UNCHANGED <<file, scan, listing, status>> /\ status = "open"
  BY DEF ReadEntry
<1> DEFINE a == ReadBody(listing[i])
<1>2. a \in Answers /\ answers' = [answers EXCEPT ![i] = a]
  BY ReadType DEF ReadEntry
<1>3. answers \in Seq(Answers) /\ DOMAIN answers = DOMAIN listing
  BY <1>1 DEF IndInv, TypeOK
<1> HIDE DEF a
<1>4. answers' \in Seq(Answers) /\ DOMAIN answers' = DOMAIN listing
  BY <1>2, <1>3
<1> QED BY <1>1, <1>4 DEF IndInv, TypeOK, InStep, Behind, BodiesApart

LEMMA ShrinkKeeps == IndInv /\ Shrink => IndInv'
<1> SUFFICES ASSUME IndInv, Shrink PROVE IndInv'
  OBVIOUS
<1>1. PICK n \in Cuts : n <= file.len /\ file' = [file EXCEPT !.len = @ - n]
  BY DEF Shrink
<1>2. CpioFile(file) /\ n \in Nat
  BY CpioAssumption DEF IndInv, TypeOK
<1>3. CpioFile(file')
  BY <1>1, <1>2 DEF CpioFile, HasFields
<1>4. UNCHANGED <<scan, listing, status, answers>> /\ status = "open"
  BY DEF Shrink
<1>5. file.format = "cpio"
  BY <1>2 DEF CpioFile
<1>6. TypeOK'
  BY <1>3, <1>4 DEF IndInv, TypeOK
<1> QED BY <1>4, <1>5, <1>6 DEF IndInv, InStep, Behind, BodiesApart

LEMMA NextInd == IndInv /\ [Next]_vars => IndInv'
<1> SUFFICES ASSUME IndInv, [Next]_vars PROVE IndInv'
  OBVIOUS
<1>1. CASE NoMagic \/ SpillFails \/ BadRecord
  BY <1>1, RefuseKeeps DEF NoMagic, SpillFails, BadRecord
<1>2. CASE UNCHANGED vars
  BY <1>2 DEF vars, IndInv, TypeOK, InStep, Behind, BodiesApart
<1> QED BY <1>1, <1>2, StartKeeps, RecordKeeps, TrailerKeeps, ReadKeeps, ShrinkKeeps DEF Next

LEMMA AlwaysInd == Spec => []IndInv
BY InitInd, NextInd, PTL DEF Spec

----------------------------------------------------------------------------
\* Every field of every record is checked before it is used: what is listed are
\* entries, what is answered are bytes (scan_newc_seekable, build_entries).
THEOREM TypeCorrect == Spec => []TypeOK
<1>1. IndInv => TypeOK
  BY DEF IndInv
<1> QED BY <1>1, AlwaysInd, PTL

\* The reader, which is moved by relative seeks only, is at every record where
\* the walk counts it to be, whatever lengths, padding and links came before
\* (skip_to, pad4).
THEOREM ReaderIsInStep == Spec => []InStep
<1>1. IndInv => InStep
  BY DEF IndInv
<1> QED BY <1>1, AlwaysInd, PTL

----------------------------------------------------------------------------
\* cpio: what an entry owes to the member it stands for.
Faithful(e, m) ==
  /\ e.path = m.path /\ e.kind = m.kind
  /\ m.kind = "file" =>
       /\ e.size = Len(m.content)
       /\ \/ Bytes(file, e.at, e.size) = m.content
          \/ e.sum # None /\ e.sum # Sum(Bytes(file, e.at, e.size))
  /\ m.kind = "link" /\ file.damage # "body" => e.target = m.content

AllFaithful == \A i \in DOMAIN listing : Faithful(listing[i], file.members[i])

\* The walk is at a spot, or where a spoiled header has led it to no record.
Walked(last) ==
  /\ last \in DOMAIN file.spots /\ EndsAt(file, last)
  /\ \A k \in 1 .. last - 1 : Laid(file, k) /\ Kept(file, k)

AtSpot(k) ==
  /\ scan.pos = file.spots[k].at
  /\ Len(listing) = file.spots[k].before
  /\ AllFaithful

Lost == file.damage = "header" /\ scan.pos \notin DOMAIN file.rec

OnTheWay ==
  status = "walking" =>
    /\ WrittenCpio(file)
    /\ scan.dialect = MagicOf(file) /\ scan.len = file.len
    /\ Lost \/ \E last \in DOMAIN file.spots : Walked(last) /\ \E k \in 1 .. last : AtSpot(k)

CpioInv ==
  /\ IndInv /\ OnTheWay
  /\ file.damage \in {"none", "body", "cut", "header"}
  /\ status = "new" => WrittenCpio(file)
  /\ status = "open" => /\ file.damage \in {"none", "body"}
                        /\ Len(listing) = Len(file.members) /\ AllFaithful
  /\ status = "Corrupt" => file.damage # "none"
  /\ status \notin {"walking", "open"} => listing = <<>>
  /\ status # "open" => answers = <<>>
  /\ \A i \in DOMAIN answers : answers[i].said = "ok" /\ file.members[i].kind = "file" =>
        answers[i].given = file.members[i].content

----------------------------------------------------------------------------
LEMMA SpotFacts ==
  ASSUME WrittenCpio(file), NEW k \in DOMAIN file.spots
  PROVE  file.spots[k].at \in Nat /\ file.spots[k].size \in Nat /\ file.spots[k].before \in Nat
         /\ file.spots[k].body \in Nat
<1>1. file.spots \in Seq(CpioSpot)
  BY DEF WrittenCpio
<1>2. file.spots[k] \in CpioSpot
  BY <1>1, Element
<1> QED BY <1>2 DEF CpioSpot

\* Every record begins where its dialect lets one begin.
LEMMA SpotAligned ==
  ASSUME WrittenCpio(file), NEW last, Walked(last), NEW k \in 1 .. last, MagicOf(file) # "odc"
  PROVE  file.spots[k].at % 4 = 0
<1>1. k \in Nat /\ last \in Nat /\ last \in DOMAIN file.spots
  <2>1. DOMAIN file.spots = 1 .. Len(file.spots) /\ Len(file.spots) \in Nat
    BY DEF WrittenCpio
  <2> QED BY <2>1 DEF Walked
<1>2. CASE k = 1
  BY <1>2 DEF WrittenCpio
<1>3. CASE k # 1
  <2>1. k - 1 \in 1 .. last - 1 /\ (k - 1) + 1 = k
    BY <1>1, <1>3
  <2>2. k - 1 \in DOMAIN file.spots
    <3>1. DOMAIN file.spots = 1 .. Len(file.spots) /\ Len(file.spots) \in Nat
      BY DEF WrittenCpio
    <3> QED BY <1>1, <2>1, <3>1
  <2>3. Laid(file, k - 1)
    BY <2>1 DEF Walked
  <2>4. PICK b \in Nat : b = file.spots[k - 1].body + file.spots[k - 1].size
    BY <2>2, SpotFacts
  <2>5. file.spots[k].at = Aligned(MagicOf(file), b)
    BY <2>1, <2>3, <2>4 DEF Laid
  <2>6. file.spots[k].at = 4 * ((b + 3) \div 4)
    BY <2>5 DEF Aligned
  <2> QED BY <2>4, <2>6
<1> QED BY <1>2, <1>3

\* At a spot the reader finds the spot's header.
LEMMA FindsSpot ==
  ASSUME IndInv, status = "walking", NEW k, scan.pos = file.spots[k].at,
         scan.dialect = MagicOf(file)
  PROVE  /\ hdr = HeaderOf(file, k) /\ Dialect = MagicOf(file)
         /\ FileSize = SizeOf(file, k) /\ NameSize = NameLen(file, k)
         /\ Dialect = "crc" => Check = SumOf(file, k)
         /\ AfterName = NameEnd(file, k)
         /\ There <=> file.spots[k].at \in DOMAIN file.rec
<1>1. scan.at = scan.pos
  BY DEF IndInv, InStep
<1>2. hdr = HeaderOf(file, k) /\ Dialect = MagicOf(file)
  BY <1>1 DEF hdr, HeaderOf, Dialect
<1>3. FileSize = SizeOf(file, k) /\ NameSize = NameLen(file, k)
  BY <1>2 DEF FileSize, SizeOf, NameSize, NameLen
<1>4. Dialect = "crc" => Check = SumOf(file, k)
  BY <1>2 DEF Check, SumOf
<1>5. AfterName = NameEnd(file, k)
  BY <1>2, <1>3 DEF AfterName, AfterHeader, NameEnd
<1>6. There <=> file.spots[k].at \in DOMAIN file.rec
  BY <1>1 DEF There
<1> QED BY <1>2, <1>3, <1>4, <1>5, <1>6

\* Padding counted from an aligned place aligns.
LEMMA PadAligns ==
  ASSUME NEW p \in Nat, p % 4 = 0, NEW n \in Nat
  PROVE  /\ p + n + Pad4(n) = 4 * ((p + n + 3) \div 4)
         /\ (p + n + Pad4(n)) % 4 = 0
<1>1. PICK q \in Nat : p = 4 * q
  <2>1. p = 4 * (p \div 4) /\ p \div 4 \in Nat
    OBVIOUS
  <2> QED BY <2>1
<1>2. PICK a \in Nat, r \in 0 .. 3 : n = (4 * a) + r
  <2>1. n = (4 * (n \div 4)) + (n % 4) /\ n \div 4 \in Nat /\ n % 4 \in 0 .. 3
    OBVIOUS
  <2> QED BY <2>1
<1>3. Pad4(n) = IF r = 0 THEN 0 ELSE 4 - r
  <2>1. n % 4 = r
    BY <1>2
  <2> QED BY <2>1 DEF Pad4
<1>4. p + n + Pad4(n) = 4 * (q + a + IF r = 0 THEN 0 ELSE 1)
  BY <1>1, <1>2, <1>3
<1>5. (p + n + 3) \div 4 = q + a + IF r = 0 THEN 0 ELSE 1
  BY <1>1, <1>2
<1> QED BY <1>1, <1>2, <1>4, <1>5

\* Padding counted from the record comes to the same as padding counted in the
\* file.
LEMMA AlignsAlike ==
  ASSUME IndInv, status = "walking", SoundHeader, Dialect = "odc" \/ scan.pos % 4 = 0
  PROVE  /\ BodyStart = Aligned(Dialect, AfterName)
         /\ NextRecord = Aligned(Dialect, BodyStart + FileSize)
<1> DEFINE n == HeaderLen[Dialect] + NameSize
<1>1. /\ FileSize \in Nat /\ n \in Nat /\ scan.pos \in Nat
      /\ AfterName = scan.pos + n /\ NamePad \in Nat /\ BodyPad \in Nat
      /\ BodyStart = AfterName + NamePad /\ NextRecord = BodyStart + FileSize + BodyPad
  BY Positions
<1>2. CASE Dialect = "odc"
  BY <1>1, <1>2 DEF NamePad, BodyPad, Aligned
<1>3. CASE Dialect # "odc"
  <2>1. NamePad = Pad4(n) /\ BodyPad = Pad4(FileSize)
    BY <1>3 DEF NamePad, BodyPad
  <2> HIDE DEF n
  <2>2. scan.pos % 4 = 0
    BY <1>3
  <2>3. BodyStart = 4 * ((AfterName + 3) \div 4) /\ BodyStart % 4 = 0
    BY <1>1, <2>1, <2>2, PadAligns
  <2>4. NextRecord = 4 * ((BodyStart + FileSize + 3) \div 4)
    BY <1>1, <2>1, <2>3, PadAligns
  <2> QED BY <1>3, <2>3, <2>4 DEF Aligned
<1> QED BY <1>2, <1>3

LEMMA CpioStarts == Init => CpioInv
<1> SUFFICES ASSUME Init PROVE CpioInv
  OBVIOUS
<1>1. WrittenCpio(file)
  BY WrittenAssumption DEF Init
<1>2. IndInv
  BY InitInd
<1>3. file.damage \in {"none", "body", "cut", "header"}
  BY <1>1 DEF WrittenCpio, EndsAt
<1> QED BY <1>1, <1>2, <1>3 DEF Init, CpioInv, OnTheWay

\* An archive nothing has happened to begins with a magic.
LEMMA WholeBegins ==
  ASSUME WrittenCpio(file), CpioFile(file), file.damage = "none"
  PROVE  file.len >= MagicLen /\ 0 \in DOMAIN file.rec /\ file.rec[0].magic \in Dialects
<1>1. PICK last \in DOMAIN file.spots : Walked(last)
  BY DEF WrittenCpio, Walked
<1>2. /\ last = Len(file.spots) /\ SoundSpot(file, last) /\ NameEnd(file, last) <= file.len
  BY <1>1 DEF Walked, EndsAt
<1>3. 1 \in DOMAIN file.spots /\ 1 <= last /\ last \in Nat
  BY <1>2 DEF WrittenCpio
<1>4. SoundSpot(file, 1)
  <2>1. CASE last = 1
    BY <1>2, <2>1
  <2>2. CASE last # 1
    <3>1. 1 \in 1 .. last - 1
      BY <1>3, <2>2
    <3> QED BY <1>1, <3>1 DEF Walked, Laid
  <2> QED BY <2>1, <2>2
<1>5. 0 \in DOMAIN file.rec /\ MagicOf(file) \in Dialects
  BY <1>4 DEF SoundSpot, WrittenCpio
<1>6. file.spots[last].at \in Nat /\ NameLen(file, last) \in Nat
  BY <1>2, SpotFacts DEF SoundSpot
<1>7. HeaderLen[MagicOf(file)] \in Nat /\ HeaderLen[MagicOf(file)] >= 76
  BY <1>5 DEF Dialects, HeaderLen
<1>8. file.len \in Nat
  BY DEF CpioFile
<1>9. file.len >= 76
  BY <1>2, <1>6, <1>7, <1>8 DEF NameEnd
<1> QED BY <1>5, <1>8, <1>9 DEF MagicOf, MagicLen

LEMMA Refuses ==
  ASSUME CpioInv, [Next]_vars, NEW error, Refuse(error), status # "open",
         error = "Corrupt" => file.damage # "none", error \in {"Corrupt", "Io"}
  PROVE  CpioInv'
<1>1. /\ status' = error /\ listing' = <<>> /\ UNCHANGED <<file, scan, answers>>
  BY DEF Refuse
<1>2. IndInv'
  BY NextInd DEF CpioInv
<1> QED BY <1>1, <1>2 DEF CpioInv, OnTheWay

LEMMA NoMagicIsDamage ==
  ASSUME CpioInv, [Next]_vars, NoMagic
  PROVE  CpioInv'
<1>1. WrittenCpio(file) /\ CpioFile(file) /\ status = "new"
  BY DEF CpioInv, IndInv, TypeOK, NoMagic
<1>2. file.damage # "none"
  BY <1>1, WholeBegins DEF NoMagic
<1> QED BY <1>1, <1>2, Refuses DEF NoMagic

LEMMA WalkBegins ==
  ASSUME CpioInv, [Next]_vars, Start
  PROVE  CpioInv'
<1>1. /\ status = "new" /\ status' = "walking" /\ UNCHANGED <<file, listing, answers>>
      /\ scan' = [dialect |-> file.rec[0].magic, pos |-> 0, at |-> 0, len |-> file.len]
  BY DEF Start
<1>2. IndInv' /\ WrittenCpio(file) /\ listing = <<>> /\ answers = <<>>
  BY <1>1, NextInd DEF CpioInv
<1>3. PICK last \in DOMAIN file.spots : Walked(last)
  BY <1>2 DEF WrittenCpio, Walked
<1>4. Walked(last)'
  BY <1>1, <1>3 DEF Walked
<1>5. 1 \in 1 .. last
  BY <1>2, <1>3 DEF WrittenCpio
<1>6. AtSpot(1)'
  BY <1>1, <1>2 DEF AtSpot, WrittenCpio, AllFaithful
<1>7. OnTheWay'
  <2>1. scan'.dialect = MagicOf(file) /\ scan'.len = file.len
    BY <1>1 DEF MagicOf
  <2> QED BY <1>1, <1>2, <1>3, <1>4, <1>5, <1>6, <2>1 DEF OnTheWay
<1> QED BY <1>1, <1>2, <1>7 DEF CpioInv

\* A record the walk passes is one that another follows, or the last it passes.
LEMMA PassesOn ==
  ASSUME CpioInv, Record,
         NEW last, Walked(last), NEW k \in 1 .. last, AtSpot(k)
  PROVE  \/ k < last
         \/ file.damage = "header" /\ NextRecord \notin DOMAIN file.rec
<1>1. /\ status = "walking" /\ SoundHeader /\ hdr.name # Trailer /\ SoundBody
  BY DEF Record
<1>2. IndInv /\ WrittenCpio(file) /\ scan.dialect = MagicOf(file) /\ scan.len = file.len
  BY <1>1 DEF CpioInv, OnTheWay
<1>3. scan.pos = file.spots[k].at
  BY DEF AtSpot
<1>4. /\ hdr = HeaderOf(file, k) /\ Dialect = MagicOf(file)
      /\ FileSize = SizeOf(file, k) /\ NameSize = NameLen(file, k)
      /\ Dialect = "crc" => Check = SumOf(file, k)
      /\ AfterName = NameEnd(file, k)
      /\ There <=> file.spots[k].at \in DOMAIN file.rec
  BY <1>1, <1>2, <1>3, FindsSpot
<1>5. k \in Nat /\ last \in Nat /\ last \in DOMAIN file.spots
  <2>1. DOMAIN file.spots = 1 .. Len(file.spots) /\ Len(file.spots) \in Nat
    BY <1>2 DEF WrittenCpio
  <2> QED BY <2>1 DEF Walked
<1> SUFFICES ASSUME k = last PROVE file.damage = "header" /\ NextRecord \notin DOMAIN file.rec
  BY <1>5
<1>6. file.damage = "header" /\ Spoiled(file, k)
  BY <1>1, <1>4 DEF Walked, EndsAt
<1>7. SoundSpot(file, k)
  <2>1. MagicOf(file) \in Dialects
    BY <1>1, <1>2, <1>4 DEF IndInv, TypeOK
  <2> QED BY <1>1, <1>4, <2>1 DEF SoundHeader, SoundSpot
<1>8. LET next == Aligned(MagicOf(file), Aligned(MagicOf(file), NameEnd(file, k)) + SizeOf(file, k))
      IN next > file.len \/ next \notin DOMAIN file.rec
  BY <1>6, <1>7 DEF Spoiled
<1>9. Dialect = "odc" \/ scan.pos % 4 = 0
  BY <1>2, <1>3, <1>4, SpotAligned
<1>10. NextRecord = Aligned(MagicOf(file),
                            Aligned(MagicOf(file), NameEnd(file, k)) + SizeOf(file, k))
  BY <1>1, <1>2, <1>4, <1>9, AlignsAlike
<1>11. NextRecord <= file.len /\ NextRecord \in Nat /\ file.len \in Nat
  <2>1. NextRecord \in Nat
    BY <1>1, <1>2, Positions
  <2>2. file.len \in Nat
    BY <1>2 DEF IndInv, TypeOK, CpioFile
  <2> QED BY <1>1, <1>2, <2>1, <2>2 DEF SoundBody, Fits
<1> QED BY <1>6, <1>8, <1>10, <1>11

\* Without its padding a target is itself (trim_nuls).
LEMMA TrimsToTarget ==
  ASSUME NEW bytes \in Seq(Nat), NEW target, Pads(target, bytes)
  PROVE  TrimNuls(bytes) = target
<1> DEFINE K == {k \in DOMAIN bytes : \E j \in k .. Len(bytes) : bytes[j] # 0}
<1>1. PICK n \in Nat : n = Len(bytes)
  OBVIOUS
<1>2. PICK t \in Nat : t = Len(target) /\ t <= n
  BY <1>1 DEF Pads
<1>3. DOMAIN bytes = 1..n /\ DOMAIN target = 1..t /\ target \in Seq(Nat)
  BY <1>1, <1>2 DEF Pads
<1>4. \A j \in 1..n : bytes[j] = IF j <= t THEN target[j] ELSE 0
  BY <1>2, <1>3 DEF Pads
<1>5. t > 0 => target[t] # 0
  BY <1>2, <1>3 DEF Pads
<1>6. K = 1..t
  <2>1. ASSUME NEW k \in 1..n, k <= t
        PROVE  \E j \in k .. n : bytes[j] # 0
    <3>1. t \in k .. n /\ t \in 1..n /\ t > 0
      BY <1>2, <2>1
    <3>2. bytes[t] # 0
      BY <1>4, <1>5, <3>1
    <3> QED BY <3>1, <3>2
  <2>2. ASSUME NEW k \in 1..n, NEW j \in k .. n, bytes[j] # 0
        PROVE  k <= t
    BY <1>2, <1>4, <2>2
  <2>3. \A k \in 1..n : k \in K <=> k <= t
    BY <1>1, <1>3, <2>1, <2>2
  <2> QED BY <1>2, <1>3, <2>3
<1>7. Cardinality(K) = t
  <2>1. Cardinality(1..t) = t
    BY FS_Interval
  <2> HIDE DEF K
  <2> QED BY <1>6, <2>1
<1>8. TrimNuls(bytes) = SubSeq(bytes, 1, t)
  BY <1>7 DEF TrimNuls
<1> HIDE DEF K
<1>9. SubSeq(bytes, 1, t) = [j \in 1..t |-> bytes[j]]
  BY <1>1, <1>2, <1>3
<1>10. target = [j \in 1..t |-> target[j]]
  BY <1>3
<1>11. \A j \in 1..t : bytes[j] = target[j]
  BY <1>2, <1>4
<1> QED BY <1>8, <1>9, <1>10, <1>11

\* What the walk reads of a link's target begins where its body does.
LEMMA TargetIsBody ==
  ASSUME IndInv, status = "walking", SoundHeader
  PROVE  LinkEntry.target = TrimNuls(Bytes(file, BodyStart, FileSize))
<1>1. scan.at + HeaderLen[Dialect] + NameSize + Skip(AfterName, BodyStart) = BodyStart
  <2>1. scan.at = scan.pos
    BY DEF IndInv, InStep
  <2>2. Skip(AfterName, BodyStart) = NamePad
    BY Positions DEF Skip
  <2> QED BY <2>1, <2>2, Positions
<1> QED BY <1>1 DEF LinkEntry, FileEntry

\* The entry of a record is the member the record holds.
LEMMA EntryIsFaithful ==
  ASSUME IndInv, status = "walking", SoundHeader, scan.dialect = MagicOf(file),
         NEW k, scan.pos = file.spots[k].at, NEW m, Holds(file, k, m),
         file.spots[k].body = BodyStart, file.spots[k].size = FileSize
  PROVE  /\ hdr.type = "reg" => Faithful(FileEntry, m)
         /\ hdr.type = "dir" => Faithful(DirEntry, m)
         /\ hdr.type = "link" => Faithful(LinkEntry, m)
<1> DEFINE bytes == Bytes(file, BodyStart, FileSize)
<1>1. /\ hdr = HeaderOf(file, k) /\ Dialect = MagicOf(file)
      /\ Dialect = "crc" => Check = SumOf(file, k)
  BY FindsSpot
<1>2. m.path = PathOf(hdr.name)
  BY <1>1 DEF Holds
<1>3. /\ hdr.type = "reg" => /\ m.kind = "file" /\ Len(m.content) = FileSize
                             /\ m.content = bytes \/ (Dialect = "crc" /\ Check # Sum(bytes))
      /\ hdr.type = "dir" => m.kind = "dir"
      /\ hdr.type = "link" => m.kind = "link" /\ (file.damage = "body" \/ Pads(m.content, bytes))
  BY <1>1 DEF Holds
<1>4. Dialect = "crc" => Check # None
  BY DEF SoundHeader, None
<1>5. bytes \in Seq(Nat)
  <2>1. BodyStart \in Nat /\ FileSize \in Nat
    BY Positions
  <2>2. Sparse(file.byte, Nat)
    BY DEF IndInv, TypeOK, CpioFile
  <2> QED BY <2>1, <2>2, BytesType
<1>6. LinkEntry.path = PathOf(hdr.name) /\ LinkEntry.kind = "link"
  BY DEF LinkEntry, FileEntry
<1>7. ASSUME hdr.type = "reg" PROVE Faithful(FileEntry, m)
  BY <1>2, <1>3, <1>4, <1>7 DEF Faithful, FileEntry
<1>8. ASSUME hdr.type = "dir" PROVE Faithful(DirEntry, m)
  BY <1>2, <1>3, <1>8 DEF Faithful, FileEntry, DirEntry
<1>9. ASSUME hdr.type = "link" PROVE Faithful(LinkEntry, m)
  <2>1. file.damage # "body" => TrimNuls(bytes) = m.content
    BY <1>3, <1>5, <1>9, TrimsToTarget
  <2>2. LinkEntry.target = TrimNuls(bytes)
    BY TargetIsBody
  <2> HIDE DEF bytes
  <2> QED BY <1>2, <1>3, <1>6, <1>9, <2>1, <2>2 DEF Faithful
<1> QED BY <1>7, <1>8, <1>9

\* After a record that another follows the walk is at that one.
LEMMA PassesToNext ==
  ASSUME CpioInv, [Next]_vars, Record,
         NEW last, Walked(last), NEW k \in 1 .. last, AtSpot(k), k < last
  PROVE  CpioInv'
<1>1. /\ status = "walking" /\ SoundHeader /\ UNCHANGED <<file, status, answers>>
      /\ scan' = [scan EXCEPT !.pos = NextRecord, !.at = @ + ReaderMoves]
      /\ listing' = Listed
  BY DEF Record
<1>2. /\ IndInv /\ IndInv' /\ WrittenCpio(file)
      /\ scan.dialect = MagicOf(file) /\ scan.len = file.len
  BY <1>1, NextInd DEF CpioInv, OnTheWay
<1>3. scan.pos = file.spots[k].at /\ Len(listing) = file.spots[k].before /\ AllFaithful
  BY DEF AtSpot
<1>4. /\ hdr = HeaderOf(file, k) /\ Dialect = MagicOf(file)
      /\ FileSize = SizeOf(file, k) /\ AfterName = NameEnd(file, k)
  BY <1>1, <1>2, <1>3, FindsSpot
<1>5. /\ k \in Nat /\ last \in Nat /\ k \in DOMAIN file.spots /\ k + 1 \in DOMAIN file.spots
      /\ k + 1 \in 1 .. last /\ k \in 1 .. last - 1
  <2>1. DOMAIN file.spots = 1 .. Len(file.spots) /\ Len(file.spots) \in Nat
    BY <1>2 DEF WrittenCpio
  <2> QED BY <2>1 DEF Walked
<1>6. Laid(file, k) /\ Kept(file, k)
  BY <1>5 DEF Walked
<1>7. Dialect = "odc" \/ scan.pos % 4 = 0
  BY <1>2, <1>3, <1>4, SpotAligned
<1>8. BodyStart = file.spots[k].body /\ FileSize = file.spots[k].size
  BY <1>1, <1>2, <1>4, <1>6, <1>7, AlignsAlike DEF Laid
<1>9. NextRecord = file.spots[k + 1].at
  BY <1>1, <1>2, <1>4, <1>6, <1>7, <1>8, AlignsAlike DEF Laid
<1>10. scan'.pos = NextRecord /\ scan'.dialect = scan.dialect /\ scan'.len = scan.len
  BY <1>1, <1>2 DEF IndInv, TypeOK
<1>11. listing \in Seq(Entry) /\ listing' \in Seq(Entry)
  BY <1>2 DEF IndInv, TypeOK
<1>12. \A e, m : Faithful(e, m)' <=> Faithful(e, m)
  BY <1>1 DEF Faithful
<1>13. Len(listing') = file.spots[k + 1].before /\ AllFaithful'
  <2>1. CASE hdr.type = "other"
    <3>1. listing' = listing
      BY <1>1, <2>1 DEF Listed
    <3> QED BY <1>1, <1>3, <1>4, <1>6, <1>12, <2>1, <3>1 DEF Kept, AllFaithful
  <2>2. CASE hdr.type # "other"
    <3>1. /\ file.spots[k + 1].before = Len(listing) + 1
          /\ Holds(file, k, file.members[Len(listing) + 1])
      BY <1>3, <1>4, <1>6, <2>2 DEF Kept
    <3>2. hdr.type \in {"reg", "dir", "link"}
      BY <1>4, <2>2, <3>1 DEF Holds
    <3>3. PICK e : listing' = Append(listing, e) /\ Faithful(e, file.members[Len(listing) + 1])
      <4>1. /\ hdr.type = "reg" => Faithful(FileEntry, file.members[Len(listing) + 1])
            /\ hdr.type = "dir" => Faithful(DirEntry, file.members[Len(listing) + 1])
            /\ hdr.type = "link" => Faithful(LinkEntry, file.members[Len(listing) + 1])
        BY <1>1, <1>2, <1>3, <1>8, <3>1, EntryIsFaithful
      <4> QED BY <1>1, <3>2, <4>1 DEF Listed
    <3>4. /\ Len(listing') = Len(listing) + 1 /\ listing'[Len(listing) + 1] = e
          /\ \A i \in DOMAIN listing : listing'[i] = listing[i]
          /\ \A i \in DOMAIN listing' : i \in DOMAIN listing \/ i = Len(listing) + 1
      BY <1>11, <3>3
    <3>5. ASSUME NEW i \in DOMAIN listing' PROVE Faithful(listing'[i], file.members[i])
      <4>1. CASE i \in DOMAIN listing
        BY <1>3, <3>4, <4>1 DEF AllFaithful
      <4>2. CASE i = Len(listing) + 1
        BY <3>3, <3>4, <4>2
      <4> QED BY <3>4, <4>1, <4>2
    <3>6. AllFaithful'
      BY <1>1, <1>12, <3>5 DEF AllFaithful
    <3> QED BY <3>1, <3>4, <3>6
  <2> QED BY <2>1, <2>2
<1>14. AtSpot(k + 1)' /\ Walked(last)'
  BY <1>1, <1>9, <1>10, <1>13 DEF AtSpot, Walked
<1>15. OnTheWay'
  <2>1. (\E l \in DOMAIN file.spots : Walked(l) /\ \E j \in 1 .. l : AtSpot(j))'
    BY <1>1, <1>5, <1>14 DEF Walked
  <2> QED BY <1>1, <1>2, <1>10, <2>1 DEF OnTheWay
<1> QED BY <1>1, <1>2, <1>15 DEF CpioInv

LEMMA RecordPasses ==
  ASSUME CpioInv, [Next]_vars, Record
  PROVE  CpioInv'
<1>1. /\ status = "walking" /\ SoundHeader /\ UNCHANGED <<file, status, answers>>
      /\ scan' = [scan EXCEPT !.pos = NextRecord, !.at = @ + ReaderMoves]
  BY DEF Record
<1>2. IndInv /\ IndInv' /\ OnTheWay
  BY NextInd DEF CpioInv
<1>3. ~Lost
  <2>1. scan.at = scan.pos
    BY <1>1, <1>2 DEF IndInv, InStep
  <2> QED BY <1>1, <2>1 DEF Lost, SoundHeader, There
<1>4. PICK last \in DOMAIN file.spots : Walked(last) /\ \E k \in 1 .. last : AtSpot(k)
  BY <1>1, <1>2, <1>3 DEF OnTheWay
<1>5. PICK k \in 1 .. last : AtSpot(k)
  BY <1>4
<1>6. CASE k < last
  BY <1>4, <1>5, <1>6, PassesToNext
<1>7. CASE file.damage = "header" /\ NextRecord \notin DOMAIN file.rec
  <2>1. scan'.pos = NextRecord /\ scan'.dialect = scan.dialect /\ scan'.len = scan.len
    BY <1>1, <1>2 DEF IndInv, TypeOK
  <2>2. OnTheWay'
    BY <1>1, <1>2, <1>7, <2>1 DEF OnTheWay, Lost
  <2> QED BY <1>1, <1>2, <2>2 DEF CpioInv
<1> QED BY <1>4, <1>5, <1>6, <1>7, PassesOn

LEMMA TrailerOpens ==
  ASSUME CpioInv, [Next]_vars, MeetTrailer
  PROVE  CpioInv'
<1>1. /\ status = "walking" /\ SoundHeader /\ hdr.name = Trailer
      /\ UNCHANGED <<file, scan, listing>> /\ status' = "open"
      /\ answers' = [k \in DOMAIN listing |-> NotRead]
  BY DEF MeetTrailer, Opened
<1>2. /\ IndInv /\ IndInv' /\ WrittenCpio(file)
      /\ scan.dialect = MagicOf(file) /\ scan.len = file.len
  BY <1>1, NextInd DEF CpioInv, OnTheWay
<1>3. ~Lost
  <2>1. scan.at = scan.pos
    BY <1>1, <1>2 DEF IndInv, InStep
  <2> QED BY <1>1, <2>1 DEF Lost, SoundHeader, There
<1>4. PICK last \in DOMAIN file.spots : Walked(last) /\ \E k \in 1 .. last : AtSpot(k)
  BY <1>1, <1>3 DEF CpioInv, OnTheWay
<1>5. PICK k \in 1 .. last : AtSpot(k)
  BY <1>4
<1>6. scan.pos = file.spots[k].at /\ Len(listing) = file.spots[k].before /\ AllFaithful
  BY <1>5 DEF AtSpot
<1>7. /\ hdr = HeaderOf(file, k) /\ Dialect = MagicOf(file)
      /\ FileSize = SizeOf(file, k) /\ NameSize = NameLen(file, k)
      /\ Dialect = "crc" => Check = SumOf(file, k)
      /\ AfterName = NameEnd(file, k)
      /\ There <=> file.spots[k].at \in DOMAIN file.rec
  BY <1>1, <1>2, <1>6, FindsSpot
<1>8. k = last
  <2>1. k \in Nat /\ last \in Nat
    <3>1. DOMAIN file.spots = 1 .. Len(file.spots) /\ Len(file.spots) \in Nat
      BY <1>2 DEF WrittenCpio
    <3> QED BY <1>4, <3>1 DEF Walked
  <2>2. ASSUME k # last PROVE FALSE
    <3>1. k \in 1 .. last - 1
      BY <2>1, <2>2
    <3> QED BY <1>1, <1>4, <1>7, <3>1 DEF Walked, Laid
  <2> QED BY <2>2
<1>9. SoundSpot(file, k)
  <2>1. MagicOf(file) \in Dialects
    BY <1>1, <1>2, <1>7 DEF IndInv, TypeOK
  <2> QED BY <1>1, <1>7, <2>1 DEF SoundHeader, SoundSpot
<1>10. ~Spoiled(file, k)
  BY <1>1, <1>7, <1>9 DEF Spoiled
<1>11. NameEnd(file, k) <= file.len
  BY <1>1, <1>2, <1>7 DEF SoundHeader, Fits
<1>12. file.damage \in {"none", "body"} /\ file.spots[k].before = Len(file.members)
  BY <1>4, <1>8, <1>10, <1>11 DEF Walked, EndsAt
<1>13. AllFaithful'
  BY <1>1, <1>6 DEF AllFaithful, Faithful
<1>14. \A i \in DOMAIN answers' : answers'[i].said # "ok"
  BY <1>1 DEF NotRead, Answer
<1> QED BY <1>1, <1>2, <1>6, <1>12, <1>13, <1>14 DEF CpioInv, OnTheWay

LEMMA AlignedUp == \A d : \A n \in Nat : Aligned(d, n) \in Nat /\ Aligned(d, n) >= n
<1> SUFFICES ASSUME NEW d, NEW n \in Nat PROVE Aligned(d, n) \in Nat /\ Aligned(d, n) >= n
  OBVIOUS
<1>1. 4 * ((n + 3) \div 4) \in Nat /\ 4 * ((n + 3) \div 4) >= n
  OBVIOUS
<1> QED BY <1>1 DEF Aligned

\* In an archive nothing has happened to there is a whole record at every spot.
LEMMA WholePasses ==
  ASSUME CpioInv, status = "walking", file.damage = "none",
         NEW last, Walked(last), NEW k \in 1 .. last, AtSpot(k)
  PROVE  SoundHeader /\ (hdr.name = Trailer \/ SoundBody)
<1>1. /\ IndInv /\ WrittenCpio(file) /\ scan.dialect = MagicOf(file) /\ scan.len = file.len
      /\ scan.pos = file.spots[k].at
  BY DEF CpioInv, OnTheWay, AtSpot
<1>2. /\ hdr = HeaderOf(file, k) /\ Dialect = MagicOf(file)
      /\ FileSize = SizeOf(file, k) /\ NameSize = NameLen(file, k)
      /\ Dialect = "crc" => Check = SumOf(file, k)
      /\ AfterName = NameEnd(file, k)
      /\ There <=> file.spots[k].at \in DOMAIN file.rec
  BY <1>1, FindsSpot
<1>3. /\ k \in Nat /\ last \in Nat /\ k \in DOMAIN file.spots /\ last \in DOMAIN file.spots
      /\ k # last => k \in 1 .. last - 1 /\ k + 1 \in DOMAIN file.spots /\ k + 1 <= last
  <2>1. DOMAIN file.spots = 1 .. Len(file.spots) /\ Len(file.spots) \in Nat
    BY <1>1 DEF WrittenCpio
  <2> QED BY <2>1 DEF Walked
<1>4. /\ SoundSpot(file, last) /\ HeaderOf(file, last).name = Trailer
      /\ NameEnd(file, last) <= file.len
  BY DEF Walked, EndsAt
<1>5. SoundSpot(file, k)
  BY <1>3, <1>4 DEF Walked, Laid
<1>6. /\ FileSize \in Nat /\ NameSize \in Nat /\ NameSize > 0 /\ HeaderLen[Dialect] \in Nat
      /\ scan.pos \in Nat /\ file.len \in Nat
      /\ AfterHeader = scan.pos + HeaderLen[Dialect] /\ AfterName = AfterHeader + NameSize
  <2>1. Dialect \in Dialects /\ scan.pos \in Nat /\ file.len \in Nat
    BY <1>1 DEF IndInv, TypeOK, Dialect, CpioFile
  <2>2. HeaderLen[Dialect] \in Nat
    BY <2>1, HeaderLenType
  <2> QED BY <1>2, <1>5, <2>1, <2>2 DEF SoundSpot, AfterHeader, AfterName
<1>7. ASSUME AfterName <= file.len PROVE SoundHeader
  BY <1>1, <1>2, <1>5, <1>6, <1>7 DEF SoundHeader, SoundSpot, Fits
<1>8. CASE k = last
  BY <1>2, <1>4, <1>7, <1>8
<1>9. CASE k # last
  <2>1. Laid(file, k)
    BY <1>3, <1>9 DEF Walked
  <2>2. PICK b \in Nat, s \in Nat, n \in Nat, l \in Nat, e \in Nat :
          /\ b = file.spots[k].body /\ s = file.spots[k].size
          /\ n = file.spots[k + 1].at /\ l = file.spots[last].at /\ e = NameEnd(file, last)
    <3>1. NameEnd(file, last) \in Nat
      <4>1. HeaderLen[MagicOf(file)] \in Nat
        BY <1>2, <1>6
      <4> QED BY <1>1, <1>3, <1>4, <4>1, SpotFacts DEF NameEnd, SoundSpot
    <3> QED BY <1>1, <1>3, <1>9, <3>1, SpotFacts
  <2>3. n <= l
    BY <1>1, <1>3, <1>9, <2>2 DEF WrittenCpio
  <2>4. l <= e
    <3>1. HeaderLen[MagicOf(file)] \in Nat /\ NameLen(file, last) \in Nat
      BY <1>2, <1>4, <1>6 DEF SoundSpot
    <3> QED BY <2>2, <3>1 DEF NameEnd
  <2>5. AfterName \in Nat /\ b = Aligned(Dialect, AfterName) /\ n = Aligned(Dialect, b + s)
    <3>1. AfterName \in Nat
      BY <1>6
    <3>2. /\ file.spots[k].body = Aligned(MagicOf(file), NameEnd(file, k))
          /\ file.spots[k + 1].at = Aligned(MagicOf(file), file.spots[k].body + file.spots[k].size)
      BY <2>1 DEF Laid
    <3> QED BY <1>2, <2>2, <3>1, <3>2
  <2>6. AfterName <= b /\ b + s <= n
    BY <2>2, <2>5, AlignedUp
  <2>7. SoundHeader
    BY <1>4, <1>6, <1>7, <2>2, <2>3, <2>4, <2>5, <2>6
  <2>8. Dialect = "odc" \/ scan.pos % 4 = 0
    BY <1>1, <1>2, SpotAligned
  <2>9. FileSize = s
    BY <1>2, <2>1, <2>2 DEF Laid
  <2>10. BodyStart = b /\ NextRecord = n /\ AfterBody = b + s
    <3>1. BodyStart = b
      BY <1>1, <2>5, <2>7, <2>8, AlignsAlike
    <3>2. NextRecord = n
      BY <1>1, <2>5, <2>7, <2>8, <2>9, <3>1, AlignsAlike
    <3> QED BY <2>9, <3>1, <3>2 DEF AfterBody
  <2>11. SoundBody
    BY <1>1, <1>4, <1>6, <2>2, <2>3, <2>4, <2>6, <2>10 DEF SoundBody, Fits
  <2> QED BY <2>7, <2>11
<1> QED BY <1>8, <1>9

LEMMA BadIsDamage ==
  ASSUME CpioInv, [Next]_vars, BadRecord
  PROVE  CpioInv'
<1>1. status = "walking" /\ OnTheWay
  BY DEF BadRecord, CpioInv
<1>2. file.damage # "none"
  <2>1. ASSUME file.damage = "none" PROVE FALSE
    <3>1. PICK last \in DOMAIN file.spots : Walked(last) /\ \E k \in 1 .. last : AtSpot(k)
      BY <1>1, <2>1 DEF OnTheWay, Lost
    <3>2. PICK k \in 1 .. last : AtSpot(k)
      BY <3>1
    <3> QED BY <1>1, <2>1, <3>1, <3>2, WholePasses DEF BadRecord
  <2> QED BY <2>1
<1> QED BY <1>1, <1>2, Refuses DEF BadRecord

\* The answer to a read is all right only with the member's bytes.
LEMMA GivesOwnBytes ==
  ASSUME CpioInv, status = "open", NEW i \in DOMAIN listing,
         ReadBody(listing[i]).said = "ok", file.members[i].kind = "file"
  PROVE  ReadBody(listing[i]).given = file.members[i].content
<1> DEFINE e == listing[i]
           m == file.members[i]
<1>1. Faithful(e, m)
  BY DEF CpioInv, AllFaithful
<1>2. /\ e.kind = "file" /\ e.size = Len(m.content)
      /\ \/ Bytes(file, e.at, e.size) = m.content
         \/ e.sum # None /\ e.sum # Sum(Bytes(file, e.at, e.size))
  BY <1>1 DEF Faithful
<1>3. e.at \in Nat /\ e.size \in Nat
  BY Placed DEF CpioInv
<1>4. file.len \in Nat
  BY DEF CpioInv, IndInv, TypeOK, CpioFile
<1> DEFINE read == ReadStored(file, e.at, e.size)
<1>5. read.said = "ok" /\ SumHolds(e, read.given) /\ ReadBody(e) = read
  BY <1>2 DEF ReadBody, Answer
<1> HIDE DEF e
<1>6. PICK n \in Nat : n = Reach(file, e.at, e.size)
  BY <1>3, <1>4 DEF Reach
<1>7. read.given = Bytes(file, e.at, n) /\ Len(Bytes(file, e.at, n)) = n
  BY <1>6 DEF ReadStored, Answer, Bytes
<1>8. n = e.size
  BY <1>5, <1>6, <1>7 DEF ReadStored, Answer
<1> QED BY <1>2, <1>5, <1>7, <1>8 DEF SumHolds, e

LEMMA ReadGives ==
  ASSUME CpioInv, [Next]_vars, NEW i \in DOMAIN listing, ReadEntry(i)
  PROVE  CpioInv'
<1> DEFINE a == ReadBody(listing[i])
<1>1. /\ UNCHANGED <<file, scan, listing, status>> /\ status = "open"
      /\ answers' = [answers EXCEPT ![i] = a]
  BY DEF ReadEntry
<1>2. IndInv' /\ IndInv
  BY NextInd DEF CpioInv
<1>3. a.said = "ok" /\ file.members[i].kind = "file" => a.given = file.members[i].content
  BY <1>1, GivesOwnBytes
<1> HIDE DEF a
<1>4. \A j \in DOMAIN answers' : answers'[j].said = "ok" /\ file.members[j].kind = "file" =>
         answers'[j].given = file.members[j].content
  <2> SUFFICES ASSUME NEW j \in DOMAIN answers', answers'[j].said = "ok",
                      file.members[j].kind = "file"
               PROVE  answers'[j].given = file.members[j].content
    OBVIOUS
  <2>1. j \in DOMAIN answers /\ answers'[j] = IF j = i THEN a ELSE answers[j]
    BY <1>1, <1>2 DEF IndInv, TypeOK
  <2> QED BY <1>3, <2>1 DEF CpioInv
<1>5. AllFaithful'
  BY <1>1 DEF CpioInv, AllFaithful, Faithful
<1> QED BY <1>1, <1>2, <1>4, <1>5 DEF CpioInv, OnTheWay

\* Who cuts the file short changes no byte it keeps.
LEMMA ShrinkSpares ==
  ASSUME CpioInv, [Next]_vars, Shrink
  PROVE  CpioInv'
<1>1. PICK n \in Cuts : n <= file.len /\ file' = [file EXCEPT !.len = @ - n]
  BY DEF Shrink
<1>2. UNCHANGED <<scan, listing, status, answers>> /\ status = "open"
  BY DEF Shrink
<1>3. IndInv' /\ IndInv
  BY NextInd DEF CpioInv
<1>4. file'.members = file.members /\ file'.damage = file.damage /\ file'.byte = file.byte
  <2>1. file = [x \in DOMAIN file |-> file[x]]
    BY <1>3 DEF IndInv, TypeOK, CpioFile, HasFields
  <2> QED BY <1>1, <2>1
<1>5. \A p, k : Bytes(file', p, k) = Bytes(file, p, k)
  BY <1>4 DEF Bytes, ByteAt
<1>6. AllFaithful'
  <2>1. \A e, m : Faithful(e, m) => Faithful(e, m)'
    BY <1>4, <1>5 DEF Faithful
  <2> QED BY <1>2, <1>4, <2>1 DEF CpioInv, AllFaithful
<1> QED BY <1>2, <1>3, <1>4, <1>6 DEF CpioInv, OnTheWay

LEMMA CpioNext == CpioInv /\ [Next]_vars => CpioInv'
<1> SUFFICES ASSUME CpioInv, [Next]_vars PROVE CpioInv'
  OBVIOUS
<1>1. CASE UNCHANGED vars
  <2>1. IndInv'
    BY NextInd DEF CpioInv
  <2>2. file' = file /\ scan' = scan /\ listing' = listing /\ status' = status /\ answers' = answers
    BY <1>1 DEF vars
  <2>3. OnTheWay' /\ (AllFaithful <=> AllFaithful')
    BY <2>2 DEF CpioInv, OnTheWay, Lost, Walked, AtSpot, AllFaithful, Faithful
  <2> QED BY <2>1, <2>2, <2>3 DEF CpioInv
<1>2. CASE SpillFails
  BY <1>2, Refuses DEF SpillFails
<1> QED
  BY <1>1, <1>2, WalkBegins, NoMagicIsDamage, RecordPasses, TrailerOpens, BadIsDamage,
     ReadGives, ShrinkSpares DEF Next

----------------------------------------------------------------------------
LEMMA CpioKeeps ==
  ASSUME CpioInv
  PROVE  ReadsAsWritten /\ OkIsContent /\ CutIsTold /\ BodiesApart /\ VerifyKeepsItsContract
<1>1. file.format = "cpio"
  BY DEF CpioInv, IndInv, TypeOK, CpioFile
<1>2. status \in {"new", "walking", "open", "Corrupt", "Io"}
  BY DEF CpioInv, IndInv, TypeOK
<1>3. ASSUME file.damage \in {"none", "short"}, NEW i \in DOMAIN listing
      PROVE  Matches(listing[i], Member(i))
  <2>1. AllFaithful
    BY <1>2, <1>3 DEF CpioInv, OnTheWay, Lost, AtSpot
  <2>2. Faithful(listing[i], Member(i))
    BY <1>3, <2>1 DEF AllFaithful, Member
  <2> QED BY <1>3, <2>2 DEF Faithful, Matches
<1>4. ReadsAsWritten
  BY <1>1, <1>2, <1>3 DEF ReadsAsWritten, CpioInv
<1>5. OkIsContent
  <2> SUFFICES ASSUME NEW i \in DOMAIN answers, answers[i].said = "ok", listing[i].kind = "file"
               PROVE  answers[i].given = Member(i).content
    BY <1>1 DEF OkIsContent
  <2>1. status = "open" /\ DOMAIN answers = DOMAIN listing
    BY DEF CpioInv, IndInv
  <2>2. Member(i).kind = "file"
    BY <2>1 DEF CpioInv, AllFaithful, Faithful, Member
  <2> QED BY <2>2 DEF CpioInv, Member
<1>6. CutIsTold
  BY DEF CutIsTold, CpioInv
<1>7. BodiesApart /\ VerifyKeepsItsContract
  BY <1>1 DEF CpioInv, IndInv, VerifyKeepsItsContract
<1> QED BY <1>4, <1>5, <1>6, <1>7

----------------------------------------------------------------------------
\* tar: what a member's body is, whoever shortens the file.
TarFile(f) ==
  /\ f.format = "tar" /\ f.len \in Nat /\ HasFields(f, {"len", "byte", "members"})
  /\ f.members \in Seq(TarMember) /\ f.damage \in {"none", "cut"}
  /\ \A i \in DOMAIN f.members : f.members[i].kind = "file" =>
       /\ Len(f.members[i].content) = f.members[i].size
       /\ f.members[i].content = Bytes(f, f.members[i].at, f.members[i].size)

TarInv ==
  /\ TarFile(file) /\ status \in {"new", "open", "Corrupt"}
  /\ status = "new" => WrittenTar(file)
  /\ status = "open" =>
       /\ file.damage = "none" /\ scan.len \in Nat
       /\ listing = [i \in DOMAIN file.members |-> T!EntryOf(file.members[i])]
  /\ status = "Corrupt" => file.damage # "none"
  /\ status # "open" => listing = <<>>
  /\ DOMAIN answers = DOMAIN listing
  /\ \A i \in DOMAIN answers : answers[i].said = "ok" /\ file.members[i].kind = "file" =>
        answers[i].given = file.members[i].content

LEMMA TarStarts == T!Init => TarInv
<1> SUFFICES ASSUME T!Init PROVE TarInv
  OBVIOUS
<1>1. WrittenTar(file) /\ listing = <<>> /\ answers = <<>> /\ status = "new"
  BY WrittenAssumption DEF T!Init
<1>2. TarFile(file)
  BY <1>1 DEF WrittenTar, TarFile
<1> QED BY <1>1, <1>2 DEF TarInv

LEMMA TarMembers ==
  ASSUME TarInv, NEW i \in DOMAIN file.members
  PROVE  /\ file.members[i] \in TarMember
         /\ file.members[i].at \in Nat /\ file.members[i].size \in Nat
<1>1. file.members \in Seq(TarMember)
  BY DEF TarInv, TarFile
<1>2. file.members[i] \in TarMember
  BY <1>1, Element
<1> QED BY <1>2 DEF TarMember

\* Of an archive that is whole the crate reaches every member, of one that is
\* cut it meets the body that is torn.
LEMMA TarReaches ==
  ASSUME TarInv, status = "new"
  PROVE  /\ file.damage = "none" => /\ ~T!Torn /\ T!Reached = DOMAIN file.members
         /\ file.damage # "none" => T!Torn
<1>1. WrittenTar(file) /\ file.len \in Nat
  BY DEF TarInv, TarFile
<1>2. CASE file.damage = "none"
  <2>1. \A i \in DOMAIN file.members :
          file.members[i].header < file.len /\ file.members[i].at + file.members[i].size <= file.len
    BY <1>1, <1>2 DEF WrittenTar
  <2>2. T!Reached = DOMAIN file.members
    BY <2>1 DEF T!Reached
  <2>3. ~T!Torn
    BY <1>1, <2>1, <2>2, TarMembers DEF T!Torn
  <2> QED BY <1>2, <2>2, <2>3
<1>3. CASE file.damage # "none"
  <2>1. \E i \in DOMAIN file.members :
          file.members[i].header < file.len /\ file.members[i].at + file.members[i].size > file.len
    BY <1>1, <1>3 DEF WrittenTar
  <2> QED BY <1>3, <2>1 DEF T!Torn, T!Reached
<1> QED BY <1>2, <1>3

LEMMA TarOpens ==
  ASSUME TarInv, T!Open
  PROVE  TarInv'
<1>1. /\ status = "new" /\ status' = "open" /\ file' = file
      /\ answers' = [i \in T!Reached |-> T!NotRead]
      /\ scan'.len = file.len /\ ~T!Torn
  BY DEF T!Open
<1>0. listing' = [i \in T!Reached |-> T!EntryOf(file.members[i])]
  BY DEF T!Open
<1>2. file.damage = "none" /\ T!Reached = DOMAIN file.members
  BY <1>1, TarReaches
<1>3. TarFile(file') /\ scan'.len \in Nat
  BY <1>1 DEF TarInv, TarFile
<1>4. listing' = [i \in DOMAIN file.members |-> T!EntryOf(file.members[i])]
  BY <1>0, <1>2
<1>5. \A i \in DOMAIN answers' : answers'[i].said # "ok"
  BY <1>1 DEF T!NotRead, T!Answer
<1>6. DOMAIN answers' = DOMAIN listing'
  BY <1>0, <1>1
<1> QED BY <1>1, <1>2, <1>3, <1>4, <1>5, <1>6 DEF TarInv, T!EntryOf

\* A body comes from the file or from the bytes taken of it: the same bytes.
LEMMA TarGives ==
  ASSUME TarInv, status = "open", NEW i \in DOMAIN listing,
         T!ReadBody(listing[i]).said = "ok", file.members[i].kind = "file"
  PROVE  T!ReadBody(listing[i]).given = file.members[i].content
<1> DEFINE m == file.members[i]
           e == listing[i]
<1>1. /\ i \in DOMAIN file.members /\ e.at = m.at /\ e.size = m.size
  BY DEF TarInv, T!EntryOf
<1>2. m.at \in Nat /\ m.size \in Nat /\ m.content = Bytes(file, m.at, m.size)
  BY <1>1, TarMembers DEF TarInv, TarFile
<1>3. file.len \in Nat /\ scan.len \in Nat
  BY DEF TarInv, TarFile
<1>4. PICK f : /\ f.len \in Nat /\ f.byte = file.byte
               /\ T!ReadBody(e) = T!ReadStored(f, m.at, m.size)
  <2>1. CASE scan.kind = "file"
    BY <1>1, <1>3, <2>1 DEF T!ReadBody
  <2>2. CASE scan.kind # "file"
    <3>1. T!Buffered.len = scan.len /\ T!Buffered.byte = file.byte
      <4>1. PICK g : g = [file EXCEPT !.len = scan.len]
        OBVIOUS
      <4>2. g.byte = file.byte /\ g.len = scan.len
        BY <4>1 DEF TarInv, TarFile, HasFields
      <4> QED BY <4>1, <4>2 DEF T!Buffered
    <3>2. T!ReadBody(e) = T!ReadStored(T!Buffered, m.at, m.size)
      BY <1>1, <2>2 DEF T!ReadBody, T!Answer
    <3> QED BY <1>3, <3>1, <3>2
  <2> QED BY <2>1, <2>2
<1> HIDE DEF e, m
<1>5. PICK n \in Nat : n = T!Reach(f, m.at, m.size)
  BY <1>2, <1>4 DEF T!Reach
<1>6. T!Bytes(f, m.at, n) = Bytes(file, m.at, n) /\ Len(Bytes(file, m.at, n)) = n
  BY <1>4, <1>5 DEF T!Bytes, T!ByteAt, Bytes, ByteAt
<1>7. /\ T!ReadBody(e).given = Bytes(file, m.at, n)
      /\ T!ReadBody(e).said = IF n = m.size THEN "ok" ELSE "Corrupt"
  BY <1>4, <1>5, <1>6 DEF T!ReadStored, T!Answer
<1> QED BY <1>2, <1>7 DEF e, m

LEMMA TarReads ==
  ASSUME TarInv, NEW i \in DOMAIN listing, T!ReadEntry(i)
  PROVE  TarInv'
<1> DEFINE a == T!ReadBody(listing[i])
<1>1. /\ UNCHANGED <<file, scan, listing, status>> /\ status = "open"
      /\ answers' = [answers EXCEPT ![i] = a]
  BY DEF T!ReadEntry
<1>2. a.said = "ok" /\ file.members[i].kind = "file" => a.given = file.members[i].content
  BY <1>1, TarGives
<1> HIDE DEF a
<1>3. DOMAIN answers' = DOMAIN listing
  BY <1>1 DEF TarInv
<1>4. \A j \in DOMAIN answers' : answers'[j] = IF j = i THEN a ELSE answers[j]
  BY <1>1, <1>3
<1>5. \A j \in DOMAIN answers' : answers'[j].said = "ok" /\ file.members[j].kind = "file" =>
         answers'[j].given = file.members[j].content
  BY <1>1, <1>2, <1>4 DEF TarInv
<1>6. /\ TarFile(file') /\ status' = "open" /\ file'.damage = "none" /\ scan'.len \in Nat
      /\ listing' = [j \in DOMAIN file'.members |-> T!EntryOf(file'.members[j])]
  BY <1>1 DEF TarInv
<1> QED BY <1>1, <1>3, <1>5, <1>6 DEF TarInv, T!EntryOf

LEMMA TarShrinks ==
  ASSUME TarInv, T!Shrink
  PROVE  TarInv'
<1>1. PICK n \in Cuts : n <= file.len /\ file' = [file EXCEPT !.len = @ - n]
  BY DEF T!Shrink
<1>2. status = "open" /\ UNCHANGED <<scan, listing, status, answers>>
  BY DEF T!Shrink
<1>3. /\ file'.format = file.format /\ file'.members = file.members
      /\ file'.damage = file.damage /\ file'.byte = file.byte
      /\ file'.len = file.len - n
  BY <1>1 DEF TarInv, TarFile, HasFields
<1>4. file'.len \in Nat
  BY <1>1, <1>3, CpioAssumption DEF TarInv, TarFile
<1>5. \A p, k : Bytes(file', p, k) = Bytes(file, p, k)
  BY <1>3 DEF Bytes, ByteAt
<1>6. HasFields(file', {"len", "byte", "members"})
  BY <1>1 DEF TarInv, TarFile, HasFields
<1>7. TarFile(file')
  BY <1>3, <1>4, <1>5, <1>6 DEF TarInv, TarFile
<1>8. listing' = [j \in DOMAIN file'.members |-> T!EntryOf(file'.members[j])]
  BY <1>2, <1>3 DEF TarInv
<1> QED BY <1>2, <1>3, <1>7, <1>8 DEF TarInv, T!EntryOf

LEMMA TarNext ==
  ASSUME TarInv, T!Next
  PROVE  TarInv'
<1>1. CASE T!Refuse
  <2>1. /\ status = "new" /\ T!Torn /\ status' = "Corrupt"
        /\ UNCHANGED <<file, scan, listing, answers>>
    BY <1>1 DEF T!Refuse
  <2>2. file.damage # "none"
    BY <2>1, TarReaches
  <2>3. TarFile(file')
    BY <2>1 DEF TarInv
  <2> QED BY <2>1, <2>2, <2>3 DEF TarInv
<1> QED BY <1>1, TarOpens, TarReads, TarShrinks DEF T!Next

LEMMA TarKeeps ==
  ASSUME TarInv
  PROVE  ReadsAsWritten /\ OkIsContent /\ CutIsTold /\ BodiesApart /\ VerifyKeepsItsContract
<1>1. file.format = "tar" /\ file.damage \in {"none", "cut"}
  BY DEF TarInv, TarFile
<1>2. ASSUME file.damage = "none", NEW i \in DOMAIN listing
      PROVE  Matches(listing[i], Member(i))
  <2>1. i \in DOMAIN file.members /\ listing[i] = T!EntryOf(file.members[i])
    BY DEF TarInv
  <2> QED BY <2>1 DEF Matches, Member, T!EntryOf, TarInv, TarFile
<1>3. status = "open" => Len(listing) = Len(file.members)
  <2>1. PICK n \in Nat : DOMAIN file.members = 1..n /\ n = Len(file.members)
    BY DEF TarInv, TarFile
  <2> QED BY <2>1 DEF TarInv
<1>4. ReadsAsWritten
  BY <1>1, <1>2, <1>3 DEF ReadsAsWritten, TarInv
<1>5. OkIsContent
  <2>1. ASSUME NEW i \in DOMAIN answers
        PROVE  listing[i].kind = file.members[i].kind
    BY <2>1 DEF TarInv, T!EntryOf
  <2> QED BY <1>1, <2>1 DEF OkIsContent, TarInv, Member
<1>6. CutIsTold
  BY DEF CutIsTold, TarInv
<1> QED BY <1>1, <1>4, <1>5, <1>6 DEF BodiesApart, VerifyKeepsItsContract

LEMMA Smallest == ASSUME NEW S, S \subseteq Nat, S # {} PROVE \E k \in S : \A j \in S : k <= j
<1> DEFINE Below == OpToRel(<, Nat)
<1>1. IsWellFoundedOn(Below, Nat)
  BY NatLessThanWellFounded
<1>2. \A x \in Nat : \A y \in Nat : y < x => <<y, x>> \in Below
  BY DEF OpToRel
<1> HIDE DEF Below
<1>3. PICK k \in S : \A j \in S : ~(<<j, k>> \in Below)
  BY <1>1, WFMin
<1>4. ASSUME NEW j \in S PROVE k <= j
  <2>1. j \in Nat /\ k \in Nat /\ ~(<<j, k>> \in Below)
    BY <1>3
  <2>2. ~(j < k)
    BY <1>2, <2>1
  <2> QED BY <2>1, <2>2
<1> QED BY <1>4

----------------------------------------------------------------------------
\* What the locks of a zip or rar make of an answer, and of a verdict.
Fitting(f, i) == f.members[i].lock \in {"none", f.password}

AnswerFits(f, i, a) ==
  /\ a.said = "ok" => Fitting(f, i) /\ a.given = f.members[i].content
  /\ Fitting(f, i) => a.said \notin {"Encrypted", "WrongPassword"}

LocksOf(f) == {f.members[i].lock : i \in DOMAIN f.members} \ {"none"}

IsFirstLocked(f, i) ==
  /\ i \in DOMAIN f.members /\ f.members[i].lock # "none"
  /\ \A j \in 1 .. i - 1 : f.members[j].lock = "none"

VerdictFits(f, i, v) ==
  /\ f.password = "none" => v = "Encrypted"
  /\ f.password # "none" /\ LocksOf(f) = {f.password} => (f.members[i].sound => v = "ok")
  /\ f.password \notin LocksOf(f) \union {"none"} =>
       (f.members[i].sound /\ (f.format = "zip" => ~f.members[i].weak) => v = "WrongPassword")

LEMMA OneIsFirst ==
  ASSUME NEW f, NEW n \in Nat, DOMAIN f.members = 1..n,
         NEW i, IsFirstLocked(f, i), NEW j, IsFirstLocked(f, j)
  PROVE  i = j
<1>1. i \in 1..n /\ j \in 1..n
  BY DEF IsFirstLocked
<1>2. ~(i < j)
  BY <1>1 DEF IsFirstLocked
<1>3. ~(j < i)
  BY <1>1 DEF IsFirstLocked
<1> QED BY <1>1, <1>2, <1>3

\* If a member is locked, one is the first that is.
LEMMA OneIsLocked ==
  ASSUME NEW f, NEW n \in Nat, DOMAIN f.members = 1..n, LocksOf(f) # {}
  PROVE  \E i \in 1..n : IsFirstLocked(f, i)
<1> DEFINE L == {i \in 1..n : f.members[i].lock # "none"}
<1>1. L # {} /\ L \subseteq Nat
  BY DEF LocksOf
<1>2. PICK k \in L : \A j \in L : k <= j
  <2> HIDE DEF L
  <2> QED BY <1>1, Smallest
<1>3. ASSUME NEW j \in 1 .. k - 1 PROVE f.members[j].lock = "none"
  <2>1. k \in 1..n /\ j \in 1..n /\ ~(k <= j)
    BY <1>2
  <2> QED BY <1>2, <2>1
<1> QED BY <1>2, <1>3 DEF IsFirstLocked

LEMMA FirstIsChosen ==
  ASSUME NEW n \in Nat, DOMAIN file.members = 1..n, NEW k \in 1..n, IsFirstLocked(file, k)
  PROVE  FirstLocked = k
<1>1. \E i \in DOMAIN file.members :
        Member(i).lock # "none" /\ \A j \in 1 .. i - 1 : Member(j).lock = "none"
  BY DEF IsFirstLocked, Member
<1>2. /\ FirstLocked \in DOMAIN file.members /\ Member(FirstLocked).lock # "none"
      /\ \A j \in 1 .. FirstLocked - 1 : Member(j).lock = "none"
  BY <1>1 DEF FirstLocked
<1>3. IsFirstLocked(file, FirstLocked)
  BY <1>2 DEF IsFirstLocked, Member
<1> QED BY <1>3, OneIsFirst

\* The reader's first encrypted entry is the archive's first locked member.
LEMMA EncryptedIsLocked ==
  ASSUME NEW n \in Nat, DOMAIN file.members = 1..n, NEW k \in 1..n, IsFirstLocked(file, k),
         DOMAIN listing = 1..n,
         \A i \in 1..n : listing[i].encrypted <=> file.members[i].lock # "none"
  PROVE  /\ Z!Encrypted # {} /\ Z!FirstEncrypted = k
         /\ R!Encrypted # {} /\ R!FirstEncrypted = k
<1> DEFINE E == {i \in DOMAIN listing : listing[i].encrypted}
<1>1. k \in E /\ E \subseteq 1..n /\ \A j \in E : k <= j
  <2>1. k \in E /\ E \subseteq 1..n
    BY DEF IsFirstLocked
  <2>2. ASSUME NEW j \in E PROVE k <= j
    <3>1. j \in 1..n /\ file.members[j].lock # "none"
      BY <2>2
    <3>2. ~(j \in 1 .. k - 1)
      BY <3>1 DEF IsFirstLocked
    <3> QED BY <3>1, <3>2
  <2> QED BY <2>1, <2>2
<1> HIDE DEF E
<1>2. (CHOOSE i \in E : \A j \in E : i <= j) = k
  <2> DEFINE c == CHOOSE i \in E : \A j \in E : i <= j
  <2>1. c \in E /\ \A j \in E : c <= j
    BY <1>1
  <2> HIDE DEF c
  <2>2. c \in 1..n /\ c <= k /\ k <= c
    BY <1>1, <2>1
  <2>3. c = k
    BY <2>2
  <2> QED BY <2>3 DEF c
<1>3. Z!Encrypted = E /\ R!Encrypted = E
  BY DEF E, Z!Encrypted, R!Encrypted
<1> QED BY <1>1, <1>2, <1>3 DEF Z!FirstEncrypted, R!FirstEncrypted

----------------------------------------------------------------------------
\* Nothing has been said yet.
Unsaid == ""

\* zip: the entries are the directory's, and what is answered fits the locks.
ZipInv ==
  /\ WrittenZip(file) /\ status \in {"new", "open", "Unsupported", "Corrupt"}
  /\ status = "open" =>
       /\ ~file.stream /\ file.directory
       /\ listing = [i \in DOMAIN file.members |-> Z!EntryOf(file.members[i])]
  /\ status \in {"Unsupported", "Corrupt"} => file.stream \/ ~file.directory
  /\ status # "open" => listing = <<>>
  /\ DOMAIN answers = DOMAIN listing
  /\ \A i \in DOMAIN answers : AnswerFits(file, i, answers[i])
  /\ scan # Unsaid => /\ LocksOf(file) = {} => scan = "ok"
                  /\ \A k \in DOMAIN file.members :
                       IsFirstLocked(file, k) => VerdictFits(file, k, scan)

LEMMA ZipStarts == Z!Init => ZipInv
<1> SUFFICES ASSUME Z!Init PROVE ZipInv
  OBVIOUS
<1>1. WrittenZip(file) /\ listing = <<>> /\ answers = <<>> /\ status = "new" /\ scan = Unsaid
  BY WrittenAssumption DEF Z!Init, Unsaid
<1> QED BY <1>1 DEF ZipInv

\* Only with the password a member is encrypted under is it ever read, and with
\* that the password is never the trouble.
LEMMA ZipAnswers ==
  ASSUME NEW i, NEW a \in Z!ReadMember(file.members[i])
  PROVE  AnswerFits(file, i, a)
<1> DEFINE m == file.members[i]
<1>1. CASE m.lzma
  BY <1>1 DEF Z!ReadMember, Z!DecodeLzma, Z!Answer, Z!Locked, Z!NoPassword, AnswerFits, Fitting
<1>2. CASE ~m.lzma /\ ~Z!Locked(m)
  BY <1>2 DEF Z!ReadMember, Z!ByIndex, Z!Answer, Z!Locked, Z!NoPassword, AnswerFits, Fitting
<1>3. CASE ~m.lzma /\ Z!Locked(m) /\ file.password = "none"
  BY <1>3 DEF Z!ReadMember, Z!Answer, Z!Locked, Z!NoPassword, AnswerFits, Fitting
<1>4. CASE ~m.lzma /\ Z!Locked(m) /\ file.password # "none"
  <2>1. PICK t \in Z!Takes(m, file.password) :
          a = IF t THEN Z!Decrypted(m, file.password) ELSE Z!Answer("WrongPassword", <<>>)
    BY <1>4 DEF Z!ReadMember, Z!NoPassword
  <2>2. CASE file.password = m.lock
    <3>1. t = TRUE
      BY <2>2 DEF Z!Takes
    <3> QED BY <2>1, <2>2, <3>1 DEF Z!Decrypted, Z!Answer, AnswerFits, Fitting
  <2>3. CASE file.password # m.lock
    <3>1. ~Fitting(file, i)
      BY <1>4, <2>3 DEF Fitting, Z!Locked, Z!NoPassword
    <3>2. a.said # "ok"
      BY <2>1, <2>3 DEF Z!Decrypted, Z!Answer
    <3> QED BY <3>1, <3>2 DEF AnswerFits
  <2> QED BY <2>2, <2>3
<1> QED BY <1>1, <1>2, <1>3, <1>4

\* The verdict is passed on the first locked member.
LEMMA ZipVerdicts ==
  ASSUME ZipInv, status = "open", NEW v \in Z!Verdicts
  PROVE  /\ LocksOf(file) = {} => v = "ok"
         /\ \A k \in DOMAIN file.members : IsFirstLocked(file, k) => VerdictFits(file, k, v)
<1>1. PICK n \in Nat : DOMAIN file.members = 1..n
  BY DEF ZipInv, WrittenZip
<1>2. /\ DOMAIN listing = 1..n
      /\ \A i \in 1..n : listing[i].encrypted <=> file.members[i].lock # "none"
  <2>1. listing = [i \in 1..n |-> Z!EntryOf(file.members[i])]
    BY <1>1 DEF ZipInv
  <2>2. \A m : Z!EntryOf(m).encrypted <=> m.lock # "none"
    BY DEF Z!EntryOf, Z!Locked, Z!NoPassword
  <2> QED BY <2>1, <2>2
<1>3. LocksOf(file) = {} => v = "ok"
  <2> SUFFICES ASSUME LocksOf(file) = {} PROVE v = "ok"
    OBVIOUS
  <2>1. \A i \in 1..n : file.members[i].lock = "none"
    BY <1>1 DEF LocksOf
  <2>2. Z!Encrypted = {}
    BY <1>2, <2>1 DEF Z!Encrypted
  <2> QED BY <2>2 DEF Z!Verdicts
<1>4. ASSUME NEW k \in 1..n, IsFirstLocked(file, k) PROVE VerdictFits(file, k, v)
  <2> DEFINE m == file.members[k]
  <2>1. Z!Encrypted # {} /\ Z!FirstEncrypted = k
    BY <1>1, <1>2, <1>4, EncryptedIsLocked
  <2>2. m.lock # "none" /\ m.lock \in LocksOf(file)
    BY <1>1, <1>4 DEF IsFirstLocked, LocksOf
  <2>3. CASE file.password = "none"
    BY <2>1, <2>2, <2>3 DEF Z!Verdicts, Z!NoPassword, VerdictFits
  <2>4. CASE file.password # "none"
    <3>1. PICK t \in Z!Takes(m, file.password) : v = IF t THEN "ok" ELSE "WrongPassword"
      BY <2>1, <2>4 DEF Z!Verdicts, Z!NoPassword
    <3>2. LocksOf(file) = {file.password} => v = "ok"
      BY <2>2, <3>1 DEF Z!Takes
    <3>3. file.password \notin LocksOf(file) /\ ~m.weak => v = "WrongPassword"
      BY <2>2, <3>1 DEF Z!Takes
    <3> QED BY <2>4, <3>2, <3>3 DEF VerdictFits, ZipInv, WrittenZip
  <2> QED BY <2>3, <2>4
<1> QED BY <1>1, <1>3, <1>4

LEMMA ZipNext ==
  ASSUME ZipInv, Z!Next
  PROVE  ZipInv'
<1>0. Z!NotRead.said \notin {"ok", "Encrypted", "WrongPassword"}
  BY DEF Z!NotRead, Z!Answer
<1>1. CASE Z!Refuse
  <2>1. /\ status = "new" /\ status' \in {"Unsupported", "Corrupt"}
        /\ (file.stream \/ ~file.directory)
        /\ UNCHANGED <<file, scan, listing, answers>>
    BY <1>1 DEF Z!Refuse
  <2> QED BY <2>1 DEF ZipInv
<1>2. CASE Z!Open
  <2>1. /\ status = "new" /\ status' = "open" /\ ~file.stream /\ file.directory
        /\ answers' = [i \in DOMAIN file.members |-> Z!NotRead]
        /\ file' = file /\ scan' = scan
    BY <1>2 DEF Z!Open
  <2>2. listing' = [i \in DOMAIN file.members |-> Z!EntryOf(file.members[i])]
    BY <1>2 DEF Z!Open
  <2>3. DOMAIN answers' = DOMAIN listing'
    BY <2>1, <2>2
  <2>4. \A i \in DOMAIN answers' : AnswerFits(file, i, answers'[i])
    BY <1>0, <2>1 DEF AnswerFits
  <2>5. listing' = [i \in DOMAIN file'.members |-> Z!EntryOf(file'.members[i])]
    BY <2>1, <2>2
  <2> QED BY <2>1, <2>3, <2>4, <2>5 DEF ZipInv, Z!EntryOf, Z!Locked, Z!TargetOf, Z!ByIndex
<1>3. CASE Z!VerifyPassword
  <2>1. status = "open" /\ scan' \in Z!Verdicts /\ UNCHANGED <<file, listing, status, answers>>
    BY <1>3 DEF Z!VerifyPassword
  <2>2. /\ LocksOf(file) = {} => scan' = "ok"
        /\ \A k \in DOMAIN file.members : IsFirstLocked(file, k) => VerdictFits(file, k, scan')
    BY <2>1, ZipVerdicts
  <2> QED BY <2>1, <2>2 DEF ZipInv, Z!EntryOf, Z!Locked, Z!TargetOf, Z!ByIndex
<1>4. ASSUME NEW i \in DOMAIN listing, Z!ReadEntry(i) PROVE ZipInv'
  <2>1. status = "open" /\ UNCHANGED <<file, scan, listing, status>>
    BY <1>4 DEF Z!ReadEntry
  <2>2. PICK a \in Z!ReadMember(file.members[i]) : answers' = [answers EXCEPT ![i] = a]
    BY <1>4 DEF Z!ReadEntry
  <2>3. AnswerFits(file, i, a)
    BY ZipAnswers
  <2>4. DOMAIN answers' = DOMAIN answers
    BY <2>2 DEF ZipInv
  <2>5. \A j \in DOMAIN answers' : AnswerFits(file, j, answers'[j])
    BY <2>2, <2>3, <2>4 DEF ZipInv
  <2> QED BY <2>1, <2>4, <2>5 DEF ZipInv, Z!EntryOf, Z!Locked, Z!TargetOf, Z!ByIndex
<1> QED BY <1>1, <1>2, <1>3, <1>4 DEF Z!Next

LEMMA LocksAreLocks == Locks = LocksOf(file)
BY DEF Locks, LocksOf, Member

\* The contract, from what every verdict and every answer fits.
LEMMA ContractHolds ==
  ASSUME NEW n \in Nat, DOMAIN file.members = 1..n,
         LocksOf(file) = {} => Verdict = "ok",
         \A k \in 1..n : IsFirstLocked(file, k) /\ ~Shadowed(k) => VerdictFits(file, k, Verdict),
         LocksOf(file) \subseteq {file.password} =>
           \A i \in DOMAIN answers : answers[i].said \notin {"Encrypted", "WrongPassword"}
  PROVE  VerifyKeepsItsContract
<1>1. Locks = LocksOf(file)
  BY LocksAreLocks
<1>2. ASSUME Locks # {}, ~Shadowed(FirstLocked)
      PROVE  CASE file.password = "none" -> Verdict = "Encrypted"
               [] file.password # "none" /\ Locks = {file.password} ->
                    Member(FirstLocked).sound => Verdict = "ok"
               [] file.password \notin Locks \union {"none"} ->
                    Certain(Member(FirstLocked)) => Verdict = "WrongPassword"
               [] OTHER -> TRUE
  <2>1. PICK k \in 1..n : IsFirstLocked(file, k)
    BY <1>1, <1>2, OneIsLocked
  <2>2. FirstLocked = k
    BY <2>1, FirstIsChosen
  <2>3. VerdictFits(file, k, Verdict)
    BY <1>2, <2>1, <2>2
  <2> QED BY <1>1, <2>2, <2>3 DEF VerdictFits, Member, Certain
<1> QED BY <1>1, <1>2 DEF VerifyKeepsItsContract

LEMMA ZipKeeps ==
  ASSUME ZipInv
  PROVE  ReadsAsWritten /\ OkIsContent /\ CutIsTold /\ BodiesApart /\ VerifyKeepsItsContract
<1>1. file.format = "zip" /\ WrittenZip(file) /\ file.damage \in {"none", "cut"}
  BY DEF ZipInv, WrittenZip
<1>2. PICK n \in Nat : DOMAIN file.members = 1..n /\ n = Len(file.members)
  BY <1>1 DEF WrittenZip
<1>3. ASSUME file.damage = "none", NEW i \in DOMAIN listing
      PROVE  Matches(listing[i], Member(i))
  <2>1. i \in DOMAIN file.members /\ listing[i] = Z!EntryOf(file.members[i])
    BY DEF ZipInv
  <2>2. file.members[i].kind = "link" => file.members[i].sound
    BY <1>1, <1>3, <2>1 DEF WrittenZip
  <2> QED
    BY <1>1, <2>1, <2>2 DEF Matches, Member, Z!EntryOf, Z!TargetOf, Z!ByIndex, Z!Answer
<1>4. status = "open" => Len(listing) = Len(file.members)
  BY <1>2 DEF ZipInv
<1>5. ReadsAsWritten
  BY <1>1, <1>3, <1>4 DEF ReadsAsWritten, Listable, ZipInv
<1>6. OkIsContent
  BY <1>1 DEF OkIsContent, ZipInv, AnswerFits, Fitting, Member
<1>7. CutIsTold
  BY <1>1 DEF CutIsTold, ZipInv, WrittenZip
<1>8. VerifyKeepsItsContract
  <2>0. Verdict = scan
    BY <1>1 DEF Verdict
  <2>1. CASE scan = Unsaid
    BY <2>0, <2>1 DEF VerifyKeepsItsContract, Unsaid
  <2>2. CASE scan # Unsaid
    <3>1. ASSUME LocksOf(file) \subseteq {file.password}, NEW i \in DOMAIN answers
          PROVE  answers[i].said \notin {"Encrypted", "WrongPassword"}
      <4>1. i \in DOMAIN file.members
        BY DEF ZipInv
      <4>2. Fitting(file, i)
        BY <3>1, <4>1 DEF Fitting, LocksOf
      <4> QED BY <4>2 DEF ZipInv, AnswerFits
    <3>2. /\ LocksOf(file) = {} => Verdict = "ok"
          /\ \A k \in 1..n : IsFirstLocked(file, k) => VerdictFits(file, k, Verdict)
      BY <1>2, <2>0, <2>2 DEF ZipInv
    <3> QED BY <1>2, <3>1, <3>2, ContractHolds
  <2> QED BY <2>1, <2>2
<1> QED BY <1>1, <1>5, <1>6, <1>7, <1>8 DEF BodiesApart

----------------------------------------------------------------------------
\* rar: the member that is met first under the name of the ith.
FirstNamed(f, i, j) ==
  /\ j \in DOMAIN f.members /\ f.members[j].path = f.members[i].path
  /\ \A k \in DOMAIN f.members : f.members[k].path = f.members[i].path => j <= k

RarInv ==
  /\ WrittenRar(file) /\ HasFields(scan, {"verdict"})
  /\ status \in {"new", "open", "Unsupported", "Encrypted", "WrongPassword"}
  /\ status = "open" =>
       /\ R!Opens(file.headerLock, file.password) = "ok"
       /\ listing = [i \in DOMAIN file.members |-> R!EntryOf(file.members[i])]
  /\ status \notin {"new", "open"} =>
       ~file.path \/ R!Opens(file.headerLock, file.password) # "ok"
  /\ status # "open" => listing = <<>>
  /\ DOMAIN answers = DOMAIN listing
  /\ \A i \in DOMAIN answers : \E j \in DOMAIN file.members :
       FirstNamed(file, i, j) /\ AnswerFits(file, j, answers[i])
  /\ scan.verdict # Unsaid =>
       /\ LocksOf(file) = {} => scan.verdict = "ok"
       /\ \A k \in DOMAIN file.members :
            IsFirstLocked(file, k) /\ FirstNamed(file, k, k) => VerdictFits(file, k, scan.verdict)

LEMMA RarStarts == R!Init => RarInv
<1> SUFFICES ASSUME R!Init PROVE RarInv
  OBVIOUS
<1>1. WrittenRar(file) /\ listing = <<>> /\ answers = <<>> /\ status = "new"
  BY WrittenAssumption DEF R!Init
<1>2. scan = [verdict |-> Unsaid, temps |-> 0, failures |-> 0]
  BY DEF R!Init, Unsaid
<1>3. HasFields(scan, {"verdict"}) /\ scan.verdict = Unsaid
  BY <1>2 DEF HasFields
<1> QED BY <1>1, <1>3 DEF RarInv

\* Found under its name is the first member of that name.
LEMMA FoundIsFirst ==
  ASSUME RarInv, status = "open", NEW i \in DOMAIN listing
  PROVE  FirstNamed(file, i, R!Found(i)) /\ i \in DOMAIN file.members
<1>1. PICK n \in Nat : DOMAIN file.members = 1..n
  BY DEF RarInv, WrittenRar
<1>2. i \in 1..n /\ listing[i] = R!EntryOf(file.members[i])
  BY <1>1 DEF RarInv
<1> DEFINE N == {j \in 1..n : file.members[j].path = file.members[i].path}
<1>3. R!Named(i) = N
  BY <1>1, <1>2 DEF R!Named, R!EntryOf
<1>4. N # {} /\ N \subseteq Nat
  BY <1>2
<1>5. R!Found(i) = CHOOSE j \in N : \A k \in N : j <= k
  BY <1>3 DEF R!Found
<1> HIDE DEF N
<1>6. \E j \in N : \A k \in N : j <= k
  BY <1>4, Smallest
<1>7. R!Found(i) \in N /\ \A k \in N : R!Found(i) <= k
  BY <1>5, <1>6
<1> QED BY <1>1, <1>2, <1>7 DEF N, FirstNamed

LEMMA FirstNamedIsOne ==
  ASSUME NEW f, NEW n \in Nat, DOMAIN f.members = 1..n, NEW i,
         NEW j, FirstNamed(f, i, j), NEW k, FirstNamed(f, i, k)
  PROVE  j = k
<1>1. j \in 1..n /\ k \in 1..n /\ j <= k /\ k <= j
  BY DEF FirstNamed
<1> QED BY <1>1

\* What libunrar makes of the member it finds.
LEMMA UnpackedFits ==
  ASSUME RarInv, NEW j \in DOMAIN file.members
  PROVE  LET a == R!Unpacked(file.members[j])
             m == file.members[j]
         IN /\ AnswerFits(file, j, a)
            /\ a.said \in {"ok", "Encrypted", "WrongPassword", "Corrupt"}
            /\ m.lock \notin {"none", file.password} =>
                 IF file.password = "none" THEN a.said = "Encrypted"
                 ELSE a.said \in {"WrongPassword", "Corrupt"}
            /\ Fitting(file, j) => a.said = IF m.sound THEN "ok" ELSE "Corrupt"
<1> DEFINE m == file.members[j]
           a == R!Unpacked(m)
<1>1. CASE m.lock \in {"none", file.password}
  <2>1. R!Opens(m.lock, file.password) = "ok"
    BY <1>1 DEF R!Opens, R!NoPassword
  <2>2. a = IF m.sound THEN R!Answer("ok", m.content) ELSE R!Answer("Corrupt", <<>>)
    BY <2>1 DEF R!Unpacked
  <2> QED BY <1>1, <2>2 DEF R!Answer, AnswerFits, Fitting
<1>2. CASE m.lock \notin {"none", file.password}
  <2>1. R!Opens(m.lock, file.password) = IF file.password = "none" THEN "Encrypted"
                                         ELSE "WrongPassword"
    BY <1>2 DEF R!Opens, R!NoPassword
  <2>2. a = IF m.vague /\ file.password # "none" THEN R!Answer("Corrupt", <<>>)
            ELSE R!Answer(R!Opens(m.lock, file.password), <<>>)
    BY <2>1 DEF R!Unpacked, R!NoPassword
  <2> QED BY <1>2, <2>1, <2>2 DEF R!Answer, AnswerFits, Fitting
<1> QED BY <1>1, <1>2

LEMMA RarReads ==
  ASSUME RarInv, NEW i \in DOMAIN listing, R!ReadEntry(i)
  PROVE  RarInv'
<1>1. status = "open" /\ UNCHANGED <<file, listing, status>>
      /\ answers' = [answers EXCEPT ![i] = R!Read(i)]
  BY DEF R!ReadEntry
<1>2. PICK k \in R!LeftBehind(R!Read(i)) :
        scan' = [scan EXCEPT !.temps = @ + k,
                             !.failures = IF R!Read(i).said = "ok" THEN @ ELSE @ + 1]
  BY DEF R!ReadEntry
<1>3. HasFields(scan', {"verdict"}) /\ scan'.verdict = scan.verdict
  BY <1>2 DEF RarInv, HasFields
<1>4. FirstNamed(file, i, R!Found(i)) /\ R!Found(i) \in DOMAIN file.members
  BY <1>1, FoundIsFirst DEF FirstNamed
<1>5. R!Read(i) = R!Unpacked(file.members[R!Found(i)])
  BY <1>1 DEF R!Read, RarInv
<1>6. AnswerFits(file, R!Found(i), R!Read(i))
  BY <1>4, <1>5, UnpackedFits
<1>7. DOMAIN answers' = DOMAIN answers
  BY <1>1
<1>8. \A h \in DOMAIN answers' : \E j \in DOMAIN file.members :
        FirstNamed(file, h, j) /\ AnswerFits(file, j, answers'[h])
  <2> SUFFICES ASSUME NEW h \in DOMAIN answers'
               PROVE  \E j \in DOMAIN file.members :
                        FirstNamed(file, h, j) /\ AnswerFits(file, j, answers'[h])
    OBVIOUS
  <2>1. h \in DOMAIN answers /\ answers'[h] = IF h = i THEN R!Read(i) ELSE answers[h]
    BY <1>1, <1>7
  <2> QED BY <1>4, <1>6, <2>1 DEF RarInv
<1> QED BY <1>1, <1>3, <1>7, <1>8 DEF RarInv, R!Opens, R!EntryOf, R!Locked

\* The verdict is what reading the first locked member comes to.
LEMMA RarVerdicts ==
  ASSUME RarInv, status = "open", NEW k \in DOMAIN file.members,
         IsFirstLocked(file, k), FirstNamed(file, k, k)
  PROVE  R!Encrypted # {} /\ VerdictFits(file, k, R!VerdictOf(R!Read(R!FirstEncrypted)))
<1> DEFINE m == file.members[k]
           a == R!Unpacked(m)
<1>1. PICK n \in Nat : DOMAIN file.members = 1..n
  BY DEF RarInv, WrittenRar
<1>2. /\ DOMAIN listing = 1..n
      /\ \A i \in 1..n : listing[i].encrypted <=> file.members[i].lock # "none"
  <2>1. listing = [i \in 1..n |-> R!EntryOf(file.members[i])]
    BY <1>1 DEF RarInv
  <2>2. \A x : R!EntryOf(x).encrypted <=> x.lock # "none"
    BY DEF R!EntryOf, R!Locked, R!NoPassword
  <2> QED BY <2>1, <2>2
<1>3. R!Encrypted # {} /\ R!FirstEncrypted = k
  BY <1>1, <1>2, EncryptedIsLocked
<1>4. R!Found(k) = k
  <2>1. FirstNamed(file, k, R!Found(k))
    BY <1>1, <1>2, FoundIsFirst
  <2> QED BY <1>1, <2>1, FirstNamedIsOne
<1>5. R!Read(R!FirstEncrypted) = a
  BY <1>3, <1>4 DEF R!Read, RarInv
<1>6. m.lock # "none" /\ m.lock \in LocksOf(file)
  BY DEF IsFirstLocked, LocksOf
<1>7. /\ a.said \in {"ok", "Encrypted", "WrongPassword", "Corrupt"}
      /\ m.lock \notin {"none", file.password} =>
           IF file.password = "none" THEN a.said = "Encrypted"
           ELSE a.said \in {"WrongPassword", "Corrupt"}
      /\ m.lock \in {"none", file.password} => a.said = IF m.sound THEN "ok" ELSE "Corrupt"
  BY UnpackedFits DEF Fitting
<1> HIDE DEF a
<1>8. VerdictFits(file, k, R!VerdictOf(a))
  BY <1>6, <1>7 DEF VerdictFits, R!VerdictOf, R!NoPassword
<1> QED BY <1>3, <1>5, <1>8

LEMMA RarUnlocked ==
  ASSUME RarInv, status = "open", LocksOf(file) = {}
  PROVE  R!Encrypted = {}
<1>1. \A i \in DOMAIN file.members : file.members[i].lock = "none"
  BY DEF LocksOf
<1>2. listing = [i \in DOMAIN file.members |-> R!EntryOf(file.members[i])]
  BY DEF RarInv
<1> QED BY <1>1, <1>2 DEF R!Encrypted, R!EntryOf, R!Locked, R!NoPassword

LEMMA RarVerifies ==
  ASSUME RarInv, R!VerifyPassword
  PROVE  RarInv'
<1>1. status = "open" /\ UNCHANGED <<file, listing, status, answers>>
  BY DEF R!VerifyPassword
<1>2. \/ R!Encrypted = {} /\ scan' = [scan EXCEPT !.verdict = "ok"]
      \/ /\ R!Encrypted # {}
         /\ \E n \in R!LeftBehind(R!Read(R!FirstEncrypted)) :
              scan' = [verdict |-> R!VerdictOf(R!Read(R!FirstEncrypted)),
                       temps |-> scan.temps + n,
                       failures |-> IF R!Read(R!FirstEncrypted).said = "ok" THEN scan.failures
                                    ELSE scan.failures + 1]
  BY DEF R!VerifyPassword
<1>3. HasFields(scan', {"verdict"})
  BY <1>2 DEF RarInv, HasFields
<1>4. scan'.verdict = IF R!Encrypted = {} THEN "ok" ELSE R!VerdictOf(R!Read(R!FirstEncrypted))
  BY <1>2 DEF RarInv, HasFields
<1>5. LocksOf(file) = {} => scan'.verdict = "ok"
  BY <1>1, <1>4, RarUnlocked
<1>6. \A k \in DOMAIN file.members :
        IsFirstLocked(file, k) /\ FirstNamed(file, k, k) => VerdictFits(file, k, scan'.verdict)
  BY <1>1, <1>4, RarVerdicts
<1> QED BY <1>1, <1>3, <1>5, <1>6 DEF RarInv, R!Opens, R!EntryOf, R!Locked

LEMMA RarNext ==
  ASSUME RarInv, R!Next
  PROVE  RarInv'
<1>0. R!NotRead.said \notin {"ok", "Encrypted", "WrongPassword"}
  BY DEF R!NotRead, R!Answer
<1>00. R!ListingSaid = R!Opens(file.headerLock, file.password)
       \/ (R!ListingSaid = "ok" /\ file.headerLock = "none")
  BY DEF R!ListingSaid, R!Opens, R!NoPassword
<1>01. R!ListingSaid = "ok" <=> R!Opens(file.headerLock, file.password) = "ok"
  BY DEF R!ListingSaid, R!Opens, R!NoPassword
<1>1. CASE R!Refuse
  <2>1. /\ status = "new" /\ UNCHANGED <<file, scan, listing, answers>>
        /\ ~file.path \/ R!Opens(file.headerLock, file.password) # "ok"
    BY <1>01, <1>1 DEF R!Refuse
  <2>2. status' \in {"Unsupported", "Encrypted", "WrongPassword"}
    BY <1>1 DEF R!Refuse, R!ListingSaid, R!Opens, R!NoPassword
  <2> QED BY <2>1, <2>2 DEF RarInv, R!Opens, R!EntryOf, R!Locked
<1>2. CASE R!Open
  <2>1. /\ status = "new" /\ status' = "open"
        /\ answers' = [i \in DOMAIN file.members |-> R!NotRead]
        /\ file' = file /\ scan' = scan /\ R!Opens(file.headerLock, file.password) = "ok"
    BY <1>01, <1>2 DEF R!Open
  <2>2. listing' = [i \in DOMAIN file.members |-> R!EntryOf(file.members[i])]
    BY <1>2 DEF R!Open
  <2>3. DOMAIN answers' = DOMAIN listing'
    BY <2>1, <2>2
  <2>4. \A i \in DOMAIN answers' : \E j \in DOMAIN file.members :
          FirstNamed(file, i, j) /\ AnswerFits(file, j, answers'[i])
    <3> SUFFICES ASSUME NEW i \in DOMAIN file.members
                 PROVE  \E j \in DOMAIN file.members :
                          FirstNamed(file, i, j) /\ AnswerFits(file, j, answers'[i])
      BY <2>1
    <3>1. PICK n \in Nat : DOMAIN file.members = 1..n
      BY DEF RarInv, WrittenRar
    <3> DEFINE N == {j \in 1..n : file.members[j].path = file.members[i].path}
    <3>2. N # {} /\ N \subseteq Nat
      BY <3>1
    <3>3. PICK j \in N : \A k \in N : j <= k
      <4> HIDE DEF N
      <4> QED BY <3>2, Smallest
    <3>4. FirstNamed(file, i, j) /\ j \in DOMAIN file.members
      BY <3>1, <3>3 DEF FirstNamed
    <3>5. AnswerFits(file, j, answers'[i])
      BY <1>0, <2>1 DEF AnswerFits
    <3> QED BY <3>4, <3>5
  <2> QED BY <2>1, <2>2, <2>3, <2>4 DEF RarInv, R!Opens, R!EntryOf, R!Locked
<1>3. ASSUME NEW i \in DOMAIN listing, R!ReadEntry(i) PROVE RarInv'
  BY <1>3, RarReads
<1> QED BY <1>1, <1>2, <1>3, RarVerifies DEF R!Next

----------------------------------------------------------------------------
LEMMA RarKeeps ==
  ASSUME RarInv
  PROVE  ReadsAsWritten /\ OkIsContent /\ CutIsTold /\ BodiesApart /\ VerifyKeepsItsContract
<1>1. file.format = "rar" /\ WrittenRar(file) /\ file.damage = "none"
  BY DEF RarInv, WrittenRar
<1>2. PICK n \in Nat : DOMAIN file.members = 1..n /\ n = Len(file.members)
  BY <1>1 DEF WrittenRar
<1>3. ASSUME NEW i \in DOMAIN listing
      PROVE  Matches(listing[i], Member(i)) /\ i \in 1..n /\ status = "open"
  <2>1. i \in 1..n /\ listing[i] = R!EntryOf(file.members[i]) /\ status = "open"
    BY <1>2, <1>3 DEF RarInv
  <2>2. file.members \in Seq(RarMember)
    BY <1>1 DEF WrittenRar
  <2>3. file.members[i] \in RarMember
    BY <1>2, <2>1, <2>2
  <2>4. file.members[i].kind \in {"file", "dir"}
    BY <2>3 DEF RarMember
  <2> QED BY <2>1, <2>4 DEF Matches, Member, R!EntryOf
<1>4. status = "open" => Len(listing) = Len(file.members)
  BY <1>2 DEF RarInv
<1>5. ReadsAsWritten
  BY <1>1, <1>3, <1>4 DEF ReadsAsWritten, Listable, RarInv
<1>6. ASSUME NEW i \in DOMAIN answers, ~Shadowed(i)
      PROVE  AnswerFits(file, i, answers[i])
  <2>1. i \in DOMAIN listing /\ R!Found(i) = i
    BY <1>1, <1>6 DEF RarInv, Shadowed
  <2>2. FirstNamed(file, i, i)
    BY <1>3, <2>1, FoundIsFirst
  <2>3. PICK j \in DOMAIN file.members : FirstNamed(file, i, j) /\ AnswerFits(file, j, answers[i])
    BY DEF RarInv
  <2>4. j = i
    BY <1>2, <2>2, <2>3, FirstNamedIsOne
  <2> QED BY <2>3, <2>4
<1>7. OkIsContent
  BY <1>1, <1>6 DEF OkIsContent, AnswerFits, Fitting, Member
<1>8. CutIsTold
  BY <1>1 DEF CutIsTold
<1>9. VerifyKeepsItsContract
  <2>0. Verdict = scan.verdict
    BY <1>1 DEF Verdict
  <2>1. CASE scan.verdict = Unsaid \/ status # "open"
    BY <2>0, <2>1 DEF VerifyKeepsItsContract, Unsaid
  <2>2. CASE scan.verdict # Unsaid /\ status = "open"
    <3>1. ASSUME LocksOf(file) \subseteq {file.password}, NEW i \in DOMAIN answers
          PROVE  answers[i].said \notin {"Encrypted", "WrongPassword"}
      <4>1. PICK j \in DOMAIN file.members : AnswerFits(file, j, answers[i])
        BY DEF RarInv
      <4>2. Fitting(file, j)
        BY <3>1, <4>1 DEF Fitting, LocksOf
      <4> QED BY <4>1, <4>2 DEF AnswerFits
    <3>2. LocksOf(file) = {} => Verdict = "ok"
      BY <2>0, <2>2 DEF RarInv
    <3>3. ASSUME NEW k \in 1..n, IsFirstLocked(file, k), ~Shadowed(k)
          PROVE  VerdictFits(file, k, Verdict)
      <4>1. k \in DOMAIN listing /\ R!Found(k) = k
        BY <1>1, <1>2, <2>2, <3>3 DEF RarInv, Shadowed
      <4>2. FirstNamed(file, k, k)
        BY <2>2, <4>1, FoundIsFirst
      <4> QED BY <1>2, <2>0, <2>2, <3>3, <4>2 DEF RarInv
    <3> QED BY <1>2, <3>1, <3>2, <3>3, ContractHolds
  <2> QED BY <2>1, <2>2
<1> QED BY <1>1, <1>5, <1>7, <1>8, <1>9 DEF BodiesApart

----------------------------------------------------------------------------
\* wpress: the entry the kth block makes, and what there is to be found.
BlockEntry(f, k) ==
  [path |-> f.members[k].path, kind |-> "file", size |-> f.spots[k].size,
   at |-> f.spots[k].at + BlockLen]

BodyKept(f, i) ==
  /\ i \in DOMAIN f.members /\ f.members[i].kind = "file"
  /\ f.spots[i].at \in Nat /\ f.spots[i].size \in Nat
  /\ f.members[i].content = Bytes(f, f.spots[i].at + BlockLen, f.spots[i].size)

ListsFirst(f, l, k) == l = [i \in 1..k |-> BlockEntry(f, i)] /\ \A i \in 1..k : BodyKept(f, i)

\* How far the chain holds, and how it ends.
Chained(f, last) ==
  /\ last \in 0 .. Len(f.spots)
  /\ \A k \in 1 .. last : Written(f, k) /\ EndOf(f, k) <= f.len
  /\ \/ /\ f.damage = "none" /\ last = Len(f.spots)
        /\ \A p \in DOMAIN f.rec \union DOMAIN f.byte : p < EndOf(f, last)
     \/ f.damage = "short" /\ last > 0 /\ f.len = EndOf(f, last)
     \/ f.damage \in {"cut", "header"} /\ last < Len(f.spots) /\ Broken(f, last + 1)

WPressKept(f) ==
  /\ f.format = "wpress" /\ f.len \in Nat
  /\ HasFields(f, {"len", "byte", "members", "spots", "damage", "format", "stream"})
  /\ f.damage \in {"none", "short", "cut", "header"}

WPressInv ==
  /\ WPressKept(file)
  /\ status \in {"new", "walking", "open", "Unsupported", "UnknownFormat", "Corrupt"}
  /\ status \in {"new", "walking"} => WrittenWPress(file)
  /\ status = "walking" => \E last \in Nat, k \in Nat :
       /\ Chained(file, last) /\ k <= last
       /\ scan = [pos |-> EndOf(file, k), len |-> file.len]
       /\ ListsFirst(file, listing, k)
  /\ status = "open" => /\ file.damage \in {"none", "short"}
                        /\ \E k \in Nat : /\ ListsFirst(file, listing, k)
                                          /\ file.damage = "none" => k = Len(file.members)
  /\ status = "Unsupported" => file.stream
  /\ status \in {"UnknownFormat", "Corrupt"} =>
       file.damage \in {"cut", "header"} \/ file.members = <<>>
  /\ status \notin {"walking", "open"} => listing = <<>>
  /\ status # "open" => answers = <<>>
  /\ status = "open" => DOMAIN answers = DOMAIN listing
  /\ \A i \in DOMAIN answers : answers[i].said = "ok" =>
       answers[i].given = file.members[i].content

LEMMA WPressStarts == W!Init => WPressInv
<1> SUFFICES ASSUME W!Init PROVE WPressInv
  OBVIOUS
<1>1. WrittenWPress(file) /\ listing = <<>> /\ answers = <<>> /\ status = "new"
  BY WrittenAssumption DEF W!Init
<1>2. WPressKept(file)
  BY <1>1 DEF WrittenWPress, W!WPressFile, WPressKept
<1> QED BY <1>1, <1>2 DEF WPressInv

LEMMA ChainNumbers ==
  ASSUME NEW f, WrittenWPress(f), NEW last, Chained(f, last)
  PROVE  /\ f.len \in Nat /\ Len(f.spots) \in Nat /\ last \in Nat /\ last <= Len(f.spots)
         /\ Len(f.members) = Len(f.spots) /\ DOMAIN f.members = 1 .. Len(f.spots)
         /\ \A k \in 1 .. Len(f.spots) : f.spots[k].at \in Nat /\ f.spots[k].size \in Nat
         /\ \A k \in 0 .. Len(f.spots) : EndOf(f, k) \in Nat
<1>1. f.spots \in Seq(WPressSpot) /\ f.len \in Nat
  BY DEF WrittenWPress, W!WPressFile
<1>2. PICK n \in Nat : n = Len(f.spots) /\ DOMAIN f.spots = 1..n
  BY <1>1
<1>3. \A k \in 1..n : f.spots[k] \in WPressSpot
  BY <1>1, <1>2
<1>4. \A k \in 1..n : f.spots[k].at \in Nat /\ f.spots[k].size \in Nat
  BY <1>3 DEF WPressSpot
<1>5. \A k \in 0..n : EndOf(f, k) \in Nat
  BY <1>2, <1>4, WrittenAssumption DEF EndOf
<1>6. Len(f.members) = n /\ DOMAIN f.members = 1..n
  BY <1>2 DEF WrittenWPress
<1> QED BY <1>1, <1>2, <1>4, <1>5, <1>6 DEF Chained

\* Where the walk is when k blocks are behind it, and what it makes of the next.
LEMMA NextBlock ==
  ASSUME WrittenWPress(file), NEW last \in Nat, NEW k \in Nat, Chained(file, last), k < last,
         scan = [pos |-> EndOf(file, k), len |-> file.len]
  PROVE  /\ ~W!AtEnd /\ W!SoundRecord
         /\ W!NextAt = EndOf(file, k + 1) /\ W!EntryAtHand = BlockEntry(file, k + 1)
         /\ BodyKept(file, k + 1)
<1> DEFINE s == file.spots[k + 1]
<1>1. /\ k + 1 \in 1 .. last /\ k + 1 \in 1 .. Len(file.spots) /\ last <= Len(file.spots)
      /\ file.len \in Nat /\ s.at \in Nat /\ s.size \in Nat
      /\ k + 1 \in DOMAIN file.members
  BY ChainNumbers
<1>2. Written(file, k + 1) /\ EndOf(file, k + 1) <= file.len
  BY <1>1 DEF Chained
<1>3. (k + 1) - 1 = k /\ k + 1 # 0 /\ BlockLen \in Nat \ {0}
  BY WrittenAssumption
<1>4. s.at = EndOf(file, k) /\ s.at \in DOMAIN file.rec
  BY <1>2, <1>3 DEF Written
<1>5. scan.pos = s.at /\ scan.len = file.len
  BY <1>4
<1>6. W!hdr = BlockOf(file, k + 1)
  BY <1>5 DEF W!hdr, BlockOf
<1>7. W!SoundBlock(W!hdr) /\ W!Size = s.size
  BY <1>2, <1>6 DEF Written, W!Size
<1>8. W!BodyAt = s.at + BlockLen /\ W!NextAt = s.at + BlockLen + s.size
  BY <1>5, <1>7 DEF W!BodyAt, W!NextAt
<1>9. EndOf(file, k + 1) = s.at + BlockLen + s.size
  BY <1>3 DEF EndOf
<1> HIDE DEF s
<1>10. W!NextAt = EndOf(file, k + 1) /\ W!NextAt <= scan.len
  BY <1>2, <1>5, <1>8, <1>9
<1>11. W!Remaining \in Nat /\ W!Remaining >= BlockLen /\ W!Remaining > 0
  <2>1. PICK at \in Nat, size \in Nat, len \in Nat, n \in Nat \ {0} :
          at = s.at /\ size = s.size /\ len = file.len /\ n = BlockLen
    BY <1>1, <1>3
  <2>2. at + n + size <= len /\ scan.pos = at /\ scan.len = len
    BY <1>5, <1>8, <1>10, <2>1
  <2>3. len > at /\ len - at \in Nat /\ len - at >= n
    BY <2>1, <2>2
  <2>4. W!Remaining = len - at
    BY <2>2, <2>3 DEF W!Remaining
  <2> QED BY <2>1, <2>3, <2>4
<1>12. ~W!Zeros(BlockLen)
  BY <1>1, <1>3, <1>4, <1>5 DEF W!Zeros
<1>13. ~W!AtEnd
  BY <1>3, <1>11, <1>12 DEF W!AtEnd
<1>14. W!SoundRecord
  BY <1>1, <1>4, <1>5, <1>7, <1>10, <1>11 DEF W!SoundRecord
<1>15. W!EntryAtHand = BlockEntry(file, k + 1)
  <2>1. W!Join(W!Text(W!hdr.prefix), W!Text(W!hdr.name)) = file.members[k + 1].path
    BY <1>2, <1>6 DEF Written
  <2> QED BY <1>7, <1>8, <2>1 DEF W!EntryAtHand, BlockEntry, s
<1>16. BodyKept(file, k + 1)
  BY <1>1, <1>2 DEF BodyKept, Written, s
<1> QED BY <1>10, <1>13, <1>14, <1>15, <1>16

\* Where the chain ends the walk does: by the zeros after a whole one, at the
\* end of a shorter one, and nowhere in a broken one.
LEMMA LastBlock ==
  ASSUME WrittenWPress(file), NEW last \in Nat, Chained(file, last),
         scan = [pos |-> EndOf(file, last), len |-> file.len]
  PROVE  /\ file.damage \in {"none", "short"} => W!AtEnd
         /\ file.damage \in {"cut", "header"} => ~W!AtEnd /\ ~W!SoundRecord
<1>1. file.len \in Nat /\ EndOf(file, last) \in Nat /\ BlockLen \in Nat \ {0}
  BY ChainNumbers, WrittenAssumption
<1>2. scan.pos = EndOf(file, last) /\ scan.len = file.len
  OBVIOUS
<1>3. W!Remaining \in Nat
  BY <1>1, <1>2 DEF W!Remaining
<1>4. CASE file.damage = "none"
  <2>1. \A p \in DOMAIN file.rec \union DOMAIN file.byte : p < scan.pos
    BY <1>2, <1>4 DEF Chained
  <2>2. \A p \in DOMAIN file.rec \union DOMAIN file.byte : p \in Nat
    BY DEF WrittenWPress, W!WPressFile, W!Sparse
  <2>3. ASSUME NEW n \in Nat PROVE W!Zeros(n)
    BY <1>1, <1>2, <2>1, <2>2 DEF W!Zeros
  <2>4. W!AtEnd
    BY <1>1, <1>3, <2>3 DEF W!AtEnd
  <2> QED BY <1>4, <2>4
<1>5. CASE file.damage = "short"
  <2>1. W!Remaining = 0
    BY <1>1, <1>2, <1>5 DEF W!Remaining, Chained
  <2> QED BY <1>5, <2>1 DEF W!AtEnd
<1>6. CASE file.damage \in {"cut", "header"}
  <2>1. Broken(file, last + 1) /\ (last + 1) - 1 = last
    BY <1>6 DEF Chained
  <2> DEFINE at == file.spots[last + 1].at
  <2>2. /\ at = scan.pos /\ at \in DOMAIN file.rec /\ at < file.len
        /\ \/ ~W!SoundBlock(BlockOf(file, last + 1))
           \/ at + BlockLen + W!Decimal(BlockOf(file, last + 1).size) > file.len
    BY <1>2, <2>1 DEF Broken
  <2>3. W!hdr = BlockOf(file, last + 1)
    BY <2>2 DEF W!hdr, BlockOf
  <2> HIDE DEF at
  <2>4. W!Remaining > 0
    BY <1>1, <1>2, <2>2 DEF W!Remaining
  <2>5. ASSUME NEW n \in Nat, n > 0 PROVE ~W!Zeros(n)
    BY <1>1, <1>2, <2>2, <2>5 DEF W!Zeros
  <2>6. ~W!AtEnd
    <3>1. PICK r \in Nat : r = W!Remaining
      BY <1>3
    <3> QED BY <1>1, <2>4, <2>5, <3>1 DEF W!AtEnd
  <2>7. ~W!SoundRecord
    <3> SUFFICES ASSUME W!SoundRecord PROVE FALSE
      OBVIOUS
    <3>1. W!SoundBlock(W!hdr) /\ W!Size \in Nat /\ W!NextAt <= scan.len
      BY DEF W!SoundRecord
    <3>2. W!NextAt = at + BlockLen + W!Size /\ W!Size = W!Decimal(BlockOf(file, last + 1).size)
      BY <2>2, <2>3 DEF W!NextAt, W!BodyAt, W!Size
    <3> QED BY <1>1, <1>2, <2>2, <2>3, <3>1, <3>2
  <2> QED BY <1>6, <2>6, <2>7
<1> QED BY <1>4, <1>5, <1>6

LEMMA WPressRefuses ==
  ASSUME WPressInv, NEW error \in {"Unsupported", "UnknownFormat", "Corrupt"}, W!Refuse(error),
         status \in {"new", "walking"},
         error = "Unsupported" => file.stream,
         error # "Unsupported" => file.damage \in {"cut", "header"} \/ file.members = <<>>
  PROVE  WPressInv'
<1>1. /\ status' = error /\ listing' = <<>> /\ file' = file /\ scan' = scan
      /\ answers' = answers
  BY DEF W!Refuse
<1>2. answers = <<>>
  BY DEF WPressInv
<1> QED BY <1>1, <1>2 DEF WPressInv

LEMMA WPressRecord ==
  ASSUME WPressInv, W!Record
  PROVE  WPressInv'
<1>1. /\ status = "walking" /\ ~W!AtEnd /\ W!SoundRecord
      /\ listing' = Append(listing, W!EntryAtHand)
      /\ scan' = [scan EXCEPT !.pos = W!NextAt]
      /\ file' = file /\ status' = status /\ answers' = answers
  BY DEF W!Record
<1>2. PICK last \in Nat, k \in Nat :
        /\ Chained(file, last) /\ k <= last
        /\ scan = [pos |-> EndOf(file, k), len |-> file.len]
        /\ ListsFirst(file, listing, k)
  BY <1>1 DEF WPressInv
<1>3. WrittenWPress(file)
  BY <1>1 DEF WPressInv
<1>4. k < last
  <2>1. ASSUME k = last PROVE FALSE
    BY <1>1, <1>2, <1>3, <2>1, LastBlock DEF WPressInv, WPressKept
  <2> QED BY <1>2, <2>1
<1>5. /\ W!NextAt = EndOf(file, k + 1) /\ W!EntryAtHand = BlockEntry(file, k + 1)
      /\ BodyKept(file, k + 1)
  BY <1>2, <1>3, <1>4, NextBlock
<1>6. scan' = [pos |-> EndOf(file, k + 1), len |-> file.len]
  BY <1>1, <1>2, <1>5
<1>7. listing' = [i \in 1 .. k + 1 |-> BlockEntry(file, i)]
  <2> DEFINE S == {BlockEntry(file, i) : i \in 1 .. k + 1}
             e == BlockEntry(file, k + 1)
  <2>1. listing = [i \in 1..k |-> BlockEntry(file, i)]
    BY <1>2 DEF ListsFirst
  <2>2. listing \in Seq(S) /\ Len(listing) = k /\ e \in S
    <3>1. \A i \in 1 .. k + 1 : BlockEntry(file, i) \in S
      OBVIOUS
    <3> HIDE DEF S
    <3> QED BY <2>1, <3>1
  <2> HIDE DEF S, e
  <2>3. /\ listing' \in Seq(S) /\ Len(listing') = k + 1 /\ listing'[k + 1] = e
        /\ \A i \in 1..k : listing'[i] = listing[i]
    BY <1>1, <1>5, <2>2 DEF e
  <2>4. \A i \in 1 .. k + 1 : listing'[i] = BlockEntry(file, i)
    BY <2>1, <2>3 DEF e
  <2>5. listing' = [i \in 1 .. k + 1 |-> listing'[i]]
    BY <2>3
  <2> QED BY <2>4, <2>5
<1>8. ListsFirst(file, listing', k + 1)
  BY <1>2, <1>5, <1>7 DEF ListsFirst
<1>9. \E l \in Nat, j \in Nat :
        /\ Chained(file', l) /\ j <= l
        /\ scan' = [pos |-> EndOf(file', j), len |-> file'.len]
        /\ ListsFirst(file', listing', j)
  BY <1>1, <1>2, <1>4, <1>6, <1>8
<1> QED BY <1>1, <1>9 DEF WPressInv

LEMMA WPressBad ==
  ASSUME WPressInv, W!BadRecord
  PROVE  WPressInv'
<1>1. status = "walking" /\ ~W!AtEnd /\ ~W!SoundRecord /\ W!Refuse(W!Blame)
  BY DEF W!BadRecord
<1>2. PICK last \in Nat, k \in Nat :
        /\ Chained(file, last) /\ k <= last
        /\ scan = [pos |-> EndOf(file, k), len |-> file.len]
  BY <1>1 DEF WPressInv
<1>3. WrittenWPress(file)
  BY <1>1 DEF WPressInv
<1>4. k = last
  BY <1>1, <1>2, <1>3, NextBlock
<1>5. file.damage \in {"cut", "header"}
  BY <1>1, <1>2, <1>3, <1>4, LastBlock DEF WPressInv, WPressKept
<1>6. W!Blame \in {"UnknownFormat", "Corrupt"}
  BY DEF W!Blame
<1> QED BY <1>1, <1>5, <1>6, WPressRefuses

LEMMA WPressEnds ==
  ASSUME WPressInv, W!End
  PROVE  WPressInv'
<1>1. /\ status = "walking" /\ W!AtEnd
      /\ IF listing = <<>> THEN W!Refuse("UnknownFormat")
         ELSE /\ status' = "open"
              /\ answers' = [k \in DOMAIN listing |-> W!NotRead]
              /\ UNCHANGED <<file, scan, listing>>
  BY DEF W!End
<1>2. PICK last \in Nat, k \in Nat :
        /\ Chained(file, last) /\ k <= last
        /\ scan = [pos |-> EndOf(file, k), len |-> file.len]
        /\ ListsFirst(file, listing, k)
  BY <1>1 DEF WPressInv
<1>3. WrittenWPress(file)
  BY <1>1 DEF WPressInv
<1>4. k = last
  BY <1>1, <1>2, <1>3, NextBlock
<1>5. file.damage \in {"none", "short"}
  BY <1>1, <1>2, <1>3, <1>4, LastBlock DEF WPressInv, WPressKept
<1>6. /\ file.damage = "none" => k = Len(file.members)
      /\ file.damage = "short" => k > 0
  BY <1>2, <1>3, <1>4, <1>5, ChainNumbers DEF Chained
<1>7. CASE listing = <<>>
  <2>1. k = 0
    <3>1. DOMAIN listing = 1..k
      BY <1>2 DEF ListsFirst
    <3>2. DOMAIN listing = {}
      BY <1>7
    <3> QED BY <3>1, <3>2
  <2>2. file.members = <<>>
    <3>1. Len(file.members) = 0
      BY <1>5, <1>6, <2>1
    <3>2. file.members \in Seq(Range(file.members))
      BY <1>3 DEF WrittenWPress
    <3> QED BY <3>1, <3>2
  <2> QED BY <1>1, <1>7, <2>2, WPressRefuses
<1>8. CASE listing # <<>>
  <2>1. /\ status' = "open" /\ file' = file /\ scan' = scan /\ listing' = listing
        /\ answers' = [j \in DOMAIN listing |-> W!NotRead]
    BY <1>1, <1>8
  <2>2. \A i \in DOMAIN answers' : answers'[i].said # "ok"
    BY <2>1 DEF W!NotRead, W!Answer
  <2>3. DOMAIN answers' = DOMAIN listing'
    BY <2>1
  <2>4. \E j \in Nat : /\ ListsFirst(file', listing', j)
                       /\ file'.damage = "none" => j = Len(file'.members)
    BY <1>2, <1>6, <2>1
  <2> QED BY <1>5, <2>1, <2>2, <2>3, <2>4 DEF WPressInv
<1> QED BY <1>7, <1>8

\* A body is copied from where it lies, and is all there or is told short.
LEMMA WPressGives ==
  ASSUME WPressInv, status = "open", NEW i \in DOMAIN listing,
         W!ReadStored(file, listing[i].at, listing[i].size).said = "ok"
  PROVE  W!ReadStored(file, listing[i].at, listing[i].size).given = file.members[i].content
<1>1. PICK k \in Nat : ListsFirst(file, listing, k)
  BY DEF WPressInv
<1>2. i \in 1..k /\ listing[i] = BlockEntry(file, i) /\ BodyKept(file, i)
  BY <1>1 DEF ListsFirst
<1>3. PICK at \in Nat, size \in Nat :
        /\ at = listing[i].at /\ size = listing[i].size
        /\ file.members[i].content = Bytes(file, at, size)
  BY <1>2, WrittenAssumption DEF BlockEntry, BodyKept
<1>4. file.len \in Nat
  BY DEF WPressInv, WPressKept
<1>5. PICK n \in Nat : n = W!Reach(file, at, size)
  BY <1>3, <1>4 DEF W!Reach
<1>6. W!Bytes(file, at, n) = Bytes(file, at, n) /\ Len(Bytes(file, at, n)) = n
  BY <1>5 DEF W!Bytes, W!ByteAt, Bytes, ByteAt
<1>7. /\ W!ReadStored(file, at, size).given = Bytes(file, at, n)
      /\ W!ReadStored(file, at, size).said = IF n = size THEN "ok" ELSE "Corrupt"
  BY <1>5, <1>6 DEF W!ReadStored, W!Answer
<1> QED BY <1>3, <1>7

LEMMA WPressReads ==
  ASSUME WPressInv, NEW i \in DOMAIN listing, W!ReadEntry(i)
  PROVE  WPressInv'
<1> DEFINE a == W!ReadStored(file, listing[i].at, listing[i].size)
<1>1. /\ status = "open" /\ answers' = [answers EXCEPT ![i] = a]
      /\ file' = file /\ scan' = scan /\ listing' = listing /\ status' = status
  BY DEF W!ReadEntry
<1>2. a.said = "ok" => a.given = file.members[i].content
  BY <1>1, WPressGives
<1> HIDE DEF a
<1>3. DOMAIN answers' = DOMAIN listing'
  BY <1>1 DEF WPressInv
<1>4. \A j \in DOMAIN answers' : answers'[j] = IF j = i THEN a ELSE answers[j]
  BY <1>1, <1>3
<1>5. \A j \in DOMAIN answers' : answers'[j].said = "ok" =>
        answers'[j].given = file'.members[j].content
  BY <1>1, <1>2, <1>4 DEF WPressInv
<1> QED BY <1>1, <1>3, <1>5 DEF WPressInv

LEMMA WPressShrinks ==
  ASSUME WPressInv, W!Shrink
  PROVE  WPressInv'
<1>1. PICK n \in Cuts : n <= file.len /\ file' = [file EXCEPT !.len = @ - n]
  BY DEF W!Shrink
<1>2. /\ status = "open" /\ status' = status /\ scan' = scan /\ listing' = listing
      /\ answers' = answers
  BY DEF W!Shrink
<1>3. /\ file'.format = file.format /\ file'.members = file.members
      /\ file'.damage = file.damage /\ file'.byte = file.byte /\ file'.spots = file.spots
      /\ file'.len = file.len - n /\ file'.stream = file.stream
  BY <1>1 DEF WPressInv, WPressKept, HasFields
<1>4. HasFields(file', {"len", "byte", "members", "spots", "damage", "format", "stream"})
  BY <1>1 DEF WPressInv, WPressKept, HasFields
<1>5. WPressKept(file')
  BY <1>1, <1>3, <1>4, CpioAssumption DEF WPressInv, WPressKept
<1>6. \A l, k : ListsFirst(file, l, k) => ListsFirst(file', l, k)
  BY <1>3 DEF ListsFirst, BlockEntry, BodyKept, Bytes, ByteAt
<1>7. \E k \in Nat : /\ ListsFirst(file', listing', k)
                     /\ file'.damage = "none" => k = Len(file'.members)
  BY <1>2, <1>3, <1>6 DEF WPressInv
<1> QED BY <1>2, <1>3, <1>5, <1>7 DEF WPressInv

LEMMA WPressNext ==
  ASSUME WPressInv, W!Next
  PROVE  WPressInv'
<1>1. CASE W!RefuseStream
  BY <1>1, WPressRefuses DEF W!RefuseStream
<1>2. CASE W!Start
  <2>1. /\ status = "new" /\ status' = "walking" /\ file' = file /\ listing' = listing
        /\ answers' = answers /\ scan' = [pos |-> 0, len |-> file.len]
    BY <1>2 DEF W!Start
  <2>2. WrittenWPress(file) /\ listing = <<>> /\ answers = <<>>
    BY <2>1 DEF WPressInv
  <2>3. PICK last \in 0 .. Len(file.spots) : Chained(file, last)
    BY <2>2 DEF WrittenWPress, Chained
  <2>4. last \in Nat /\ 0 <= last
    BY <2>2, <2>3, ChainNumbers
  <2>5. EndOf(file, 0) = 0
    BY DEF EndOf
  <2>6. ListsFirst(file, listing, 0)
    BY <2>2 DEF ListsFirst
  <2>7. \E l \in Nat, j \in Nat :
          /\ Chained(file', l) /\ j <= l
          /\ scan' = [pos |-> EndOf(file', j), len |-> file'.len]
          /\ ListsFirst(file', listing', j)
    BY <2>1, <2>3, <2>4, <2>5, <2>6
  <2> QED BY <2>1, <2>2, <2>7 DEF WPressInv
<1> QED
  BY <1>1, <1>2, WPressRecord, WPressBad, WPressEnds, WPressReads, WPressShrinks DEF W!Next

----------------------------------------------------------------------------
LEMMA WPressKeeps ==
  ASSUME WPressInv
  PROVE  ReadsAsWritten /\ OkIsContent /\ CutIsTold /\ BodiesApart /\ VerifyKeepsItsContract
<1>1. file.format = "wpress"
  BY DEF WPressInv, WPressKept
<1>2. ASSUME NEW k \in Nat, ListsFirst(file, listing, k), NEW i \in DOMAIN listing
      PROVE  Matches(listing[i], Member(i)) /\ listing[i].kind = "file"
  <2>1. i \in 1..k /\ listing[i] = BlockEntry(file, i) /\ BodyKept(file, i)
    BY <1>2 DEF ListsFirst
  <2>2. PICK n \in Nat :
          /\ n = file.spots[i].size
          /\ file.members[i].content = Bytes(file, file.spots[i].at + BlockLen, n)
    BY <2>1 DEF BodyKept
  <2>3. Len(file.members[i].content) = n
    BY <2>2 DEF Bytes
  <2> QED BY <2>1, <2>2, <2>3 DEF Matches, Member, BlockEntry, BodyKept
<1>3. ASSUME NEW i \in DOMAIN listing PROVE Matches(listing[i], Member(i))
  <2>1. PICK k \in Nat : ListsFirst(file, listing, k)
    BY DEF WPressInv
  <2> QED BY <1>2, <1>3, <2>1
<1>4. status = "open" /\ file.damage = "none" => Len(listing) = Len(file.members)
  <2> SUFFICES ASSUME status = "open", file.damage = "none"
               PROVE  Len(listing) = Len(file.members)
    OBVIOUS
  <2>1. PICK k \in Nat : ListsFirst(file, listing, k) /\ k = Len(file.members)
    BY DEF WPressInv
  <2> QED BY <2>1 DEF ListsFirst
<1>5. ReadsAsWritten
  BY <1>1, <1>3, <1>4 DEF ReadsAsWritten, Listable, WPressInv
<1>6. OkIsContent
  BY <1>1 DEF OkIsContent, WPressInv, Member
<1>7. CutIsTold
  BY DEF CutIsTold, WPressInv
<1> QED BY <1>1, <1>5, <1>6, <1>7 DEF BodiesApart, VerifyKeepsItsContract

----------------------------------------------------------------------------
\* One archive, one reader.
RecordsInv == CpioInv \/ WPressInv \/ TarInv \/ ZipInv \/ RarInv

LEMMA EachStarts == RecordsInit => RecordsInv
BY CpioStarts, WPressStarts, TarStarts, ZipStarts, RarStarts DEF RecordsInit, RecordsInv

LEMMA EachGoesOn == RecordsInv /\ [RecordsNext]_vars => RecordsInv'
<1> SUFFICES ASSUME RecordsInv, [RecordsNext]_vars PROVE RecordsInv'
  OBVIOUS
<1>1. /\ CpioInv => file.format = "cpio"
      /\ WPressInv => file.format = "wpress"
      /\ TarInv => file.format = "tar"
      /\ ZipInv => file.format = "zip"
      /\ RarInv => file.format = "rar"
  <2>1. CpioInv => file.format = "cpio"
    BY DEF CpioInv, IndInv, TypeOK, CpioFile
  <2>2. WPressInv => file.format = "wpress"
    BY DEF WPressInv, WPressKept
  <2>3. TarInv => file.format = "tar"
    BY DEF TarInv, TarFile
  <2>4. ZipInv => file.format = "zip"
    BY DEF ZipInv, WrittenZip
  <2>5. RarInv => file.format = "rar"
    BY DEF RarInv, WrittenRar
  <2> QED BY <2>1, <2>2, <2>3, <2>4, <2>5
<1>2. CASE UNCHANGED vars
  <2>1. /\ file' = file /\ scan' = scan /\ listing' = listing /\ status' = status
        /\ answers' = answers
    BY <1>2 DEF vars
  <2>2. CpioInv => CpioInv'
    BY <1>2, CpioNext
  <2>3. WPressInv => WPressInv'
    BY <2>1 DEF WPressInv
  <2>4. TarInv => TarInv'
    BY <2>1 DEF TarInv, T!EntryOf
  <2>5. ZipInv => ZipInv'
    BY <2>1 DEF ZipInv, Z!EntryOf, Z!Locked, Z!TargetOf, Z!ByIndex
  <2>6. RarInv => RarInv'
    BY <2>1 DEF RarInv, R!Opens, R!EntryOf, R!Locked
  <2> QED BY <2>2, <2>3, <2>4, <2>5, <2>6 DEF RecordsInv
<1>3. CASE RecordsNext
  <2>1. CASE CpioInv
    <3>1. [Next]_vars
      BY <1>1, <1>3, <2>1 DEF RecordsNext
    <3> QED BY <2>1, <3>1, CpioNext DEF RecordsInv
  <2>2. CASE WPressInv
    <3>1. W!Next
      BY <1>1, <1>3, <2>2 DEF RecordsNext
    <3> QED BY <2>2, <3>1, WPressNext DEF RecordsInv
  <2>3. CASE TarInv
    <3>1. T!Next
      BY <1>1, <1>3, <2>3 DEF RecordsNext
    <3> QED BY <2>3, <3>1, TarNext DEF RecordsInv
  <2>4. CASE ZipInv
    <3>1. Z!Next
      BY <1>1, <1>3, <2>4 DEF RecordsNext
    <3> QED BY <2>4, <3>1, ZipNext DEF RecordsInv
  <2>5. CASE RarInv
    <3>1. R!Next
      BY <1>1, <1>3, <2>5 DEF RecordsNext
    <3> QED BY <2>5, <3>1, RarNext DEF RecordsInv
  <2> QED BY <2>1, <2>2, <2>3, <2>4, <2>5 DEF RecordsInv
<1> QED BY <1>2, <1>3

LEMMA EachKeeps ==
  RecordsInv =>
    ReadsAsWritten /\ OkIsContent /\ CutIsTold /\ BodiesApart /\ VerifyKeepsItsContract
BY CpioKeeps, WPressKeeps, TarKeeps, ZipKeeps, RarKeeps DEF RecordsInv

LEMMA RecordsKeepStep == RecordsSpec => []RecordsInv
BY EachStarts, EachGoesOn, PTL DEF RecordsSpec

\* Whatever of the five formats an archive is in, what its reader lists is what
\* its writer put in: the same members, in order, with their paths, kinds,
\* lengths and targets (the scan loops of cpio.rs and wpress.rs, open_tar,
\* open_zip, open_rar).
THEOREM RecordsReadAsWritten == RecordsSpec => []ReadsAsWritten
BY RecordsKeepStep, EachKeeps, PTL

\* A read_entry of any of the five readers that says it went well gave the
\* member's own bytes, however the file was shortened since it was opened, and
\* never those of a member whose password the caller does not have.
THEOREM RecordsGiveContent == RecordsSpec => []OkIsContent
BY RecordsKeepStep, EachKeeps, PTL

\* An archive that is cut in a record, or a header of which is spoiled, is
\* refused by its reader's open.
THEOREM RecordsTellCuts == RecordsSpec => []CutIsTold
BY RecordsKeepStep, EachKeeps, PTL

\* advance lets no body of a cpio reach past the end the file had, and no two
\* listed bodies share a byte.
THEOREM BodiesLieApart == RecordsSpec => []BodiesApart
BY RecordsKeepStep, EachKeeps, PTL

\* verify_password of zip.rs and rar.rs keeps the contract archive.rs states.
THEOREM RecordsVerify == RecordsSpec => []VerifyKeepsItsContract
BY RecordsKeepStep, EachKeeps, PTL
===========================================================================
