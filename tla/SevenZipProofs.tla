-------------------------- MODULE SevenZipProofs ---------------------------
(***************************************************************************)
(* Proofs about SevenZip: the entry a walk finds is the entry asked for,    *)
(* for every archive, however its names repeat.  The walk counts the files *)
(* of the name and class wanted; two such files with equally many before   *)
(* them are one file, so the count tells when it is there.                 *)
(***************************************************************************)
EXTENDS SevenZip, FiniteSetTheorems, TLAPS

\* The files among the first k that share name and class with i.
Alike(i, k) == {j \in 1..k : Same(i, j)}

\* Where a walk is, and what it has counted and copied so far.
WalkInv ==
  purpose # "none" =>
    /\ found => at + 1 = want
    /\ ~found => /\ got = <<>>
                 /\ class = files[want].stream => seen = Cardinality(Alike(want, at))
                 /\ class /\ ~files[want].stream => seen = 0

IndInv == files \in Archives /\ TypeOK /\ WalkInv /\ OnlyOwnBytes

----------------------------------------------------------------------------
LEMMA ArchiveType ==
  ASSUME files \in Archives
  PROVE  /\ files \in Seq(File) /\ N \in Nat
         /\ \A i \in 1..N : files[i] \in File
<1>1. files \in Seq(File)
  BY SevenZipAssumption
<1> QED BY <1>1 DEF N

LEMMA AlikeType ==
  ASSUME NEW i, NEW k \in Nat
  PROVE  /\ IsFiniteSet(Alike(i, k)) /\ Cardinality(Alike(i, k)) \in Nat
         /\ Cardinality(Alike(i, k)) <= k
<1>1. IsFiniteSet(1..k) /\ Cardinality(1..k) = k
  BY FS_Interval
<1>2. Alike(i, k) \subseteq 1..k
  BY DEF Alike
<1> QED BY <1>1, <1>2, FS_Subset, FS_CardinalityType

\* One more file counts or not, as it is alike or not.
LEMMA AlikeNext ==
  ASSUME NEW i, NEW k \in Nat
  PROVE  Cardinality(Alike(i, k + 1))
           = IF Same(i, k + 1) THEN Cardinality(Alike(i, k)) + 1 ELSE Cardinality(Alike(i, k))
<1>1. CASE Same(i, k + 1)
  <2>1. Alike(i, k + 1) = Alike(i, k) \union {k + 1} /\ k + 1 \notin Alike(i, k)
    BY <1>1 DEF Alike
  <2> QED BY <1>1, <2>1, AlikeType, FS_AddElement
<1>2. CASE ~Same(i, k + 1)
  <2>1. Alike(i, k + 1) = Alike(i, k)
    BY <1>2 DEF Alike
  <2> QED BY <1>2, <2>1
<1> QED BY <1>1, <1>2

LEMMA AlikeNone == ASSUME NEW i PROVE Cardinality(Alike(i, 0)) = 0
<1> Alike(i, 0) = {}
  BY DEF Alike
<1> QED BY FS_EmptySet

\* Of two alike files the later has more alike files before it.
LEMMA AlikeGrows ==
  ASSUME NEW i, NEW a \in Nat, NEW b \in Nat, a < b, Same(i, a + 1)
  PROVE  Cardinality(Alike(i, a)) < Cardinality(Alike(i, b))
<1>1. Alike(i, a + 1) \subseteq Alike(i, b)
  BY DEF Alike
<1>2. Cardinality(Alike(i, a + 1)) <= Cardinality(Alike(i, b))
  BY <1>1, AlikeType, FS_Subset
<1>3. Cardinality(Alike(i, a + 1)) = Cardinality(Alike(i, a)) + 1
  BY AlikeNext
<1> QED BY <1>2, <1>3, AlikeType

\* A file that matches with the count wanted is the file wanted.
LEMMA WantedIsFound ==
  ASSUME files \in Archives, TypeOK, WalkInv, purpose # "none", ~found, IsWanted
  PROVE  at + 1 = want
<1>1. at \in Nat /\ want \in 1..N /\ N \in Nat /\ want - 1 \in Nat
  BY ArchiveType DEF TypeOK
<1>2. Same(want, at + 1) /\ class = files[want].stream
  BY DEF IsWanted, Matches, Visits, Same
<1>3. Cardinality(Alike(want, at)) = Cardinality(Alike(want, want - 1))
  BY <1>2 DEF WalkInv, IsWanted, Occurrence, Alike
<1>4. ~(at < want - 1)
  BY <1>1, <1>2, <1>3, AlikeGrows, AlikeType
<1>5. ~(want - 1 < at)
  <2> SUFFICES ASSUME want - 1 < at PROVE FALSE
    OBVIOUS
  <2>1. Same(want, (want - 1) + 1)
    BY <1>1 DEF Same
  <2>2. Cardinality(Alike(want, want - 1)) < Cardinality(Alike(want, at))
    BY <1>1, <2>1, AlikeGrows
  <2> QED BY <1>1, <1>3, <2>2, AlikeType
<1> QED BY <1>1, <1>4, <1>5
----------------------------------------------------------------------------
LEMMA InitInd == Init => IndInv
<1> SUFFICES ASSUME Init PROVE IndInv
  OBVIOUS
<1>1. files \in Archives /\ N \in Nat
  BY ArchiveType DEF Init
<1>2. <<>> \in Seq((0..N) \X Nat) /\ 0 \in 0..N
  BY <1>1
<1>3. TypeOK
  <2>1. headLocked \in BOOLEAN /\ gone \in BOOLEAN /\ class \in BOOLEAN /\ found \in BOOLEAN
        /\ ~found
    BY DEF Init
  <2> QED BY <1>2, <2>1 DEF Init, TypeOK
<1>4. WalkInv /\ OnlyOwnBytes
  BY DEF Init, WalkInv, OnlyOwnBytes
<1> QED BY <1>1, <1>3, <1>4 DEF IndInv

\* A walk starts with nothing counted and nothing copied.
LEMMA StartInd ==
  ASSUME IndInv, NEW i \in 1..N, NEW why \in {"link", "read", "verify"}, StartWalk(why, i),
         UNCHANGED archive
  PROVE  WalkInv' /\ OnlyOwnBytes'
<1>1. files' = files /\ password' = password
  BY DEF archive
<1>2. Cardinality(Alike(i, 0)) = 0
  BY AlikeNone
<1>3. Alike(want, at)' = Alike(i, 0)
  BY <1>1 DEF StartWalk, Alike, Same
<1>4. WalkInv'
  BY <1>1, <1>2, <1>3 DEF StartWalk, WalkInv
<1>5. files[i].size \in Nat
  BY ArchiveType DEF IndInv, File
<1>6. OnlyOwnBytes'
  BY <1>1, <1>5 DEF StartWalk, OnlyOwnBytes, Body
<1> QED BY <1>4, <1>6

\* The end of a walk leaves what was copied.
LEMMA EndInd ==
  ASSUME IndInv, NEW result \in Errors \union {"ok"}, purpose # "none", EndWalk(result)
  PROVE  IndInv'
<1>1. /\ files' = files /\ password' = password /\ headLocked' = headLocked /\ gone' = gone
      /\ phase' = phase /\ done' = done /\ want' = want /\ got' = got
      /\ class' = class /\ at' = at /\ seen' = seen /\ found' = found /\ purpose' = "none"
  BY DEF EndWalk, archive, walk
<1>2. phase \in {"links", "ready"} /\ want \in 1..N /\ N \in Nat
  BY ArchiveType DEF IndInv, TypeOK
<1>3. /\ kind' \in [1..N -> {"file", "dir", "link"}] /\ target' \in [1..N -> 0..N]
      /\ answer' \in Errors \union {"none", "ok"}
  <2>1. CASE purpose = "link"
    <3>1. got # <<>> => got[1][1] \in 0..N
      BY DEF IndInv, TypeOK
    <3> QED BY <1>2, <2>1, <3>1 DEF EndWalk, LinkRead, IndInv, TypeOK
  <2>2. CASE purpose = "verify"
    BY <1>2, <2>2 DEF EndWalk, Answered, IndInv, TypeOK, Errors
  <2>3. CASE purpose = "read"
    BY <1>2, <2>3 DEF EndWalk, Answered, IndInv, TypeOK
  <2> QED BY <2>1, <2>2, <2>3 DEF IndInv, TypeOK
<1>4. TypeOK'
  BY <1>1, <1>3 DEF IndInv, TypeOK, N, Errors
<1>5. WalkInv' /\ OnlyOwnBytes'
  BY <1>1 DEF IndInv, WalkInv, OnlyOwnBytes, Unsure, Body
<1> QED BY <1>1, <1>4, <1>5 DEF IndInv

\* The walk goes on: what is counted stays the number of files alike.
LEMMA WalkOnInd ==
  ASSUME IndInv, PassOther \/ Skip \/ (class /\ Others)
  PROVE  IndInv'
<1>1. /\ purpose # "none" /\ ~found /\ got = <<>> /\ want \in 1..N /\ N \in Nat /\ at \in 0..N
      /\ at \in Nat /\ seen \in 0..N /\ phase \in {"links", "ready"}
  BY ArchiveType DEF IndInv, TypeOK, WalkInv, PassOther, Skip, Others, Walking
<1>2. /\ UNCHANGED archive /\ UNCHANGED listing /\ files' = files /\ password' = password
      /\ UNCHANGED <<gone, purpose, want, found, got, answer>>
  BY DEF PassOther, Skip, Others, archive
<1>3. OnlyOwnBytes'
  BY <1>2 DEF IndInv, OnlyOwnBytes, Unsure, Body
<1> DEFINE C(k) == Cardinality(Alike(want, k))
<1>4. \A k \in Nat : Cardinality(Alike(want, k)') = C(k)
  BY <1>2 DEF Alike, Same
<1>5. (at' \in 0..N /\ class' \in BOOLEAN /\ seen' \in 0..N) => TypeOK'
  BY <1>1, <1>2 DEF IndInv, TypeOK, archive, listing, N
<1>6. ASSUME at' \in Nat, class' = files[want].stream => seen' = C(at'),
             class' /\ ~files[want].stream => seen' = 0
      PROVE  WalkInv'
  <2>1. Alike(want, at)' = Alike(want, at')
    BY <1>2 DEF Alike, Same
  <2> QED BY <1>1, <1>2, <1>6, <2>1 DEF WalkInv
<1>7. CASE PassOther
  <2>1. at' = at + 1 /\ at < N /\ class' = class /\ seen' = seen /\ files[at + 1].stream # class
    BY <1>7 DEF PassOther, Visits
  <2>2. class = files[want].stream => ~Same(want, at + 1)
    BY <2>1 DEF Same
  <2>3. class = files[want].stream => C(at + 1) = C(at)
    BY <1>1, <2>2, AlikeNext
  <2>4. WalkInv'
    BY <1>1, <1>6, <2>1, <2>3 DEF IndInv, WalkInv
  <2> QED BY <1>1, <1>2, <1>3, <1>5, <2>1, <2>4 DEF IndInv, TypeOK
<1>8. CASE Skip
  <2>1. at' = at + 1 /\ at < N /\ class' = class /\ files[at + 1].stream = class
        /\ seen' = (IF Same(want, at + 1) THEN seen + 1 ELSE seen)
    BY <1>8 DEF Skip, Matches, Visits
  <2>2. class = files[want].stream => seen' = C(at + 1)
    BY <1>1, <2>1, AlikeNext DEF IndInv, WalkInv
  <2>3. class # files[want].stream => ~Same(want, at + 1)
    BY <2>1 DEF Same
  <2>4. seen' \in 0..N
    <3>1. Same(want, at + 1) => seen = C(at)
      BY <1>1, <2>3 DEF IndInv, WalkInv
    <3>2. C(at) <= at
      BY <1>1, AlikeType
    <3> QED BY <1>1, <2>1, <3>1, <3>2
  <2>5. class /\ ~files[want].stream => seen' = 0
    BY <1>1, <2>1, <2>3 DEF IndInv, WalkInv
  <2>6. WalkInv'
    BY <1>1, <1>6, <2>1, <2>2, <2>5
  <2> QED BY <1>1, <1>2, <1>3, <1>5, <2>1, <2>4, <2>6 DEF IndInv, TypeOK
<1>9. CASE class /\ Others
  <2>1. class /\ class' = FALSE /\ at' = 0 /\ seen' = seen
    BY <1>9 DEF Others
  <2>2. C(0) = 0
    BY AlikeNone
  <2>3. files[want].stream \in BOOLEAN
    BY <1>1, ArchiveType DEF IndInv, File
  <2>4. FALSE = files[want].stream => seen = 0
    BY <1>1, <2>1, <2>3 DEF IndInv, WalkInv
  <2>5. WalkInv'
    BY <1>1, <1>6, <2>1, <2>2, <2>4
  <2>6. at' \in 0..N /\ seen' \in 0..N
    BY <1>1, <2>1
  <2>7. class' \in BOOLEAN
    BY <2>1, Zenon
  <2>8. TypeOK'
    BY <1>5, <2>6, <2>7, Zenon
  <2> QED BY <1>2, <1>3, <2>5, <2>8 DEF IndInv
<1> QED BY <1>7, <1>8, <1>9

\* What is copied is the next part of the file found, which is the file wanted.
LEMMA CopyInd ==
  ASSUME IndInv, CopyPart PROVE IndInv'
<1>1. /\ found /\ purpose # "none" /\ at + 1 = want /\ want \in 1..N /\ N \in Nat
      /\ Len(got) < files[want].size /\ files[want].size \in Nat
      /\ got \in Seq((0..N) \X Nat) /\ Len(got) \in Nat
  BY ArchiveType DEF CopyPart, IndInv, TypeOK, WalkInv, File
<1>2. UNCHANGED <<files, password, headLocked, gone, phase, kind, target, done, purpose, want,
                  class, at, seen, found, answer>>
  BY DEF CopyPart, archive, listing, walk
<1>3. PICK part \in (0..N) \X Nat :
        /\ got' = Append(got, part)
        /\ ~Unsure(want) => part = <<want, Len(got) + 1>>
  <2> DEFINE part == IF files[want].locked /\ password = "wrong"
                     THEN Garbage ELSE <<want, Len(got) + 1>>
  <2>1. got' = Append(got, part)
    BY <1>1 DEF CopyPart
  <2>2. part \in (0..N) \X Nat
    BY <1>1 DEF Garbage
  <2>3. ~Unsure(want) => part = <<want, Len(got) + 1>>
    BY DEF Unsure
  <2> QED BY <2>1, <2>2, <2>3
<1>4. got' \in Seq((0..N) \X Nat) /\ Len(got') = Len(got) + 1
  BY <1>1, <1>3
<1>5. TypeOK'
  BY <1>1, <1>2, <1>4 DEF IndInv, TypeOK, N
<1>6. WalkInv'
  BY <1>1, <1>2 DEF WalkInv
<1>7. OnlyOwnBytes'
  <2> SUFFICES ASSUME ~Unsure(want)
               PROVE  Len(got') <= files[want].size /\ got' = SubSeq(Body(want), 1, Len(got'))
    BY <1>2 DEF OnlyOwnBytes, Unsure, Body
  <2>1. got = SubSeq(Body(want), 1, Len(got))
    BY <1>1 DEF IndInv, OnlyOwnBytes
  <2>2. \A k \in 1..Len(got) : got[k] = <<want, k>>
    <3>1. \A k \in 1..Len(got) : SubSeq(Body(want), 1, Len(got))[k] = <<want, k>>
      BY <1>1 DEF Body
    <3> QED BY <2>1, <3>1
  <2>3. \A k \in 1..Len(got') : got'[k] = <<want, k>>
    BY <1>1, <1>3, <1>4, <2>2
  <2>4. SubSeq(Body(want), 1, Len(got')) = [k \in 1..Len(got') |-> <<want, k>>]
    BY <1>1, <1>4 DEF Body
  <2>5. got' = [k \in 1..Len(got') |-> got'[k]]
    BY <1>4
  <2>6. [k \in 1..Len(got') |-> got'[k]] = [k \in 1..Len(got') |-> <<want, k>>]
    BY <2>3
  <2>7. got' = SubSeq(Body(want), 1, Len(got'))
    BY <2>4, <2>5, <2>6, Zenon
  <2> QED BY <1>1, <1>4, <2>7
<1> QED BY <1>2, <1>5, <1>6, <1>7 DEF IndInv

\* Every step keeps the invariant.
LEMMA NextInd == IndInv /\ [Next]_vars => IndInv'
<1> SUFFICES ASSUME IndInv, [Next]_vars PROVE IndInv'
  OBVIOUS
<1>0. N \in Nat /\ HeaderErrors \subseteq Errors /\ \A i : DecodeErrors(i) \subseteq Errors
  BY ArchiveType DEF IndInv, HeaderErrors, DecodeErrors, Errors
<1>1. CASE TakeAway
  <2>1. UNCHANGED <<files, headLocked, password, phase, kind, target, done, purpose, want, class,
                    at, seen, found, got, answer>> /\ gone' \in BOOLEAN
    BY <1>1 DEF TakeAway, archive, listing, walk
  <2>2. TypeOK'
    BY <2>1 DEF IndInv, TypeOK, N, Errors
  <2> QED BY <2>1, <2>2 DEF IndInv, WalkInv, OnlyOwnBytes, Unsure, Body, Alike, Same
<1>2. CASE VerifyPassword
  <2>1. UNCHANGED <<files, headLocked, password, gone, phase, kind, target, done>>
        /\ UNCHANGED archive /\ phase = "ready"
    BY <1>2 DEF VerifyPassword, archive, listing
  <2>2. CASE Locked # {} /\ password # "none"
    <3>1. PICK i \in 1..N : StartWalk("verify", i)
      BY <1>2, <2>2 DEF VerifyPassword, Locked
    <3>2. WalkInv' /\ OnlyOwnBytes'
      BY <2>1, <3>1, StartInd
    <3>3. TypeOK'
      <4>1. 0 \in 0..N /\ <<>> \in Seq((0..N) \X Nat)
        BY <1>0
      <4> QED BY <2>1, <3>1, <4>1 DEF StartWalk, IndInv, TypeOK, N
    <3> QED BY <2>1, <3>2, <3>3 DEF IndInv
  <2>3. CASE ~(Locked # {} /\ password # "none")
    <3>1. /\ purpose' = "none" /\ want' = 0 /\ got' = <<>> /\ answer' \in {"ok", "Encrypted"}
          /\ UNCHANGED <<class, at, seen, found>>
      BY <1>2, <2>3 DEF VerifyPassword, walk
    <3>2. <<>> \in Seq((0..N) \X Nat)
      OBVIOUS
    <3>3. TypeOK'
      BY <2>1, <3>1, <3>2 DEF IndInv, TypeOK, N, Errors
    <3> QED BY <2>1, <3>1, <3>3 DEF IndInv, WalkInv, OnlyOwnBytes
  <2> QED BY <2>2, <2>3
<1>3. CASE \E i \in 1..N : Read(i)
  <2>1. PICK i \in 1..N : StartWalk("read", i)
    BY <1>3 DEF Read
  <2>2. UNCHANGED <<files, headLocked, password, gone, phase, kind, target, done>>
        /\ UNCHANGED archive /\ phase = "ready"
    BY <1>3 DEF Read, archive, listing
  <2>3. WalkInv' /\ OnlyOwnBytes'
    BY <2>1, <2>2, StartInd
  <2>4. TypeOK'
    <3>1. 0 \in 0..N /\ <<>> \in Seq((0..N) \X Nat)
      BY <1>0
    <3> QED BY <2>1, <2>2, <3>1 DEF StartWalk, IndInv, TypeOK, N
  <2> QED BY <2>2, <2>3, <2>4 DEF IndInv
<1>4. CASE ReadHeader
  <2>1. /\ UNCHANGED <<files, headLocked, password, gone, done, purpose, want, class, at, seen,
                       found, got, answer>>
        /\ phase' = "links"
        /\ kind' \in [1..N -> {"file", "dir", "link"}] /\ target' \in [1..N -> 0..N]
    BY <1>0, <1>4 DEF ReadHeader, ListedAs, archive, walk
  <2>2. TypeOK'
    BY <2>1 DEF IndInv, TypeOK, N, Errors
  <2> QED BY <2>1, <2>2
      DEF IndInv, WalkInv, OnlyOwnBytes, Unsure, Body, Alike, Same
<1>5. CASE ReadHeaderFails
  <2>1. /\ UNCHANGED <<files, headLocked, password, gone, kind, target, done, purpose, want, class,
                       at, seen, found, got>>
        /\ phase = "new" /\ phase' = "failed" /\ answer' \in Errors
    BY <1>0, <1>5 DEF ReadHeaderFails, DamagedHeader, Errors, archive, walk
  <2>2. TypeOK'
    BY <2>1 DEF IndInv, TypeOK, N
  <2> QED BY <2>1, <2>2
      DEF IndInv, TypeOK, WalkInv, OnlyOwnBytes, Unsure, Body, Alike, Same
<1>6. CASE NextLink
  <2>1. /\ UNCHANGED <<files, headLocked, password, gone, phase, kind, target>>
        /\ UNCHANGED archive /\ phase = "links" /\ done' = done + 1 /\ done + 1 \in 1..N
    BY <1>0, <1>6 DEF NextLink, archive, IndInv, TypeOK
  <2>2. CASE kind[done + 1] = "link"
    <3>1. StartWalk("link", done + 1)
      BY <1>6, <2>2 DEF NextLink
    <3>2. WalkInv' /\ OnlyOwnBytes'
      BY <2>1, <3>1, StartInd
    <3>3. TypeOK'
      <4>1. 0 \in 0..N /\ <<>> \in Seq((0..N) \X Nat) /\ done' \in 0..N
        BY <1>0, <2>1
      <4> QED BY <2>1, <3>1, <4>1 DEF StartWalk, IndInv, TypeOK, N
    <3> QED BY <2>1, <3>2, <3>3 DEF IndInv
  <2>3. CASE kind[done + 1] # "link"
    <3>1. UNCHANGED <<purpose, want, class, at, seen, found, got, answer>>
      BY <1>6, <2>3 DEF NextLink, walk
    <3>2. done' \in 0..N
      BY <1>0, <2>1
    <3>3. TypeOK'
      BY <2>1, <3>1, <3>2 DEF IndInv, TypeOK, N, Errors
    <3> QED BY <2>1, <3>1, <3>3 DEF IndInv, WalkInv, OnlyOwnBytes, Unsure, Body, Alike, Same
  <2> QED BY <2>2, <2>3
<1>7. CASE EndOpen
  <2>1. UNCHANGED <<files, headLocked, password, gone, kind, target, done, purpose, want, class,
                    at, seen, found, got, answer>> /\ phase = "links" /\ phase' = "ready"
    BY <1>7 DEF EndOpen, archive, walk
  <2>2. TypeOK'
    BY <2>1 DEF IndInv, TypeOK, N, Errors
  <2> QED BY <2>1, <2>2 DEF IndInv, WalkInv, OnlyOwnBytes, Unsure, Body, Alike, Same
<1>8. CASE WalkFails \/ SkipFails \/ (~class /\ Others) \/ CopyFails \/ CopyEnds
  <2>1. purpose # "none" /\ \E e \in Errors \union {"ok"} : EndWalk(e)
    BY <1>0, <1>8 DEF WalkFails, SkipFails, Others, CopyFails, CopyEnds, Walking, Errors
  <2> QED BY <2>1, EndInd
<1>9. CASE PassOther \/ Skip \/ (class /\ Others)
  BY <1>9, WalkOnInd
<1>10. CASE Find
  <2>1. /\ purpose # "none" /\ ~found /\ IsWanted /\ found' = TRUE /\ at < N
        /\ UNCHANGED <<files, headLocked, password, gone, phase, kind, target, done, purpose, want,
                       class, at, seen, got, answer>>
    BY <1>10 DEF Find, Walking, IsWanted, Matches, Visits, archive, listing
  <2>2. at + 1 = want
    BY <2>1, WantedIsFound DEF IndInv
  <2>3. TypeOK'
    BY <2>1 DEF IndInv, TypeOK, N, Errors
  <2> QED BY <2>1, <2>2, <2>3 DEF IndInv, WalkInv, OnlyOwnBytes, Unsure, Body
<1>11. CASE CopyPart
  BY <1>11, CopyInd
<1>12. CASE UNCHANGED vars
  <2>1. UNCHANGED <<files, headLocked, password, gone, phase, kind, target, done, purpose, want,
                    class, at, seen, found, got, answer>>
    BY <1>12 DEF vars, archive, listing, walk
  <2>2. TypeOK'
    BY <2>1 DEF IndInv, TypeOK, N, Errors
  <2> QED BY <2>1, <2>2 DEF IndInv, WalkInv, OnlyOwnBytes, Unsure, Body, Alike, Same
<1> QED BY <1>1, <1>2, <1>3, <1>4, <1>5, <1>6, <1>7, <1>8, <1>9, <1>10, <1>11, <1>12
    DEF Next, Step

THEOREM Inductive == Spec => []IndInv
  BY InitInd, NextInd, PTL DEF Spec

\* The variables keep their types, for every archive (SevenZReader).
THEOREM TypeCorrect == Spec => []TypeOK
<1> IndInv => TypeOK
  BY DEF IndInv
<1> QED BY Inductive, PTL

\* A walk copies bytes of the entry asked for and of no other, for every
\* archive and however its names repeat (read_entry_by_key).
THEOREM RightEntry == Spec => []OnlyOwnBytes
<1> IndInv => OnlyOwnBytes
  BY DEF IndInv
<1> QED BY Inductive, PTL
----------------------------------------------------------------------------
\* Nothing stands in the way of reading: the file is there, the password is
\* right, and no body is broken.
Clean == ~gone /\ password = "right" /\ \A i \in 1..N : ~files[i].broken

\* What can make the library call a body corrupt.
Troubled == \E i \in 1..N : files[i].broken \/ Unsure(i) \/ headLocked

\* A walk that has not found its entry has it still ahead.
AheadInv ==
  purpose # "none" =>
    /\ answer = "none"
    /\ ~found => /\ class = files[want].stream => at < want
                 /\ ~class => ~files[want].stream

\* What the last call answered.
AnswerInv ==
  /\ answer = "ok" /\ want > 0 => Len(got) = files[want].size
  /\ answer = "Corrupt" /\ phase # "failed" => Troubled

\* The links that have been looked at.
LinkInv ==
  /\ phase = "new" => done = 0
  /\ phase = "ready" => done = N /\ purpose # "link"
  /\ purpose = "link" => want = done
  /\ phase \in {"links", "ready"} =>
       \A i \in 1..N :
         /\ i <= done /\ kind[i] = "link" /\ ~(purpose = "link" /\ want = i) =>
              target[i] = i \/ Unsure(i)
         /\ Clean /\ files[i].link /\ ~files[i].dir /\ files[i].size \in 1..Limit =>
              kind[i] = "link"

WholeInv == AheadInv /\ AnswerInv /\ LinkInv

LEMMA InitWhole == Init => WholeInv
  BY DEF Init, WholeInv, AheadInv, AnswerInv, LinkInv

\* No walk comes to its end without having met its entry.
LEMMA NeverMissed ==
  ASSUME IndInv, AheadInv, purpose # "none", ~found, at = N
  PROVE  class /\ ~files[want].stream
<1>1. want \in 1..N /\ N \in Nat /\ class \in BOOLEAN /\ files[want].stream \in BOOLEAN
  BY ArchiveType DEF IndInv, TypeOK, File
<1>2. ~(at < want)
  BY <1>1
<1>3. class # files[want].stream
  BY <1>2 DEF AheadInv
<1>4. ~class => ~files[want].stream
  BY DEF AheadInv
<1> QED BY <1>1, <1>3, <1>4

\* How a walk may end: well only behind the whole of the body wanted; badly,
\* when nothing stands in the way, only for the caller's writer or a target
\* beyond the limit.
LEMMA EndsHow ==
  ASSUME IndInv, AheadInv, WalkFails \/ SkipFails \/ (~class /\ Others) \/ CopyFails \/ CopyEnds
  PROVE  \E e \in Errors \union {"ok"} :
           /\ EndWalk(e) /\ purpose # "none"
           /\ e = "ok" => found /\ at + 1 = want /\ Len(got) = files[want].size
           /\ e = "Corrupt" => Troubled
           /\ Clean /\ e # "ok" => \/ purpose = "read"
                                   \/ purpose = "link" /\ files[want].size > Limit
<1>0. /\ N \in Nat /\ at \in 0..N /\ HeaderErrors \subseteq Errors
      /\ \A i : DecodeErrors(i) \subseteq Errors
  BY ArchiveType DEF IndInv, TypeOK, HeaderErrors, DecodeErrors, Errors
<1>1. \A i \in 1..N : DecodeErrors(i) # {} => Troubled \/ DecodeErrors(i) \subseteq {"Encrypted"}
  BY DEF DecodeErrors, Troubled, Unsure
<1>2. \A i \in 1..N : Clean => DecodeErrors(i) = {}
  BY DEF DecodeErrors, Clean
<1>3. CASE WalkFails
  <2>1. PICK e \in HeaderErrors : EndWalk(e) /\ purpose # "none"
    BY <1>3 DEF WalkFails
  <2>2. want \in 1..N
    BY <2>1 DEF IndInv, TypeOK
  <2>3. e = "Corrupt" => Troubled
    BY <2>1, <2>2 DEF HeaderErrors, Troubled
  <2>4. ~Clean
    BY <2>1 DEF HeaderErrors, Clean
  <2>5. e \in Errors /\ e # "ok"
    BY <1>0, <2>1 DEF Errors
  <2> QED BY <2>1, <2>3, <2>4, <2>5
<1>4. CASE SkipFails
  <2>1. at + 1 \in 1..N /\ purpose # "none"
    BY <1>0, <1>4 DEF SkipFails, Walking, Visits
  <2>2. PICK e \in DecodeErrors(at + 1) : EndWalk(e)
    BY <1>4 DEF SkipFails
  <2>3. (e = "Corrupt" => Troubled) /\ ~Clean /\ e \in Errors /\ e # "ok"
    BY <1>0, <1>1, <1>2, <2>1, <2>2 DEF Errors
  <2> QED BY <2>1, <2>2, <2>3
<1>5. CASE ~class /\ Others
  BY <1>5, NeverMissed DEF Others, Walking
<1>6. CASE CopyFails
  <2>1. found /\ purpose # "none" /\ at + 1 = want /\ at + 1 \in 1..N /\ want \in 1..N
    BY <1>0, <1>6 DEF CopyFails, IndInv, TypeOK, WalkInv
  <2>2. CASE \E e \in DecodeErrors(at + 1) : EndWalk(e)
    <3>1. PICK e \in DecodeErrors(at + 1) : EndWalk(e)
      BY <2>2
    <3>2. (e = "Corrupt" => Troubled) /\ ~Clean /\ e \in Errors /\ e # "ok"
      BY <1>0, <1>1, <1>2, <2>1, <3>1 DEF Errors
    <3> QED BY <2>1, <3>1, <3>2
  <2>3. CASE purpose = "read" /\ EndWalk("Io")
    BY <2>1, <2>3 DEF Errors
  <2>4. CASE purpose = "link" /\ Len(got) < files[at + 1].size /\ Len(got) = Limit
             /\ EndWalk("Io")
    <3>1. files[want].size > Limit
      BY <2>1, <2>4
    <3> QED BY <2>1, <2>4, <3>1 DEF Errors
  <2> QED BY <1>6, <2>2, <2>3, <2>4 DEF CopyFails
<1>7. CASE CopyEnds
  <2>1. found /\ purpose # "none" /\ at + 1 = want /\ EndWalk("ok")
        /\ Len(got) = files[want].size
    BY <1>7 DEF CopyEnds, IndInv, WalkInv
  <2> QED BY <2>1
<1> QED BY <1>3, <1>4, <1>5, <1>6, <1>7

\* The end of a walk: what it answers, or makes of a link.
LEMMA EndWhole ==
  ASSUME IndInv, WholeInv, WalkFails \/ SkipFails \/ (~class /\ Others) \/ CopyFails \/ CopyEnds
  PROVE  WholeInv'
<1>1. PICK e \in Errors \union {"ok"} :
        /\ EndWalk(e) /\ purpose # "none"
        /\ e = "ok" => found /\ at + 1 = want /\ Len(got) = files[want].size
        /\ e = "Corrupt" => Troubled
        /\ Clean /\ e # "ok" => \/ purpose = "read"
                                \/ purpose = "link" /\ files[want].size > Limit
  BY EndsHow DEF WholeInv
<1>2. /\ files' = files /\ password' = password /\ headLocked' = headLocked /\ gone' = gone
      /\ phase' = phase /\ done' = done /\ want' = want /\ got' = got /\ purpose' = "none"
  BY <1>1 DEF EndWalk, archive, walk
<1>3. /\ phase \in {"links", "ready"} /\ want \in 1..N /\ N \in Nat
      /\ answer = "none" /\ files[want].size \in Nat
      /\ kind \in [1..N -> {"file", "dir", "link"}] /\ target \in [1..N -> 0..N]
  BY <1>1, ArchiveType DEF IndInv, TypeOK, WholeInv, AheadInv, File
<1>4. Clean' = Clean /\ Troubled' = Troubled /\ N' = N /\ \A i : Unsure(i)' = Unsure(i)
  BY <1>2 DEF Clean, Troubled, Unsure, N
<1>5. AheadInv'
  BY <1>2 DEF AheadInv
<1>6. CASE purpose = "link"
  <2>1. LinkRead(e)
    BY <1>1, <1>6 DEF EndWalk
  <2>2. AnswerInv'
    BY <1>2, <1>3, <2>1 DEF LinkRead, AnswerInv
  <2>3. want = done /\ phase = "links"
    BY <1>3, <1>6 DEF WholeInv, LinkInv
  <2>4. CASE e = "ok" /\ got # <<>>
    <3>1. target' = [target EXCEPT ![want] = got[1][1]] /\ kind' = kind
      BY <2>1, <2>4 DEF LinkRead
    <3>2. ~Unsure(want) => got[1][1] = want
      <4>1. ~Unsure(want) => got = SubSeq(Body(want), 1, Len(got)) /\ Len(got) <= files[want].size
        BY <1>3 DEF IndInv, OnlyOwnBytes
      <4>2. Len(got) \in Nat /\ Len(got) >= 1
        BY <2>4 DEF IndInv, TypeOK
      <4>3. Len(got) <= files[want].size => SubSeq(Body(want), 1, Len(got))[1] = <<want, 1>>
        BY <1>3, <4>2 DEF Body
      <4>4. ~Unsure(want) => got[1] = <<want, 1>>
        BY <4>1, <4>3, Zenon
      <4> QED BY <4>4
    <3>3. \A i \in 1..N : i <= done /\ kind'[i] = "link" => target'[i] = i \/ Unsure(i)
      BY <1>3, <2>3, <3>1, <3>2 DEF WholeInv, LinkInv
    <3>4. \A i \in 1..N : Clean /\ files[i].link /\ ~files[i].dir /\ files[i].size \in 1..Limit
                           => kind'[i] = "link"
      BY <1>3, <3>1 DEF WholeInv, LinkInv
    <3>5. LinkInv'
      BY <1>2, <1>4, <2>3, <3>3, <3>4 DEF LinkInv
    <3> QED BY <1>5, <2>2, <3>5 DEF WholeInv
  <2>5. CASE ~(e = "ok" /\ got # <<>>)
    <3>1. kind' = [kind EXCEPT ![want] = "file"] /\ target' = target
      BY <2>1, <2>5 DEF LinkRead
    <3>2. Clean => files[want].size \notin 1..Limit
      <4>1. e # "ok" => (Clean => files[want].size > Limit)
        BY <1>1, <1>6
      <4>2. e = "ok" => files[want].size = 0
        BY <1>1, <2>5
      <4> QED BY <1>3, <4>1, <4>2, SevenZipAssumption
    <3>3. \A i \in 1..N : i <= done /\ kind'[i] = "link" => target'[i] = i \/ Unsure(i)
      BY <1>3, <2>3, <3>1 DEF WholeInv, LinkInv
    <3>4. \A i \in 1..N : Clean /\ files[i].link /\ ~files[i].dir /\ files[i].size \in 1..Limit
                           => kind'[i] = "link"
      BY <1>3, <3>1, <3>2 DEF WholeInv, LinkInv
    <3>5. LinkInv'
      BY <1>2, <1>4, <2>3, <3>3, <3>4 DEF LinkInv
    <3> QED BY <1>5, <2>2, <3>5 DEF WholeInv
  <2> QED BY <2>4, <2>5
<1>7. CASE purpose # "link"
  <2>1. kind' = kind /\ target' = target /\ answer' \in {e, "ok", "WrongPassword"}
        /\ (answer' = "ok" => e = "ok")
    BY <1>1, <1>7 DEF EndWalk, Answered
  <2>2. AnswerInv'
    BY <1>1, <1>2, <1>4, <2>1 DEF AnswerInv
  <2>3. LinkInv'
    BY <1>2, <1>4, <1>7, <2>1 DEF WholeInv, LinkInv
  <2> QED BY <1>5, <2>2, <2>3 DEF WholeInv
<1> QED BY <1>6, <1>7

\* A walk that starts has everything ahead.
LEMMA StartWhole ==
  ASSUME IndInv, NEW i \in 1..N, NEW why \in {"link", "read", "verify"}, StartWalk(why, i),
         UNCHANGED archive
  PROVE  AheadInv' /\ AnswerInv'
<1>1. files' = files /\ i \in Nat /\ i > 0
  BY ArchiveType DEF IndInv, archive
<1> QED BY <1>1 DEF StartWalk, AheadInv, AnswerInv
LEMMA NextWhole == IndInv /\ WholeInv /\ [Next]_vars => WholeInv'
<1> SUFFICES ASSUME IndInv, WholeInv, [Next]_vars PROVE WholeInv'
  OBVIOUS
<1>0. N \in Nat
  BY ArchiveType DEF IndInv
<1>1. CASE TakeAway
  <2>1. UNCHANGED <<files, headLocked, password, phase, kind, target, done, purpose, want, class,
                    at, found, got, answer>> /\ (Clean' => Clean)
    BY <1>1 DEF TakeAway, archive, listing, walk, Clean, N
  <2> QED BY <2>1 DEF WholeInv, AheadInv, AnswerInv, LinkInv, Troubled, Unsure, N
<1>2. CASE VerifyPassword
  <2>1. UNCHANGED <<files, headLocked, password, gone, phase, kind, target, done>>
        /\ UNCHANGED archive /\ phase = "ready" /\ purpose = "none"
    BY <1>2 DEF VerifyPassword, archive, listing
  <2>2. CASE Locked # {} /\ password # "none"
    <3>1. PICK i \in 1..N : StartWalk("verify", i)
      BY <1>2, <2>2 DEF VerifyPassword, Locked
    <3>2. AheadInv' /\ AnswerInv'
      BY <2>1, <3>1, StartWhole
    <3>3. LinkInv'
      BY <2>1, <3>1 DEF StartWalk, WholeInv, LinkInv, Clean, Unsure, N
    <3> QED BY <3>2, <3>3 DEF WholeInv
  <2>3. CASE ~(Locked # {} /\ password # "none")
    <3>1. purpose' = "none" /\ want' = 0 /\ answer' \in {"ok", "Encrypted"}
      BY <1>2, <2>3 DEF VerifyPassword
    <3>2. AheadInv' /\ AnswerInv'
      BY <3>1 DEF AheadInv, AnswerInv
    <3>3. LinkInv'
      BY <2>1, <3>1 DEF WholeInv, LinkInv, Clean, Unsure, N
    <3> QED BY <3>2, <3>3 DEF WholeInv
  <2> QED BY <2>2, <2>3
<1>3. CASE \E i \in 1..N : Read(i)
  <2>1. PICK i \in 1..N : StartWalk("read", i)
    BY <1>3 DEF Read
  <2>2. UNCHANGED <<files, headLocked, password, gone, phase, kind, target, done>>
        /\ UNCHANGED archive /\ phase = "ready" /\ purpose = "none"
    BY <1>3 DEF Read, archive, listing
  <2>3. AheadInv' /\ AnswerInv'
    BY <2>1, <2>2, StartWhole
  <2>4. LinkInv'
    BY <2>1, <2>2 DEF StartWalk, WholeInv, LinkInv, Clean, Unsure, N
  <2> QED BY <2>3, <2>4 DEF WholeInv
<1>4. CASE ReadHeader
  <2>1. /\ UNCHANGED <<files, headLocked, password, gone, done, purpose, want, class, at, found,
                       got, answer>>
        /\ phase = "new" /\ phase' = "links"
        /\ \A i \in 1..N : kind'[i] = ListedAs(files[i])
    BY <1>4 DEF ReadHeader, archive, walk
  <2>2. purpose = "none" /\ done = 0
    BY <2>1 DEF IndInv, TypeOK, WholeInv, LinkInv
  <2>3. \A i \in 1..N : files[i].link /\ ~files[i].dir => kind'[i] = "link"
    BY <2>1 DEF ListedAs
  <2>4. LinkInv'
    BY <2>1, <2>2, <2>3 DEF LinkInv, N
  <2>5. AheadInv' /\ AnswerInv'
    BY <2>1, <2>2 DEF WholeInv, AheadInv, AnswerInv, Troubled, Unsure, N
  <2> QED BY <2>4, <2>5 DEF WholeInv
<1>5. CASE ReadHeaderFails
  <2>1. /\ UNCHANGED <<files, headLocked, password, gone, kind, target, done, purpose, want, class,
                       at, found, got>>
        /\ phase = "new" /\ phase' = "failed" /\ answer' \in Errors
    BY <1>5 DEF ReadHeaderFails, HeaderErrors, DamagedHeader, Errors, archive, walk
  <2>2. purpose = "none"
    BY <2>1 DEF IndInv, TypeOK
  <2> QED BY <2>1, <2>2 DEF WholeInv, AheadInv, AnswerInv, LinkInv, Errors
<1>6. CASE NextLink
  <2>1. /\ UNCHANGED <<files, headLocked, password, gone, phase, kind, target>>
        /\ UNCHANGED archive /\ phase = "links" /\ purpose = "none" /\ done' = done + 1
        /\ done + 1 \in 1..N /\ done \in Nat
    BY <1>0, <1>6 DEF NextLink, archive, IndInv, TypeOK
  <2>2. \A i \in 1..N : i <= done + 1 => i <= done \/ i = done + 1
    BY <1>0, <2>1
  <2>3. CASE kind[done + 1] = "link"
    <3>1. StartWalk("link", done + 1)
      BY <1>6, <2>3 DEF NextLink
    <3>2. AheadInv' /\ AnswerInv'
      BY <2>1, <3>1, StartWhole
    <3>3. purpose' = "link" /\ want' = done + 1
      BY <3>1 DEF StartWalk
    <3>4. LinkInv'
      BY <2>1, <2>2, <3>3 DEF WholeInv, LinkInv, Clean, Unsure, N
    <3> QED BY <3>2, <3>4 DEF WholeInv
  <2>4. CASE kind[done + 1] # "link"
    <3>1. UNCHANGED <<purpose, want, class, at, found, got, answer>>
      BY <1>6, <2>4 DEF NextLink, walk
    <3>2. AheadInv' /\ AnswerInv'
      BY <2>1, <3>1 DEF WholeInv, AheadInv, AnswerInv, Troubled, Unsure, N
    <3>3. LinkInv'
      BY <2>1, <2>2, <2>4, <3>1 DEF WholeInv, LinkInv, Clean, Unsure, N
    <3> QED BY <3>2, <3>3 DEF WholeInv
  <2> QED BY <2>3, <2>4
<1>7. CASE EndOpen
  <2>1. UNCHANGED <<files, headLocked, password, gone, kind, target, done, purpose, want, class,
                    at, found, got, answer>>
        /\ phase = "links" /\ phase' = "ready" /\ done = N /\ purpose = "none"
    BY <1>7 DEF EndOpen, archive, walk
  <2> QED BY <2>1 DEF WholeInv, AheadInv, AnswerInv, LinkInv, Clean, Troubled, Unsure, N
<1>8. CASE WalkFails \/ SkipFails \/ (~class /\ Others) \/ CopyFails \/ CopyEnds
  BY <1>8, EndWhole
<1>9. CASE PassOther \/ Skip \/ (class /\ Others) \/ Find \/ CopyPart
  <2>1. /\ UNCHANGED <<files, headLocked, password, gone, phase, kind, target, done, purpose, want,
                       answer>>
        /\ purpose # "none"
    BY <1>9 DEF PassOther, Skip, Others, Find, CopyPart, Walking, archive, listing
  <2>2. LinkInv'
    BY <2>1 DEF WholeInv, LinkInv, Clean, Unsure, N
  <2>3. AnswerInv'
    BY <2>1 DEF WholeInv, AheadInv, AnswerInv
  <2>4. want \in 1..N /\ at \in 0..N /\ class \in BOOLEAN /\ files[want].stream \in BOOLEAN
    BY <2>1, ArchiveType DEF IndInv, TypeOK, File
  <2>5. AheadInv'
    <3>1. CASE PassOther
      <4>1. /\ at' = at + 1 /\ class' = class /\ found' = found /\ ~found
            /\ files[at + 1].stream # class
        BY <3>1 DEF PassOther, Walking, Visits
      <4>2. class = files[want].stream => at + 1 # want
        BY <4>1
      <4> QED BY <1>0, <2>1, <2>4, <4>1, <4>2 DEF WholeInv, AheadInv
    <3>2. CASE Skip
      <4>1. /\ at' = at + 1 /\ class' = class /\ found' = found /\ ~found
            /\ ~IsWanted /\ Visits
        BY <3>2 DEF Skip, Walking
      <4>2. class = files[want].stream => at + 1 # want
        <5> SUFFICES ASSUME class = files[want].stream, at + 1 = want PROVE FALSE
          OBVIOUS
        <5>1. Matches
          BY <4>1 DEF Matches, Same
        <5>2. seen = Cardinality(Alike(want, at))
          BY <2>1, <4>1 DEF IndInv, WalkInv
        <5>3. Occurrence(want) = Cardinality(Alike(want, want - 1)) /\ want - 1 = at
          BY <1>0, <2>4 DEF Occurrence, Alike
        <5> QED BY <4>1, <5>1, <5>2, <5>3 DEF IsWanted
      <4> QED BY <1>0, <2>1, <2>4, <4>1, <4>2 DEF WholeInv, AheadInv
    <3>3. CASE class /\ Others
      <4>1. class /\ class' = FALSE /\ at' = 0 /\ found' = found /\ ~found /\ at = N
        BY <3>3 DEF Others, Walking
      <4>2. ~files[want].stream
        BY <2>1, <4>1, NeverMissed DEF WholeInv
      <4>3. ~files'[want'].stream /\ at' < want'
        BY <1>0, <2>1, <2>4, <4>1, <4>2
      <4> QED BY <2>1, <4>3 DEF WholeInv, AheadInv
    <3>4. CASE Find \/ CopyPart
      <4>1. found'
        BY <3>4 DEF Find, CopyPart, walk
      <4> QED BY <2>1, <4>1 DEF WholeInv, AheadInv
    <3> QED BY <1>9, <3>1, <3>2, <3>3, <3>4
  <2> QED BY <2>2, <2>3, <2>5 DEF WholeInv
<1>10. CASE UNCHANGED vars
  <2>1. UNCHANGED <<files, headLocked, password, gone, phase, kind, target, done, purpose, want,
                    class, at, found, got, answer>>
    BY <1>10 DEF vars, archive, listing, walk
  <2> QED BY <2>1 DEF WholeInv, AheadInv, AnswerInv, LinkInv, Clean, Troubled, Unsure, N
<1> QED BY <1>1, <1>2, <1>3, <1>4, <1>5, <1>6, <1>7, <1>8, <1>9, <1>10 DEF Next, Step

THEOREM InductiveWhole == Spec => [](IndInv /\ WholeInv)
  BY InitInd, NextInd, InitWhole, NextWhole, PTL DEF Spec

\* A read that says ok gave the whole body, and a body is called corrupt only
\* when something is wrong: no walk runs past its entry, for every archive
\* (read_entry_by_key).
THEOREM WholeOrError == Spec => []OkIsWhole
<1> WholeInv => OkIsWhole
  BY DEF WholeInv, AnswerInv, OkIsWhole, Troubled
<1> QED BY InductiveWhole, PTL

\* After open a link has a target, read from its own body (the second pass).
THEOREM LinksOwnTargets == Spec => []LinksHaveTargets
<1> IndInv /\ WholeInv => LinksHaveTargets
  <2> SUFFICES ASSUME IndInv, WholeInv, phase = "ready", NEW i \in 1..N, kind[i] = "link"
               PROVE  target[i] = i \/ Unsure(i)
    BY DEF LinksHaveTargets
  <2>1. i <= done
    BY ArchiveType DEF IndInv, WholeInv, LinkInv
  <2> QED BY <2>1 DEF WholeInv, LinkInv
<1> QED BY InductiveWhole, PTL

\* Of an archive with nothing wrong every link that fits the limit stays a link,
\* for every limit (open, MAX_SYMLINK_TARGET).
THEOREM LinksStay == Spec => []ReadableLinksStay
<1> IndInv /\ WholeInv => ReadableLinksStay
  BY DEF WholeInv, LinkInv, ReadableLinksStay, Clean
<1> QED BY InductiveWhole, PTL

\* Verifying judges by the whole of the first encrypted body, and accepts the
\* right password of an archive with nothing wrong (verify_password).
THEOREM VerdictIsRight == Spec => VerifyJudges
<1> DEFINE Judged ==
      purpose = "verify" /\ purpose' = "none" =>
        /\ answer' = "ok" => found /\ at + 1 = want /\ Len(got) = files[want].size
        /\ password = "right" /\ ~gone /\ (\A i \in 1..N : ~files[i].broken) => answer' = "ok"
<1>1. IndInv /\ WholeInv /\ [Next]_vars => [Judged]_vars
  <2> SUFFICES ASSUME IndInv, WholeInv, Next, purpose = "verify", purpose' = "none" PROVE Judged
    BY DEF vars
  <2>1. WalkFails \/ SkipFails \/ (~class /\ Others) \/ CopyFails \/ CopyEnds
    BY DEF Next, Step, TakeAway, VerifyPassword, Read, ReadHeader, ReadHeaderFails, NextLink,
           EndOpen, PassOther, Skip, Others, Find, CopyPart, IndInv, TypeOK
  <2>2. PICK e \in Errors \union {"ok"} :
          /\ EndWalk(e)
          /\ e = "ok" => found /\ at + 1 = want /\ Len(got) = files[want].size
          /\ Clean /\ e # "ok" => FALSE
    BY <2>1, EndsHow DEF WholeInv
  <2>3. answer' = IF e = "ok" THEN "ok" ELSE "WrongPassword"
    BY <2>2 DEF EndWalk, Answered
  <2> QED BY <2>2, <2>3 DEF Clean
<1> QED BY <1>1, InductiveWhole, PTL DEF Spec, VerifyJudges
============================================================================
