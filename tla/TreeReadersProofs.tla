------------------------- MODULE TreeReadersProofs -------------------------
(***************************************************************************)
(* Proofs about the readers of trees, each by itself: Apfs, whose walk stays *)
(* inside its limits whatever graph the records of a volume make; then, of *)
(* the readers that Trees puts side by side, Xar, Iso and Wim.  A walk of a *)
(* tree is where it is in the counted tree of TreeFiles: the nodes it is in, *)
(* which record is next in each, and how many members are listed.  For each *)
(* format an invariant ties the reader to the file as it was written and to *)
(* the damage it may have; the reader's steps keep it, and it implies the  *)
(* properties of Trees.  The volumes and disk images are in TreesProofs.   *)
(***************************************************************************)
EXTENDS Trees, SequenceTheorems, WellFoundedInduction, TLAPS

\* What is below a directory goes under the path of an entry that is listed.
PrefixInv ==
  \A k \in DOMAIN walk :
    \/ walk[k].prefix = <<>>
    \/ \E j \in DOMAIN listing : /\ listing[j].kind = "dir"
                                 /\ listing[j].path = walk[k].prefix

\* A directory whose records are being visited is not too deep.
DepthInv == \A k \in DOMAIN walk : walk[k].next # 0 => k <= MaxDepth + 1

\* The records of such a directory can be had.
ListedInv == \A k \in DOMAIN walk : walk[k].next # 0 => walk[k].dir \in DOMAIN Volume.dirs

IndInv ==
  /\ TypeOK
  /\ status = "walking" => PrefixInv /\ ListedInv
  /\ DepthInv
  /\ Len(walk) <= MaxDepth + 2
  /\ Len(listing) <= MaxEntries
  /\ ParentsFirst
  /\ status = "open" => Signed
  /\ status = "new" => listing = <<>>
  /\ status \in {"walking", "open"} =>
       \A i \in DOMAIN listing : listing[i].id \in DOMAIN Volume.inodes
  /\ status = "open" => DOMAIN answers = DOMAIN listing

----------------------------------------------------------------------------
LEMMA AnswerType ==
  ASSUME NEW given \in Seq(Nat)
  PROVE  /\ Answer("ok", given) \in Answers
         /\ Answer("Corrupt", given) \in Answers
         /\ Answer("", given) \in Answers
BY DEF Answer, Answers

\* However much of them the file still has, the bytes read are bytes.
LEMMA BytesRead ==
  ASSUME NEW f, f.len \in Nat, Sparse(f.byte, Nat), NEW p \in Nat, NEW n \in Nat
  PROVE  Bytes(f, p, Reach(f, p, n)) \in Seq(Nat)
<1>1. Reach(f, p, n) \in Nat
  BY DEF Reach
<1>2. \A q : ByteAt(f, q) \in Nat
  BY DEF Sparse, ByteAt
<1> QED BY <1>1, <1>2 DEF Bytes

LEMMA InitInd == Init => IndInv
<1> SUFFICES ASSUME Init PROVE IndInv
  OBVIOUS
<1> USE ApfsAssumption
<1>1. TypeOK
  <2>1. <<>> \in Seq(Frame) /\ <<>> \in Seq(Entry) /\ <<>> \in Seq(Answers)
    OBVIOUS
  <2> QED BY <2>1 DEF Init, TypeOK
<1> QED BY <1>1 DEF Init, IndInv, DepthInv, ParentsFirst

\* A volume that is there is one of those the assumption speaks of.
LEMMA VolumeType == Signed => ApfsVolume(Volume)
BY ApfsAssumption DEF Signed, Volume

----------------------------------------------------------------------------
\* An open that ends in an error has an empty listing, and keeps the rest.
LEMMA RefuseKeeps ==
  ASSUME IndInv, NEW error \in {"Corrupt", "UnknownFormat", "Unsupported"}, Refuse(error)
  PROVE  IndInv'
<1>1. TypeOK'
  <2>1. <<>> \in Seq(Entry)
    OBVIOUS
  <2> QED BY <2>1 DEF IndInv, Refuse, TypeOK
<1> QED BY <1>1, ApfsAssumption DEF IndInv, Refuse, DepthInv, ParentsFirst

\* The directory at hand, and the record.
LEMMA TopType ==
  ASSUME IndInv, Walking
  PROVE  /\ Signed /\ ApfsVolume(Volume)
         /\ walk \in Seq(Frame) /\ Len(walk) \in Nat \ {0} /\ Len(walk) \in DOMAIN walk
         /\ Top \in Frame /\ Top = walk[Len(walk)]
BY VolumeType DEF IndInv, TypeOK, Walking, Top

LEMMA Element == ASSUME NEW S, NEW s \in Seq(S), NEW i \in 1..Len(s) PROVE s[i] \in S
OBVIOUS

LEMMA RecType ==
  ASSUME IndInv, Visiting
  PROVE  /\ Rec.name \in STRING /\ Rec.id \in Nat
         /\ Loads => Found \in Inode /\ Rec.id \in DOMAIN Volume.inodes
<1>1. /\ ApfsVolume(Volume) /\ Top \in Frame /\ Top.next # 0
      /\ Len(walk) \in DOMAIN walk /\ Top = walk[Len(walk)]
  BY TopType DEF Visiting
<1>2. Top.dir \in DOMAIN Volume.dirs
  BY <1>1 DEF IndInv, ListedInv, Visiting, Walking
<1>3. Children \in Seq([name : STRING, id : Nat])
  BY <1>1, <1>2 DEF Children, ApfsVolume
<1>4. Top.next \in 1 .. Len(Children)
  BY <1>1, <1>3 DEF Visiting, Frame
<1>5. Rec \in [name : STRING, id : Nat]
  BY <1>3, <1>4, Element DEF Rec
<1> QED BY <1>1, <1>5 DEF Loads, Found, ApfsVolume

----------------------------------------------------------------------------
\* The stack after the record at hand, and with a directory more.
LEMMA AdvancedType ==
  ASSUME IndInv, Walking
  PROVE  /\ Advanced \in Seq(Frame) /\ Len(Advanced) = Len(walk)
         /\ \A k \in DOMAIN walk : /\ Advanced[k].prefix = walk[k].prefix
                                   /\ Advanced[k].dir = walk[k].dir
                                   /\ k # Len(walk) => Advanced[k] = walk[k]
<1>1. walk \in Seq(Frame) /\ Len(walk) \in DOMAIN walk
  BY TopType
<1>2. walk[Len(walk)] \in Frame
  BY <1>1, Element
<1> DEFINE top == walk[Len(walk)]
           after == [top EXCEPT !.next = @ + 1]
<1>3. after \in Frame /\ after.prefix = top.prefix /\ after.dir = top.dir
  BY <1>2 DEF Frame
<1>4. Advanced = [walk EXCEPT ![Len(walk)] = after]
  BY DEF Advanced
<1> HIDE DEF after
<1> QED BY <1>1, <1>3, <1>4

LEMMA EnterKeeps == IndInv /\ Enter => IndInv'
<1> SUFFICES ASSUME IndInv, Enter PROVE IndInv'
  OBVIOUS
<1>0. /\ walk \in Seq(Frame) /\ Len(walk) \in Nat \ {0} /\ Len(walk) \in DOMAIN walk
      /\ Walking /\ Top = walk[Len(walk)] /\ Signed
  BY TopType DEF Enter, Entering
<1>1. /\ walk' = Advanced /\ walk' \in Seq(Frame) /\ DOMAIN walk' = DOMAIN walk
      /\ Len(walk') = Len(walk)
      /\ \A k \in DOMAIN walk : /\ walk'[k].prefix = walk[k].prefix
                                /\ walk'[k].dir = walk[k].dir
                                /\ k # Len(walk) => walk'[k] = walk[k]
  BY <1>0, AdvancedType DEF Enter
<1>2. TypeOK'
  BY <1>1 DEF Enter, IndInv, TypeOK, Signed, Mark
<1>3. PrefixInv'
  BY <1>0, <1>1 DEF Enter, IndInv, PrefixInv, Walking
<1>4. ListedInv'
  BY <1>0, <1>1 DEF Enter, IndInv, ListedInv, Walking, Listable, Volume, Mark
<1>5. DepthInv'
  <2>1. Len(walk) <= MaxDepth + 1
    BY <1>0, ApfsAssumption DEF Enter, Depth
  <2> QED BY <1>0, <1>1, <2>1 DEF IndInv, DepthInv
<1> QED
  BY <1>0, <1>1, <1>2, <1>3, <1>4, <1>5
  DEF Enter, IndInv, ParentsFirst, Walking, Volume, Mark

LEMMA MountKeeps == IndInv /\ Mount => IndInv'
<1> SUFFICES ASSUME IndInv, Mount PROVE IndInv'
  OBVIOUS
<1> DEFINE first == [dir |-> Volume.root, prefix |-> <<>>, next |-> 0]
<1>1. first \in Frame
  BY VolumeType DEF Mount, ApfsVolume, Frame
<1>2. walk' = <<first>> /\ walk' \in Seq(Frame) /\ Len(walk') = 1
      /\ walk'[1].prefix = <<>> /\ walk'[1].next = 0
  BY <1>1 DEF Mount
<1>3. listing = <<>>
  BY DEF IndInv, Mount
<1>4. UNCHANGED <<file, listing, answers>> /\ status' = "walking" /\ Volume' = Volume
      /\ Signed /\ Signed'
  BY DEF Mount, Volume, Mark, Signed
<1>5. TypeOK'
  BY <1>2, <1>4 DEF IndInv, TypeOK
<1>6. PrefixInv' /\ ListedInv' /\ DepthInv' /\ Len(walk') <= MaxDepth + 2
  BY <1>2, ApfsAssumption DEF PrefixInv, ListedInv, DepthInv
<1>7. \A i \in DOMAIN listing' : listing'[i].id \in DOMAIN Volume'.inodes
  BY <1>3, <1>4
<1> QED BY <1>3, <1>4, <1>5, <1>6, <1>7, ApfsAssumption DEF IndInv, ParentsFirst

----------------------------------------------------------------------------
\* The record at hand is listed under the path of the directory it is in, which
\* is listed before it; and if it is a directory it is walked next.
LEMMA VisitKeeps == IndInv /\ Visit => IndInv'
<1> SUFFICES ASSUME IndInv, Visit PROVE IndInv'
  OBVIOUS
<1>0. /\ walk \in Seq(Frame) /\ Len(walk) \in Nat \ {0} /\ Len(walk) \in DOMAIN walk
      /\ Walking /\ Top = walk[Len(walk)] /\ Top \in Frame /\ Signed /\ Top.next # 0
  BY TopType DEF Visit, Visiting
<1>1. Rec.name \in STRING /\ Rec.id \in Nat /\ Found \in Inode /\ Rec.id \in DOMAIN Volume.inodes
  BY RecType DEF Visit
<1>2. /\ Advanced \in Seq(Frame) /\ Len(Advanced) = Len(walk)
      /\ \A k \in DOMAIN walk : /\ Advanced[k].prefix = walk[k].prefix
                                /\ Advanced[k].dir = walk[k].dir
                                /\ k # Len(walk) => Advanced[k] = walk[k]
  BY <1>0, AdvancedType
<1> DEFINE e == EntryAtHand
           path == Append(Top.prefix, Rec.name)
<1>3. path \in Seq(STRING) /\ path # <<>> /\ path[Len(path)] = Rec.name
  <2>1. Top.prefix \in Seq(STRING)
    BY <1>0 DEF Frame
  <2> QED BY <1>1, <2>1, AppendProperties
<1>4. e \in Entry /\ e.path = path /\ e.kind = Found.kind /\ e.id = Rec.id
  <2>1. FileSize(Found) \in Nat /\ Found.target \in Seq(STRING) /\ Found.kind \in {"file", "dir", "link"}
    BY <1>1 DEF FileSize, Inode
  <2>2. <<>> \in Seq(STRING)
    OBVIOUS
  <2> QED BY <1>1, <1>3, <2>1, <2>2 DEF EntryAtHand, Entry
<1>5. Below \in Frame /\ Below.prefix = path /\ Below.next = 0
  BY <1>1, <1>3 DEF Below, Frame
<1>6. /\ listing \in Seq(Entry) /\ listing' = Append(listing, e) /\ listing' \in Seq(Entry)
      /\ Len(listing') = Len(listing) + 1 /\ listing'[Len(listing) + 1] = e
      /\ \A j \in DOMAIN listing : listing'[j] = listing[j]
  <2>1. listing \in Seq(Entry) /\ listing' = Append(listing, e)
    BY DEF IndInv, TypeOK, Visit
  <2> HIDE DEF e
  <2> QED BY <1>4, <2>1
<1>7. /\ walk' \in Seq(Frame)
      /\ \/ walk' = Advanced
         \/ /\ walk' = Append(Advanced, Below) /\ Found.kind = "dir"
            /\ Len(walk') = Len(walk) + 1 /\ walk'[Len(walk) + 1] = Below
      /\ \A k \in DOMAIN walk : walk'[k] = Advanced[k]
  BY <1>0, <1>2, <1>5 DEF Visit
<1>8. UNCHANGED <<file, status, answers>> /\ status = "walking" /\ Volume' = Volume /\ Signed' = Signed
  BY <1>0 DEF Visit, Walking, Volume, Mark, Signed
<1> HIDE DEF e, path
<1>9. TypeOK'
  BY <1>6, <1>7, <1>8 DEF IndInv, TypeOK
<1>10. PrefixInv'
  <2> SUFFICES ASSUME NEW k \in DOMAIN walk'
               PROVE  \/ walk'[k].prefix = <<>>
                      \/ \E j \in DOMAIN listing' : /\ listing'[j].kind = "dir"
                                                     /\ listing'[j].path = walk'[k].prefix
    BY DEF PrefixInv
  <2>1. CASE k \in DOMAIN walk
    <3>1. walk'[k].prefix = walk[k].prefix
      BY <1>2, <1>7, <2>1
    <3>2. \/ walk[k].prefix = <<>>
          \/ \E j \in DOMAIN listing : listing[j].kind = "dir" /\ listing[j].path = walk[k].prefix
      BY <1>8, <2>1 DEF IndInv, PrefixInv
    <3>3. DOMAIN listing \subseteq DOMAIN listing'
      BY <1>6
    <3> QED BY <1>6, <3>1, <3>2, <3>3
  <2>2. CASE k \notin DOMAIN walk
    <3>1. k = Len(walk) + 1 /\ walk'[k] = Below /\ Found.kind = "dir"
      BY <1>0, <1>2, <1>7, <2>2
    <3>2. Len(listing) + 1 \in DOMAIN listing'
      BY <1>6
    <3> QED BY <1>4, <1>5, <1>6, <3>1, <3>2
  <2> QED BY <2>1, <2>2
<1>11. ListedInv' /\ DepthInv'
  <2> SUFFICES ASSUME NEW k \in DOMAIN walk', walk'[k].next # 0
               PROVE  k \in DOMAIN walk /\ walk'[k].dir = walk[k].dir /\ walk[k].next # 0
    BY <1>0, <1>8 DEF IndInv, ListedInv, DepthInv
  <2>1. k \in DOMAIN walk
    BY <1>0, <1>2, <1>5, <1>7
  <2>2. CASE k = Len(walk)
    BY <1>0, <1>2, <1>7, <2>1, <2>2
  <2>3. CASE k # Len(walk)
    BY <1>2, <1>7, <2>1, <2>3
  <2> QED BY <2>1, <2>2, <2>3
<1>12. Len(walk') <= MaxDepth + 2
  <2>1. Len(walk) <= MaxDepth + 1
    BY <1>0 DEF IndInv, DepthInv
  <2> QED BY <1>0, <1>2, <1>7, <2>1, ApfsAssumption
<1>13. Len(listing') <= MaxEntries
  <2>1. Len(listing) < MaxEntries
    BY <1>6, ApfsAssumption DEF Visit, Full
  <2> QED BY <1>6, <2>1, ApfsAssumption
<1>14. ParentsFirst'
  <2> SUFFICES ASSUME NEW i \in DOMAIN listing'
               PROVE  LET p == listing'[i].path IN
                      \/ Len(p) = 1
                      \/ \E j \in 1 .. i - 1 : /\ listing'[j].kind = "dir"
                                               /\ p = Append(listing'[j].path, p[Len(p)])
    BY DEF ParentsFirst
  <2>1. CASE i \in DOMAIN listing
    <3>1. \A j \in 1 .. i - 1 : j \in DOMAIN listing
      BY <1>6, <2>1
    <3> QED BY <1>6, <2>1, <3>1 DEF IndInv, ParentsFirst
  <2>2. CASE i = Len(listing) + 1
    <3>0. path = Append(Top.prefix, path[Len(path)])
      BY <1>3 DEF path
    <3>1. listing'[i].path = path
      BY <1>4, <1>6, <2>2
    <3>2. CASE Top.prefix = <<>>
      BY <3>1, <3>2, <1>0, <1>1 DEF path
    <3>3. ASSUME NEW j \in DOMAIN listing, listing[j].kind = "dir", listing[j].path = Top.prefix
          PROVE  \E q \in 1 .. i - 1 : /\ listing'[q].kind = "dir"
                                       /\ path = Append(listing'[q].path, path[Len(path)])
      <4>1. j \in 1 .. i - 1 /\ listing'[j] = listing[j]
        BY <1>6, <2>2, <3>3
      <4> QED BY <3>0, <3>3, <4>1
    <3>4. \/ Top.prefix = <<>>
          \/ \E j \in DOMAIN listing : listing[j].kind = "dir" /\ listing[j].path = Top.prefix
      BY <1>0, <1>8 DEF IndInv, PrefixInv
    <3> QED BY <3>1, <3>2, <3>3, <3>4
  <2>3. i \in DOMAIN listing \/ i = Len(listing) + 1
    BY <1>6
  <2> QED BY <2>1, <2>2, <2>3
<1>15. \A i \in DOMAIN listing' : listing'[i].id \in DOMAIN Volume'.inodes
  BY <1>1, <1>4, <1>6, <1>8 DEF IndInv
<1> QED BY <1>8, <1>9, <1>10, <1>11, <1>12, <1>13, <1>14, <1>15 DEF IndInv

----------------------------------------------------------------------------
LEMMA LeaveKeeps == IndInv /\ Leave => IndInv'
<1> SUFFICES ASSUME IndInv, Leave PROVE IndInv'
  OBVIOUS
<1>0. walk \in Seq(Frame) /\ Len(walk) \in Nat \ {0} /\ Signed /\ status = "walking"
  BY TopType DEF Leave, Walking
<1>1. /\ walk' \in Seq(Frame) /\ Len(walk') = Len(walk) - 1
      /\ \A k \in DOMAIN walk' : k \in DOMAIN walk /\ walk'[k] = walk[k]
  <2>1. walk' = SubSeq(walk, 1, Len(walk) - 1)
    BY DEF Leave
  <2>2. \A k \in 1 .. Len(walk) - 1 : k \in 1 .. Len(walk)
    BY <1>0
  <2>3. walk' \in Seq(Frame) /\ Len(walk') = Len(walk) - 1
        /\ \A k \in 1 .. Len(walk) - 1 : walk'[k] = walk[k]
    <3> DEFINE m == Len(walk) - 1
    <3>1. m \in Nat /\ \A k \in 1..m : walk[k] \in Frame
      BY <1>0, <2>2, Element
    <3> HIDE DEF m
    <3>2. /\ SubSeq(walk, 1, m) \in Seq(Frame)
          /\ Len(SubSeq(walk, 1, m)) = m
          /\ \A k \in 1..m : SubSeq(walk, 1, m)[k] = walk[k]
      BY <3>1, SubSeqProperties
    <3> QED BY <2>1, <3>2 DEF m
  <2> QED BY <1>0, <2>2, <2>3
<1>2. UNCHANGED <<file, listing, status, answers>> /\ Volume' = Volume /\ Signed' = Signed
  BY DEF Leave, Volume, Mark, Signed
<1>3. TypeOK' /\ PrefixInv' /\ ListedInv' /\ DepthInv'
  BY <1>0, <1>1, <1>2 DEF IndInv, TypeOK, PrefixInv, ListedInv, DepthInv
<1> QED BY <1>0, <1>1, <1>2, <1>3, ApfsAssumption DEF IndInv, ParentsFirst

LEMMA FinishKeeps == IndInv /\ Finish => IndInv'
<1> SUFFICES ASSUME IndInv, Finish PROVE IndInv'
  OBVIOUS
<1>1. UNCHANGED <<file, walk, listing>> /\ Volume' = Volume /\ Signed' = Signed /\ status' = "open"
  BY DEF Finish, Volume, Mark, Signed
<1>2. answers' \in Seq(Answers) /\ DOMAIN answers' = DOMAIN listing
  <2>1. NotRead \in Answers
    <3>1. <<>> \in Seq(Nat)
      OBVIOUS
    <3> QED BY <3>1, AnswerType DEF NotRead
  <2>2. listing \in Seq(Entry)
    BY DEF IndInv, TypeOK
  <2> QED BY <2>1, <2>2 DEF Finish
<1> QED BY <1>1, <1>2 DEF Finish, IndInv, TypeOK, DepthInv, ParentsFirst

----------------------------------------------------------------------------
LEMMA ReadType ==
  ASSUME IndInv, status = "open", NEW i \in DOMAIN listing
  PROVE  ReadBody(listing[i]) \in Answers
<1>1. listing[i] \in Entry /\ listing[i].id \in DOMAIN Volume.inodes
  BY Element DEF IndInv, TypeOK
<1> DEFINE inode == Volume.inodes[listing[i].id]
           raw == Through(file, file.offset, inode.at, inode.stored)
<1>2. inode \in Inode /\ (inode.packed => inode.stored > 0)
  BY <1>1, VolumeType DEF IndInv, ApfsVolume
<1>3. raw \in Seq(Nat)
  <2>1. inode.at \in Nat /\ inode.stored \in Nat
    BY <1>2 DEF Inode
  <2>2. file.len \in Nat /\ Sparse(file.byte, Nat) /\ file.offset \in Nat
    BY DEF IndInv, TypeOK, ApfsImage
  <2>3. file.offset + inode.at \in Nat
    BY <2>1, <2>2
  <2> QED BY <2>1, <2>2, <2>3, BytesRead DEF Through
<1>4. ReadData(inode) \in Answers
  <2> HIDE DEF inode
  <2>1. inode.stored \in Nat /\ inode.packed \in BOOLEAN
    BY <1>2 DEF Inode
  <2>2. CASE Len(raw) < inode.stored
    <3>1. ReadData(inode) = Answer("Corrupt", <<>>)
      BY <2>2 DEF ReadData
    <3>2. <<>> \in Seq(Nat)
      OBVIOUS
    <3> QED BY <3>1, <3>2, AnswerType
  <2>3. CASE ~(Len(raw) < inode.stored) /\ Len(raw) = inode.stored /\ ~inode.packed
    <3>1. ReadData(inode) = Answer("ok", raw)
      BY <2>3 DEF ReadData
    <3> QED BY <1>3, <3>1, AnswerType
  <2>4. CASE ~(Len(raw) < inode.stored) /\ inode.packed
    <3> HIDE DEF raw
    <3>1. raw # <<>>
      BY <1>2, <1>3, <2>1, <2>4
    <3>2. Tail(raw) \in Seq(Nat)
      BY <1>3, <3>1
    <3>3. ReadData(inode) = Answer("ok", Tail(raw))
      BY <2>4 DEF ReadData, raw
    <3> QED BY <3>2, <3>3, AnswerType
  <2>5. Len(raw) = inode.stored \/ Len(raw) < inode.stored
    <3> SUFFICES Reach(file, file.offset + inode.at, inode.stored) <= inode.stored
                 /\ Len(raw) = Reach(file, file.offset + inode.at, inode.stored)
      BY <1>3, <2>1
    <3>1. file.len \in Nat /\ file.offset + inode.at \in Nat
      BY <1>2 DEF IndInv, TypeOK, ApfsImage, Inode
    <3>2. Reach(file, file.offset + inode.at, inode.stored) \in 0 .. inode.stored
      BY <2>1, <3>1 DEF Reach
    <3> QED BY <3>2 DEF Through, Bytes
  <2> QED BY <2>1, <2>2, <2>3, <2>4, <2>5
<1>5. Answer("ok", <<>>) \in Answers
  <2>1. <<>> \in Seq(Nat)
    OBVIOUS
  <2> QED BY <2>1, AnswerType
<1> QED BY <1>4, <1>5 DEF ReadBody

LEMMA ReadKeeps ==
  ASSUME IndInv, NEW i \in DOMAIN listing, ReadEntry(i)
  PROVE  IndInv'
<1>1. UNCHANGED <<file, walk, listing, status>> /\ Volume' = Volume /\ Signed' = Signed
  BY DEF ReadEntry, Volume, Mark, Signed
<1>2. answers' \in Seq(Answers) /\ DOMAIN answers' = DOMAIN listing
  <2>1. answers \in Seq(Answers) /\ DOMAIN answers = DOMAIN listing
    BY DEF ReadEntry, IndInv, TypeOK
  <2>2. ReadBody(listing[i]) \in Answers
    BY ReadType DEF ReadEntry
  <2> DEFINE a == ReadBody(listing[i])
  <2>3. answers' = [answers EXCEPT ![i] = a]
    BY DEF ReadEntry
  <2> HIDE DEF a
  <2> QED BY <2>1, <2>2, <2>3 DEF a
<1> QED
  BY <1>1, <1>2 DEF ReadEntry, IndInv, TypeOK, DepthInv, ParentsFirst, PrefixInv, ListedInv

LEMMA NextInd == IndInv /\ [Next]_vars => IndInv'
<1> SUFFICES ASSUME IndInv, [Next]_vars PROVE IndInv'
  OBVIOUS
<1>1. ASSUME RefusePathless \/ RefuseUnsigned \/ CannotMount \/ TooDeep \/ CannotList
             \/ TooMany \/ CannotLoad
      PROVE  IndInv'
  BY <1>1, RefuseKeeps
  DEF RefusePathless, RefuseUnsigned, CannotMount, TooDeep, CannotList, TooMany, CannotLoad
<1>2. CASE UNCHANGED vars
  BY <1>2 DEF vars, IndInv, TypeOK, DepthInv, ParentsFirst, PrefixInv, ListedInv, Volume, Mark, Signed
<1> QED BY <1>1, <1>2, MountKeeps, EnterKeeps, VisitKeeps, LeaveKeeps, FinishKeeps, ReadKeeps DEF Next

LEMMA AlwaysInd == Spec => []IndInv
BY InitInd, NextInd, PTL DEF Spec

----------------------------------------------------------------------------
\* What is open is one of the images, what is listed are entries, and what is
\* answered are bytes (walk_tree, read_entry).
THEOREM TypeCorrect == Spec => []TypeOK
<1>1. IndInv => TypeOK
  BY DEF IndInv
<1> QED BY <1>1, AlwaysInd, PTL

\* The two limits of walk_tree hold for every graph the records can make, a
\* cycle too: it visits no directory below MAX_APFS_DEPTH and lists no more
\* than MAX_APFS_ENTRIES.
THEOREM WalkStaysBounded == Spec => []WalkIsBounded
<1>1. IndInv => WalkIsBounded
  BY DEF IndInv, WalkIsBounded
<1> QED BY <1>1, AlwaysInd, PTL

\* walk_tree lists a directory before whatever is in it, at every depth.
THEOREM DirectoriesComeFirst == Spec => []ParentsFirst
<1>1. IndInv => ParentsFirst
  BY DEF IndInv
<1> QED BY <1>1, AlwaysInd, PTL

----------------------------------------------------------------------------
(***************************************************************************)
(* How a walk is tied to the tree, and what happens to sequences.          *)
(***************************************************************************)
LEMMA Smallest == ASSUME NEW S, S \subseteq Nat, S # {} PROVE \E k \in S : \A j \in S : k <= j
<1> DEFINE Less == OpToRel(<, Nat)
<1>1. IsWellFoundedOn(Less, Nat)
  BY NatLessThanWellFounded
<1>2. \A x \in Nat : \A y \in Nat : y < x => <<y, x>> \in Less
  BY DEF OpToRel
<1> HIDE DEF Less
<1>3. PICK k \in S : \A j \in S : ~(<<j, k>> \in Less)
  BY <1>1, WFMin
<1>4. ASSUME NEW j \in S PROVE k <= j
  <2>1. j \in Nat /\ k \in Nat /\ ~(<<j, k>> \in Less)
    BY <1>3
  <2>2. ~(j < k)
    BY <1>2, <2>1
  <2> QED BY <2>1, <2>2
<1> QED BY <1>4

----------------------------------------------------------------------------
(***************************************************************************)
(* Where a walk is in a counted tree: the nodes it is in, the root first,  *)
(* and which record is next in each; n members are listed.                 *)
(***************************************************************************)
Cut(t) ==
  /\ Counted(t)
  /\ \A k \in Nodes(t) : /\ Cuts(t, k) \in Seq(Nat) /\ Cuts(t, k) # <<>>
                         /\ Cuts(t, k)[1] = k

On(t, node, nth, n) ==
  /\ node \in Seq(Nat) /\ nth \in Seq(Nat) /\ Len(nth) = Len(node) /\ n \in Nat
  /\ \A j \in 1 .. Len(node) : node[j] \in Nodes(t) /\ nth[j] \in 1 .. Len(Cuts(t, node[j]))
  /\ \A j \in 1 .. Len(node) - 1 : Cuts(t, node[j])[nth[j]] = End(t, node[j + 1])
  /\ node # <<>> => node[1] = 0 /\ Cuts(t, node[Len(node)])[nth[Len(nth)]] = n
  /\ node = <<>> => n = Len(t.members)

LEMMA AtRoot == ASSUME NEW t, Cut(t) PROVE On(t, <<0>>, <<1>>, 0)
<1>1. 0 \in Nodes(t)
  <2>1. Len(t.members) \in Nat
    BY DEF Cut, Counted, IsSeq
  <2> QED BY <2>1 DEF Nodes
<1>2. Cuts(t, 0) \in Seq(Nat) /\ Cuts(t, 0) # <<>> /\ Cuts(t, 0)[1] = 0
  BY <1>1 DEF Cut
<1>3. 1 \in 1 .. Len(Cuts(t, 0))
  BY <1>2
<1> QED BY <1>1, <1>2, <1>3 DEF On

\* The record at hand is no member, or one that nothing is below.
LEMMA GoesPast ==
  ASSUME NEW t, Cut(t), NEW node, NEW nth, NEW n, On(t, node, nth, n), node # <<>>,
         nth[Len(nth)] < Len(Cuts(t, node[Len(node)])),
         NEW m \in Nat, Cuts(t, node[Len(node)])[nth[Len(nth)] + 1] = m
  PROVE  On(t, node, [nth EXCEPT ![Len(nth)] = nth[Len(nth)] + 1], m)
<1> DEFINE L == Len(node)
           after == [nth EXCEPT ![Len(nth)] = nth[Len(nth)] + 1]
<1>1. node \in Seq(Nat) /\ nth \in Seq(Nat) /\ Len(nth) = L /\ L \in Nat \ {0}
  BY DEF On
<1>2. L \in 1..L /\ node[L] \in Nodes(t) /\ nth[L] \in 1 .. Len(Cuts(t, node[L]))
  BY <1>1 DEF On
<1>3. Cuts(t, node[L]) \in Seq(Nat)
  BY <1>2 DEF Cut
<1>4. nth[L] + 1 \in 1 .. Len(Cuts(t, node[L]))
  BY <1>1, <1>2, <1>3
<1>5. /\ after \in Seq(Nat) /\ Len(after) = L /\ after[L] = nth[L] + 1
      /\ \A j \in 1 .. L : j # L => after[j] = nth[j]
  BY <1>1, <1>2, <1>4
<1> HIDE DEF after
<1>6. \A j \in 1 .. L : node[j] \in Nodes(t) /\ after[j] \in 1 .. Len(Cuts(t, node[j]))
  BY <1>1, <1>4, <1>5 DEF On
<1>7. \A j \in 1 .. L - 1 : Cuts(t, node[j])[after[j]] = End(t, node[j + 1])
  <2> TAKE j \in 1 .. L - 1
  <2>1. j \in 1..L /\ j # L
    BY <1>1
  <2>2. after[j] = nth[j]
    BY <1>5, <2>1
  <2> QED BY <2>2 DEF On
<1>8. node[1] = 0 /\ Cuts(t, node[L])[after[L]] = m
  BY <1>1, <1>5 DEF On
<1> HIDE DEF L
<1>9. On(t, node, after, m)
  BY <1>1, <1>5, <1>6, <1>7, <1>8 DEF On, L
<1> QED BY <1>9 DEF after

\* The record at hand is a member: the next one.
LEMMA Descends ==
  ASSUME NEW t, Cut(t), NEW node, NEW nth, NEW n, On(t, node, nth, n), node # <<>>,
         NEW name, nth[Len(nth)] < Len(Cuts(t, node[Len(node)])),
         Listed(t, node[Len(node)], nth[Len(nth)], name)
  PROVE  /\ n + 1 \in DOMAIN t.members /\ n + 1 \in Nodes(t)
         /\ Child(t, node[Len(node)], nth[Len(nth)]) = n + 1
         /\ t.members[n + 1].path = Append(PathOf(t, node[Len(node)]), name)
         /\ Len(Cuts(t, n + 1)) = 1 =>
              On(t, node, [nth EXCEPT ![Len(nth)] = nth[Len(nth)] + 1], n + 1)
         /\ On(t, Append(node, n + 1),
                  Append([nth EXCEPT ![Len(nth)] = nth[Len(nth)] + 1], 1), n + 1)
<1> DEFINE L == Len(node)
           k == node[L]
           i == nth[Len(nth)]
           after == [nth EXCEPT ![Len(nth)] = nth[Len(nth)] + 1]
<1>1. node \in Seq(Nat) /\ nth \in Seq(Nat) /\ Len(nth) = L /\ L \in Nat \ {0} /\ n \in Nat
  BY DEF On
<1>2. L \in 1..L /\ k \in Nodes(t) /\ i \in 1 .. Len(Cuts(t, k)) /\ Cuts(t, k)[i] = n
  BY <1>1 DEF On
<1>3. Child(t, k, i) = n + 1
  BY <1>2 DEF Child
<1>4. t.members \in Seq(Range(t.members)) /\ Len(t.members) \in Nat
  BY DEF Cut, Counted, IsSeq
<1>5. n + 1 \in DOMAIN t.members /\ n + 1 \in Nodes(t)
  BY <1>1, <1>3, <1>4 DEF Listed, Nodes
<1>6. t.members[n + 1].path = Append(PathOf(t, k), name) /\ Cuts(t, k)[i + 1] = End(t, n + 1)
  BY <1>3 DEF Listed
<1>7. Cuts(t, n + 1) \in Seq(Nat) /\ Cuts(t, n + 1) # <<>> /\ Cuts(t, n + 1)[1] = n + 1
  BY <1>5 DEF Cut
<1>8. End(t, n + 1) \in Nat
  BY <1>7 DEF End
<1>9. On(t, node, after, End(t, n + 1))
  BY <1>6, <1>8, GoesPast
<1>10. Len(Cuts(t, n + 1)) = 1 => End(t, n + 1) = n + 1
  BY <1>7 DEF End
<1> DEFINE node2 == Append(node, n + 1)
           nth2 == Append(after, 1)
<1>11. /\ after \in Seq(Nat) /\ Len(after) = L
       /\ \A j \in 1..L : after[j] \in 1 .. Len(Cuts(t, node[j])) /\ node[j] \in Nodes(t)
       /\ \A j \in 1 .. L - 1 : Cuts(t, node[j])[after[j]] = End(t, node[j + 1])
       /\ node[1] = 0 /\ Cuts(t, node[L])[after[L]] = End(t, n + 1)
  BY <1>1, <1>9 DEF On
<1> HIDE DEF after
<1>12. /\ node2 \in Seq(Nat) /\ nth2 \in Seq(Nat) /\ Len(node2) = L + 1 /\ Len(nth2) = L + 1
       /\ \A j \in 1..L : node2[j] = node[j] /\ nth2[j] = after[j]
       /\ node2[L + 1] = n + 1 /\ nth2[L + 1] = 1
  BY <1>1, <1>11
<1> HIDE DEF node2, nth2
<1>13. 1 \in 1 .. Len(Cuts(t, n + 1))
  BY <1>7
<1>14. \A j \in 1 .. L + 1 : node2[j] \in Nodes(t) /\ nth2[j] \in 1 .. Len(Cuts(t, node2[j]))
  <2> TAKE j \in 1 .. L + 1
  <2>1. CASE j = L + 1
    BY <1>5, <1>12, <1>13, <2>1
  <2>2. CASE j # L + 1
    <3>1. j \in 1..L
      BY <1>1, <2>2
    <3> QED BY <1>11, <1>12, <3>1
  <2> QED BY <2>1, <2>2
<1>15. \A j \in 1 .. L : Cuts(t, node2[j])[nth2[j]] = End(t, node2[j + 1])
  <2> TAKE j \in 1 .. L
  <2>1. CASE j = L
    BY <1>11, <1>12, <2>1
  <2>2. CASE j # L
    <3>1. j \in 1..L - 1 /\ j + 1 \in 1..L
      BY <1>1, <2>2
    <3> QED BY <1>11, <1>12, <3>1
  <2> QED BY <2>1, <2>2
<1>16. node2 # <<>> /\ node2[1] = 0
  BY <1>1, <1>11, <1>12
<1>17. On(t, node2, nth2, n + 1)
  BY <1>1, <1>7, <1>12, <1>14, <1>15, <1>16 DEF On
<1> QED BY <1>1, <1>3, <1>5, <1>6, <1>9, <1>10, <1>17 DEF after, node2, nth2

\* The last record is through.
LEMMA Leaves ==
  ASSUME NEW t, Cut(t), NEW node, NEW nth, NEW n, On(t, node, nth, n), node # <<>>,
         nth[Len(nth)] = Len(Cuts(t, node[Len(node)]))
  PROVE  On(t, SubSeq(node, 1, Len(node) - 1), SubSeq(nth, 1, Len(nth) - 1), n)
<1> DEFINE L == Len(node)
           m == L - 1
           node2 == SubSeq(node, 1, m)
           nth2 == SubSeq(nth, 1, m)
<1>1. node \in Seq(Nat) /\ nth \in Seq(Nat) /\ Len(nth) = L /\ L \in Nat \ {0} /\ n \in Nat
  BY DEF On
<1>2. m \in Nat /\ L = m + 1 /\ \A j \in 1..m : j \in 1..L /\ node[j] \in Nat /\ nth[j] \in Nat
  BY <1>1
<1>3. /\ node2 \in Seq(Nat) /\ Len(node2) = m /\ nth2 \in Seq(Nat) /\ Len(nth2) = m
      /\ \A j \in 1..m : node2[j] = node[j] /\ nth2[j] = nth[j]
  <2> HIDE DEF m
  <2> QED BY <1>2, SubSeqProperties
<1>4. n = End(t, node[L])
  BY <1>1 DEF On, End
<1>5. node2 = <<>> => n = Len(t.members)
  <2>1. node2 = <<>> => m = 0
    BY <1>3
  <2>2. m = 0 => node[L] = 0
    BY <1>1, <1>2 DEF On
  <2> QED BY <1>4, <2>1, <2>2 DEF Cut, Counted
<1> HIDE DEF node2, nth2, m
<1>6. \A j \in 1..m : node2[j] \in Nodes(t) /\ nth2[j] \in 1 .. Len(Cuts(t, node2[j]))
  BY <1>2, <1>3 DEF On
<1>7. \A j \in 1..m : Cuts(t, node[j])[nth[j]] = End(t, node[j + 1])
  BY <1>2 DEF On
<1>8. \A j \in 1..m - 1 : Cuts(t, node2[j])[nth2[j]] = End(t, node2[j + 1])
  <2> TAKE j \in 1 .. m - 1
  <2>1. j \in 1..m /\ j + 1 \in 1..m
    BY <1>2
  <2> QED BY <1>3, <1>7, <2>1
<1>9. node2 # <<>> => node2[1] = 0 /\ Cuts(t, node2[m])[nth2[m]] = n
  <2> SUFFICES ASSUME node2 # <<>> PROVE node2[1] = 0 /\ Cuts(t, node2[m])[nth2[m]] = n
    OBVIOUS
  <2>1. m \in 1..m /\ 1 \in 1..m
    BY <1>2, <1>3
  <2>2. node[1] = 0
    BY <1>1 DEF On
  <2>3. Cuts(t, node[m])[nth[m]] = n
    BY <1>2, <1>4, <1>7, <2>1
  <2> QED BY <1>3, <2>1, <2>2, <2>3
<1>10. On(t, node2, nth2, n)
  BY <1>1, <1>3, <1>5, <1>6, <1>8, <1>9 DEF On
<1> QED BY <1>1, <1>10 DEF node2, nth2, m

\* A sequence without its last element, and with one more.
LEMMA WithoutLast ==
  ASSUME NEW w, IsSeq(w), w # <<>>
  PROVE  LET r == SubSeq(w, 1, Len(w) - 1)
         IN /\ Len(w) \in Nat \ {0} /\ IsSeq(r) /\ Len(r) = Len(w) - 1
            /\ \A q \in 1 .. Len(w) - 1 : r[q] = w[q]
<1> DEFINE m == Len(w) - 1
<1>1. w \in Seq(Range(w)) /\ Len(w) \in Nat \ {0}
  BY DEF IsSeq
<1>2. m \in Nat /\ \A q \in 1..m : w[q] \in Range(w)
  BY <1>1
<1> DEFINE r == SubSeq(w, 1, m)
<1>3. r \in Seq(Range(w)) /\ Len(r) = m /\ \A q \in 1..m : r[q] = w[q]
  <2> HIDE DEF m
  <2> QED BY <1>2, SubSeqProperties
<1> HIDE DEF r
<1>4. IsSeq(r)
  BY <1>3 DEF IsSeq, Range
<1> QED BY <1>1, <1>3, <1>4 DEF r, m

LEMMA AppendIsSeq ==
  ASSUME NEW l, IsSeq(l), NEW x
  PROVE  /\ Len(l) \in Nat /\ IsSeq(Append(l, x)) /\ Len(Append(l, x)) = Len(l) + 1
         /\ Append(l, x)[Len(l) + 1] = x /\ \A i \in 1 .. Len(l) : Append(l, x)[i] = l[i]
<1> DEFINE T == Range(l) \union {x}
           more == Append(l, x)
           n == Len(l)
<1>1. l \in Seq(Range(l)) /\ n \in Nat
  BY DEF IsSeq
<1>2. l \in Seq(T) /\ x \in T
  BY <1>1
<1> HIDE DEF T
<1>3. /\ more \in Seq(T) /\ Len(more) = n + 1 /\ more[n + 1] = x /\ \A i \in 1..n : more[i] = l[i]
  BY <1>1, <1>2
<1> HIDE DEF more
<1>4. IsSeq(more)
  BY <1>3 DEF IsSeq, Range
<1> QED BY <1>1, <1>3, <1>4 DEF more, n

LEMMA SeqIsSeq ==
  ASSUME NEW S, NEW s \in Seq(S)
  PROVE  IsSeq(s) /\ Len(s) \in Nat /\ DOMAIN s = 1 .. Len(s)
<1> DEFINE n == Len(s)
<1>1. n \in Nat /\ DOMAIN s = 1..n /\ s = [k \in 1..n |-> s[k]]
  OBVIOUS
<1> HIDE DEF n
<1>2. \A k \in 1..n : s[k] \in Range(s)
  BY <1>1 DEF Range
<1>3. s \in Seq(Range(s))
  BY <1>1, <1>2
<1> QED BY <1>1, <1>3 DEF IsSeq, n

LEMMA ExceptIsSeq ==
  ASSUME NEW s, IsSeq(s), NEW i \in 1 .. Len(s), NEW x
  PROVE  LET t == [s EXCEPT ![i] = x] IN
         /\ IsSeq(t) /\ Len(t) = Len(s) /\ t[i] = x
         /\ \A j \in 1 .. Len(s) : j # i => t[j] = s[j]
<1> DEFINE t == [s EXCEPT ![i] = x]
           n == Len(s)
<1>1. n \in Nat /\ s \in Seq(Range(s)) /\ DOMAIN s = 1..n
  BY DEF IsSeq
<1>2. DOMAIN t = 1..n /\ t = [k \in 1..n |-> t[k]] /\ t[i] = x /\ \A j \in 1..n : j # i => t[j] = s[j]
  BY <1>1
<1> HIDE DEF t, n
<1>3. \A k \in 1..n : t[k] \in Range(t)
  BY <1>2 DEF Range
<1>4. t \in Seq(Range(t)) /\ Len(t) = n
  BY <1>1, <1>2, <1>3
<1> QED BY <1>2, <1>4 DEF IsSeq, t, n

LEMMA OneMore ==
  ASSUME NEW s, IsSeq(s), NEW x
  PROVE  /\ Len(s) \in Nat /\ s \o <<>> = s
         /\ IsSeq(s \o <<x>>) /\ Len(s \o <<x>>) = Len(s) + 1
         /\ (s \o <<x>>)[Len(s) + 1] = x /\ \A i \in 1 .. Len(s) : (s \o <<x>>)[i] = s[i]
<1> DEFINE T == Range(s) \union {x}
           more == s \o <<x>>
           n == Len(s)
<1>1. s \in Seq(Range(s)) /\ n \in Nat
  BY DEF IsSeq
<1>2. s \in Seq(T) /\ <<x>> \in Seq(T) /\ x \in T
  BY <1>1
<1>3. s \o <<>> = s
  BY <1>1
<1> HIDE DEF T
<1>4. /\ more \in Seq(T) /\ Len(more) = n + 1 /\ more[n + 1] = x /\ \A i \in 1..n : more[i] = s[i]
  BY <1>1, <1>2
<1> HIDE DEF more
<1>5. IsSeq(more)
  BY <1>4, SeqIsSeq
<1> QED BY <1>1, <1>3, <1>4, <1>5 DEF more, n

LEMMA ConcatIs ==
  ASSUME NEW a, IsSeq(a), NEW b, IsSeq(b)
  PROVE  /\ IsSeq(a \o b) /\ Len(a \o b) = Len(a) + Len(b)
         /\ \A i \in 1 .. Len(a) : (a \o b)[i] = a[i]
         /\ \A i \in 1 .. Len(b) : (a \o b)[Len(a) + i] = b[i]
         /\ \A x : x \in Range(a \o b) <=> x \in Range(a) \/ x \in Range(b)
<1> DEFINE T == Range(a) \union Range(b)
           c == a \o b
           m == Len(a)
           n == Len(b)
<1>1. /\ a \in Seq(Range(a)) /\ b \in Seq(Range(b)) /\ m \in Nat /\ n \in Nat
      /\ DOMAIN a = 1..m /\ DOMAIN b = 1..n
  BY DEF IsSeq
<1>2. a \in Seq(T) /\ b \in Seq(T)
  BY <1>1
<1> HIDE DEF T
<1>3. /\ c \in Seq(T) /\ Len(c) = m + n /\ \A i \in 1..m : c[i] = a[i]
      /\ \A i \in 1..n : c[m + i] = b[i] /\ DOMAIN c = 1 .. m + n
  <2>1. c \in Seq(T) /\ Len(c) = m + n
    BY <1>1, <1>2
  <2>2. \A i \in 1 .. m + n : c[i] = IF i <= m THEN a[i] ELSE b[i - m]
    BY <1>2
  <2> HIDE DEF c, m, n
  <2>3. ASSUME NEW i \in 1..m PROVE c[i] = a[i]
    <3>1. i \in 1 .. m + n /\ i <= m
      BY <1>1
    <3> QED BY <2>2, <3>1
  <2>4. ASSUME NEW i \in 1..n PROVE c[m + i] = b[i]
    <3>1. m + i \in 1 .. m + n /\ ~(m + i <= m) /\ (m + i) - m = i
      BY <1>1
    <3> QED BY <2>2, <3>1
  <2>5. DOMAIN c = 1 .. m + n
    BY <2>1
  <2> QED BY <2>1, <2>3, <2>4, <2>5
<1> HIDE DEF c, m, n
<1>4. IsSeq(c)
  BY <1>3, SeqIsSeq
<1>5. ASSUME NEW x PROVE x \in Range(c) <=> x \in Range(a) \/ x \in Range(b)
  <2>1. x \in Range(c) <=> \E i \in 1 .. m + n : c[i] = x
    BY <1>1, <1>3 DEF Range
  <2>2. (x \in Range(a) <=> \E i \in 1..m : a[i] = x) /\ (x \in Range(b) <=> \E i \in 1..n : b[i] = x)
    BY <1>1 DEF Range
  <2>3. ASSUME NEW i \in 1 .. m + n, c[i] = x
        PROVE  (\E j \in 1..m : a[j] = x) \/ (\E j \in 1..n : b[j] = x)
    <3>1. CASE i <= m
      <4>1. i \in 1..m
        BY <1>1, <3>1
      <4> QED BY <1>3, <2>3, <4>1
    <3>2. CASE ~(i <= m)
      <4>1. i - m \in 1..n /\ m + (i - m) = i
        BY <1>1, <3>2
      <4>2. c[m + (i - m)] = b[i - m]
        BY <1>3, <4>1
      <4> QED BY <2>3, <4>1, <4>2
    <3> QED BY <3>1, <3>2
  <2>4. \A j \in 1..m : j \in 1 .. m + n
    BY <1>1
  <2>5. \A j \in 1..n : m + j \in 1 .. m + n
    BY <1>1
  <2> QED BY <1>3, <2>1, <2>2, <2>3, <2>4, <2>5
<1> QED BY <1>3, <1>4, <1>5 DEF c, m, n

----------------------------------------------------------------------------
(***************************************************************************)
(* Xar.  A list of work, the last put on it taken first.                   *)
(***************************************************************************)
\* A packed body is its length and its bytes.
LEMMA PackedBody ==
  ASSUME NEW content \in Seq(Nat)
  PROVE  LET b == <<Len(content)>> \o content
         IN /\ b \in Seq(Nat) /\ Len(b) = Len(content) + 1 /\ b[1] = Len(content)
            /\ Tail(b) = content /\ SubSeq(b, 2, b[1] + 1) = content
<1> DEFINE b == <<Len(content)>> \o content
           n == Len(content)
<1>1. n \in Nat /\ content = [k \in 1..n |-> content[k]] /\ \A k \in 1..n : content[k] \in Nat
  OBVIOUS
<1>2. /\ b \in Seq(Nat) /\ Len(b) = n + 1 /\ b[1] = n
      /\ \A k \in 1..n : b[k + 1] = content[k]
  BY <1>1
<1> HIDE DEF b
<1>3. b # <<>>
  BY <1>1, <1>2
<1>4. /\ Tail(b) \in Seq(Nat) /\ Len(Tail(b)) = n
      /\ \A k \in 1..n : Tail(b)[k] = b[k + 1]
  BY <1>1, <1>2, <1>3
<1>5. Tail(b) = content
  BY <1>1, <1>2, <1>4
<1> DEFINE s == SubSeq(b, 2, n + 1)
<1>6. s \in Seq(Nat) /\ Len(s) = n /\ \A k \in 1..n : s[k] = b[k + 1]
  BY <1>1, <1>2
<1> HIDE DEF s
<1>7. s = content
  <2> HIDE DEF n
  <2>1. \A k \in 1..n : s[k] = content[k]
    BY <1>2, <1>6
  <2>2. s = [k \in 1..n |-> s[k]]
    BY <1>6
  <2> QED BY <1>1, <2>1, <2>2
<1> HIDE DEF n
<1>8. SubSeq(b, 2, b[1] + 1) = content
  BY <1>2, <1>7 DEF s
<1> QED BY <1>2, <1>5, <1>8 DEF b, n

----------------------------------------------------------------------------
XarShape(f) ==
  /\ f.format = "xar" /\ f.len \in Nat /\ f.headerLen \in Nat /\ f.tocLen \in Nat
  /\ HasFields(f, {"len", "shrunk", "format", "members", "damage", "byte", "headerLen", "tocLen"})

XarKept(f) ==
  /\ XarShape(f)
  /\ f.toc \in Seq(f.elements) /\ \A e \in f.elements : XarElement(f, e)
  /\ f.damage \in {"none", "told"} /\ (f.damage = "none" => XarTree(f))

\* A <file> that is queued: what comes of it are the members after the `from`
\* first, up to the one numbered `to`.
Under1(e, path) == [e EXCEPT !.parent = path]
Queued(f, x, from, to) ==
  \E e \in f.elements, path \in Seq(STRING) :
    /\ x = Under1(e, path)
    /\ IF Unnamed(e) THEN to = from
       ELSE /\ from + 1 \in DOMAIN f.members
            /\ f.members[from + 1].path = Append(path, X!Component(e.names))
            /\ XarIs(f, f.members[from + 1], e)
            /\ f.members[from + 1].is = e
            /\ to = End(XarT(f), from + 1)

XarAt(f, w, n) ==
  /\ IsSeq(w)
  /\ \E c \in [0 .. Len(w) -> Nat] :
       /\ c[0] = Len(f.members) /\ c[Len(w)] = n
       /\ \A q \in 1 .. Len(w) : Queued(f, w[q], c[q], c[q - 1])

\* Somewhere in the queue is a <file> on the way to the fault.
XarLost(f, w) ==
  /\ XarFault(f) /\ IsSeq(w)
  /\ \A q \in 1 .. Len(w) : \E e \in f.elements : \E path : w[q] = Under1(e, path)
  /\ \E q \in 1 .. Len(w), j \in DOMAIN f.fault : \E path : w[q] = Under1(f.fault[j], path)

XarEntry(path, e) ==
  [path |-> path, kind |-> XarKind(e),
   size |-> IF Bodied(e) THEN e.data.size ELSE 0,
   target |-> IF XarKind(e) = "link" THEN e.link ELSE <<>>,
   item |-> IF Bodied(e) THEN <<e.data>> ELSE <<>>]

\* An entry and the member, with its <file>, that it stands for.
XarStands(f, x, m, e) ==
  /\ e.hasData => e.data.offset \in Nat /\ e.data.length \in Nat
  /\ m.content \in Seq(Nat) /\ XarIs(f, m, e) /\ x = XarEntry(m.path, e)

XarListed(f, l) ==
  /\ IsSeq(l) /\ Len(l) <= Len(f.members)
  /\ \A i \in DOMAIN l : \E e : XarStands(f, l[i], f.members[i], e)

XarInv ==
  /\ XarShape(file) /\ (status # "open" => XarKept(file))
  /\ status \in {"new", "walking", "open", "Unsupported", "Corrupt"}
  /\ status = "new" => WrittenXar(file) /\ listing = <<>>
  /\ status \in {"Unsupported", "Corrupt"} => file.damage # "none" /\ listing = <<>>
  /\ status = "walking" =>
       IF file.damage = "none" THEN XarListed(file, listing) /\ XarAt(file, walk, Len(listing))
       ELSE XarLost(file, walk)
  /\ status # "open" => answers = <<>>
  /\ status = "open" =>
       /\ file.damage = "none"
       /\ XarListed(file, listing) /\ Len(listing) = Len(file.members)
       /\ DOMAIN answers = DOMAIN listing
       /\ \A i \in DOMAIN listing :
            answers[i].said = "ok" /\ listing[i].kind = "file" /\ ~LeftToTheHeap(i) =>
              answers[i].given = file.members[i].content

----------------------------------------------------------------------------
LEMMA XarCut == ASSUME NEW f, XarTree(f) PROVE Cut(XarT(f)) /\ Len(f.members) \in Nat
<1>1. Counted(XarT(f)) /\ \A k \in Nodes(XarT(f)) : Divided(XarT(f), k, Len(Kids(f, k)))
  BY DEF XarTree
<1>2. ASSUME NEW k \in Nodes(XarT(f))
      PROVE  /\ Cuts(XarT(f), k) \in Seq(Nat) /\ Cuts(XarT(f), k) # <<>>
             /\ Cuts(XarT(f), k)[1] = k
  BY <1>1 DEF Divided
<1>3. Len(f.members) \in Nat
  BY <1>1 DEF Counted, IsSeq, XarT, Tree
<1> QED BY <1>1, <1>2, <1>3 DEF Cut

\* The <file> at the end of the queue.
LEMMA XarNode ==
  ASSUME NEW f, \A e \in f.elements : XarElement(f, e),
         NEW e \in f.elements, NEW path, NEW x, x = Under1(e, path)
  PROVE  /\ x.names = e.names /\ x.type = e.type /\ x.hasData = e.hasData /\ x.data = e.data
         /\ x.link = e.link /\ x.kids = e.kids /\ x.parent = path
BY DEF XarElement, HasFields, Under1

LEMMA XarAtHand ==
  ASSUME XarKept(file), NEW e \in file.elements, NEW path, walk[Len(walk)] = Under1(e, path)
  PROVE  /\ X!Skipped <=> Unnamed(e)
         /\ X!Known <=> (Bodied(e) => e.data.style \in X!Stored \union X!Packed)
         /\ X!Node.kids = e.kids
         /\ X!PathAtHand = Append(path, X!Component(e.names))
         /\ X!EntryAtHand = XarEntry(X!PathAtHand, e)
<1>1. /\ X!Node.names = e.names /\ X!Node.type = e.type /\ X!Node.hasData = e.hasData
      /\ X!Node.data = e.data /\ X!Node.link = e.link /\ X!Node.kids = e.kids
      /\ X!Node.parent = path
  BY XarNode DEF XarKept, X!Node
<1>2. X!Kind = XarKind(e)
  BY <1>1 DEF X!Kind, XarKind
<1>3. X!HasBody <=> Bodied(e)
  BY <1>1, <1>2 DEF X!HasBody, Bodied, XarKind
<1> QED
  BY <1>1, <1>2, <1>3 DEF X!Skipped, Unnamed, X!Known, X!PathAtHand, X!EntryAtHand, XarEntry

\* What is below a <file>, queued.
LEMMA QueueOf ==
  ASSUME NEW S, NEW kids \in Seq(S), NEW path
  PROVE  LET q == X!Queue(kids, path)
             n == Len(kids)
         IN /\ n \in Nat /\ IsSeq(q) /\ q \in Seq(Range(q)) /\ Len(q) = n
            /\ \A k \in 1..n : q[k] = Under1(kids[n + 1 - k], path)
<1> DEFINE q == X!Queue(kids, path)
           n == Len(kids)
<1>1. n \in Nat /\ DOMAIN kids = 1..n
  OBVIOUS
<1>2. q = [k \in 1..n |-> Under1(kids[n + 1 - k], path)]
  BY <1>1 DEF X!Queue, Under1
<1> HIDE DEF q, n
<1>3. DOMAIN q = 1..n /\ \A k \in 1..n : q[k] = Under1(kids[n + 1 - k], path)
  BY <1>2
<1>4. \A k \in 1..n : q[k] \in Range(q)
  BY <1>3 DEF Range
<1>5. q = [k \in 1..n |-> q[k]]
  BY <1>2
<1>6. q \in Seq(Range(q)) /\ Len(q) = n
  BY <1>1, <1>3, <1>4, <1>5
<1> QED BY <1>1, <1>3, <1>6 DEF q, n, IsSeq

\* ... and put at the end of the queue.
LEMMA QueueMore ==
  ASSUME NEW r, IsSeq(r), NEW S, NEW kids \in Seq(S), NEW path
  PROVE  LET w == r \o X!Queue(kids, path)
             m == Len(r)
             n == Len(kids)
         IN /\ m \in Nat /\ n \in Nat /\ IsSeq(w) /\ Len(w) = m + n
            /\ \A q \in 1..m : w[q] = r[q]
            /\ \A k \in 1..n : w[m + k] = Under1(kids[n + 1 - k], path)
<1> DEFINE q1 == X!Queue(kids, path)
           n == Len(kids)
           m == Len(r)
           w == r \o q1
<1>1. n \in Nat /\ m \in Nat
  BY DEF IsSeq
<1>2. q1 \in Seq(Range(q1)) /\ Len(q1) = n /\ \A k \in 1..n : q1[k] = Under1(kids[n + 1 - k], path)
  BY QueueOf
<1>3. IsSeq(q1)
  BY <1>2 DEF IsSeq
<1> HIDE DEF q1
<1>4. /\ IsSeq(w) /\ Len(w) = m + Len(q1) /\ \A q \in 1..m : w[q] = r[q]
      /\ \A k \in 1 .. Len(q1) : w[m + k] = q1[k]
  BY <1>3, ConcatIs
<1> HIDE DEF w, m, n
<1>5. \A k \in 1..n : w[m + k] = Under1(kids[n + 1 - k], path)
  BY <1>2, <1>4
<1> QED BY <1>1, <1>2, <1>4, <1>5 DEF w, q1, m, n

LEMMA XarPush ==
  ASSUME NEW f, XarKept(f), f.damage = "none", NEW k \in Nodes(XarT(f)),
         Kids(f, k) \in Seq(f.elements), NEW r, IsSeq(r), NEW c \in [0 .. Len(r) -> Nat],
         c[0] = Len(f.members), c[Len(r)] = End(XarT(f), k),
         \A q \in 1 .. Len(r) : Queued(f, r[q], c[q], c[q - 1])
  PROVE  XarAt(f, r \o X!Queue(Kids(f, k), PathOf(XarT(f), k)), k)
<1> DEFINE t == XarT(f)
           kids == Kids(f, k)
           path == PathOf(t, k)
           w == r \o X!Queue(kids, path)
           m == Len(r)
           n == Len(kids)
           cuts == Cuts(t, k)
<1>1. /\ m \in Nat /\ n \in Nat /\ IsSeq(w) /\ Len(w) = m + n
      /\ \A q \in 1..m : w[q] = r[q]
      /\ \A i \in 1..n : w[m + i] = Under1(kids[n + 1 - i], path)
  BY QueueMore
<1>2. XarTree(f)
  BY DEF XarKept
<1>3. /\ cuts \in Seq(Nat) /\ Len(cuts) = n + 1 /\ cuts[1] = k /\ cuts[n + 1] = End(t, k)
  BY <1>2 DEF XarTree, Divided, End
<1>4. path \in Seq(STRING)
  <2>1. CASE k = 0
    <3>1. path = <<>>
      BY <2>1 DEF PathOf
    <3> QED BY <3>1
  <2>2. CASE k # 0
    <3>1. k \in DOMAIN f.members
      BY <1>2, <2>2, XarCut DEF Nodes, XarTree, Counted, IsSeq, XarT, Tree
    <3> QED BY <1>2, <2>2, <3>1 DEF PathOf, XarTree, Counted, XarT, Tree
  <2> QED BY <2>1, <2>2
<1>5. ASSUME NEW h \in 1..n
      PROVE  Queued(f, Under1(kids[h], path), cuts[h], cuts[h + 1])
  <2> DEFINE e == kids[h]
  <2>1. e \in f.elements /\ h \in DOMAIN kids
    BY <1>1
  <2>2. IF Unnamed(e) THEN LeftOut(t, k, h)
        ELSE /\ Listed(t, k, h, X!Component(e.names))
             /\ XarIs(f, f.members[Child(t, k, h)], e)
    BY <1>2, <2>1 DEF XarTree
  <2> HIDE DEF e
  <2>3. CASE Unnamed(e)
    <3>1. cuts[h + 1] = cuts[h]
      BY <2>2, <2>3 DEF LeftOut
    <3> QED BY <1>4, <2>1, <2>3, <3>1 DEF Queued, e
  <2>4. CASE ~Unnamed(e)
    <3>1. Listed(t, k, h, X!Component(e.names)) /\ XarIs(f, f.members[Child(t, k, h)], e)
      BY <2>2, <2>4
    <3>2. Child(t, k, h) = cuts[h] + 1 /\ cuts[h] \in Nat
      BY <1>1, <1>3 DEF Child
    <3>3. /\ cuts[h] + 1 <= Len(f.members)
          /\ f.members[cuts[h] + 1].path = Append(path, X!Component(e.names))
          /\ cuts[h + 1] = End(t, cuts[h] + 1)
          /\ XarIs(f, f.members[cuts[h] + 1], e)
      BY <3>1, <3>2 DEF Listed, XarT, Tree
    <3>4. cuts[h] + 1 \in DOMAIN f.members
      BY <1>2, <3>2, <3>3 DEF XarTree, Counted, IsSeq, XarT, Tree
    <3>5. f.members[cuts[h] + 1].is = e
      BY <3>3 DEF XarIs
    <3> QED BY <1>4, <2>1, <2>4, <3>3, <3>4, <3>5 DEF Queued, e
  <2> QED BY <2>3, <2>4
<1> DEFINE d == [q \in 0 .. m + n |-> IF q <= m THEN c[q] ELSE cuts[m + n + 1 - q]]
<1> HIDE DEF t, kids, path, w, n, cuts
<1>6. ASSUME NEW q \in m .. m + n PROVE d[q] = cuts[m + n + 1 - q]
  <2>1. q \in 0 .. m + n
    BY <1>1
  <2>2. CASE q = m
    <3>1. d[q] = c[m] /\ m + n + 1 - q = n + 1
      BY <1>1, <2>1, <2>2
    <3> QED BY <1>3, <3>1 DEF t
  <2>3. CASE q # m
    BY <1>1, <2>1, <2>3
  <2> QED BY <2>2, <2>3
<1>7. d \in [0 .. m + n -> Nat]
  <2> SUFFICES ASSUME NEW q \in 0 .. m + n PROVE (IF q <= m THEN c[q] ELSE cuts[m + n + 1 - q]) \in Nat
    OBVIOUS
  <2>1. CASE q <= m
    BY <1>1, <2>1
  <2>2. CASE ~(q <= m)
    <3>1. m + n + 1 - q \in 1 .. n + 1
      BY <1>1, <2>2
    <3> QED BY <1>3, <2>2, <3>1
  <2> QED BY <2>1, <2>2
<1>8. d[0] = Len(f.members) /\ d[Len(w)] = k
  <2>1. d[0] = c[0]
    BY <1>1
  <2>2. d[m + n] = cuts[1]
    <3> HIDE DEF d, m
    <3>1. m + n \in m .. m + n /\ m + n + 1 - (m + n) = 1
      BY <1>1
    <3> QED BY <1>6, <3>1
  <2> QED BY <1>1, <1>3, <2>1, <2>2
<1>9. ASSUME NEW q \in 1 .. m + n PROVE Queued(f, w[q], d[q], d[q - 1])
  <2>1. CASE q <= m
    <3>1. q \in 1..m /\ q - 1 \in 0..m /\ q \in 0 .. m + n /\ q - 1 \in 0 .. m + n
      BY <1>1, <2>1
    <3>2. d[q] = c[q] /\ d[q - 1] = c[q - 1] /\ w[q] = r[q]
      BY <1>1, <3>1
    <3> QED BY <3>1, <3>2
  <2>2. CASE ~(q <= m)
    <3> DEFINE h == m + n + 1 - q
    <3>1. h \in 1..n /\ q - m \in 1..n /\ q = m + (q - m) /\ n + 1 - (q - m) = h
          /\ q \in m .. m + n /\ q - 1 \in m .. m + n /\ m + n + 1 - (q - 1) = h + 1
      BY <1>1, <2>2
    <3>2. w[q] = Under1(kids[h], path)
      BY <1>1, <3>1
    <3>3. d[q] = cuts[h] /\ d[q - 1] = cuts[h + 1]
      BY <1>6, <3>1
    <3> QED BY <1>5, <3>1, <3>2, <3>3
  <2> QED BY <2>1, <2>2
<1> HIDE DEF d, m
<1>10. XarAt(f, w, k)
  BY <1>1, <1>7, <1>8, <1>9 DEF XarAt
<1> QED BY <1>10 DEF w, path, t, kids

----------------------------------------------------------------------------
LEMMA XarInits == ASSUME X!Init PROVE XarInv
<1>1. WrittenXar(file) /\ listing = <<>> /\ status = "new" /\ answers = <<>>
  BY TreesAssumption DEF X!Init
<1>2. XarKept(file)
  BY <1>1 DEF WrittenXar, XarKept, XarShape
<1> QED BY <1>1, <1>2 DEF XarInv, XarKept

LEMMA XarRefuses ==
  ASSUME XarInv, status # "open", NEW error \in {"Unsupported", "Corrupt"}, X!Refuse(error),
         file.damage # "none"
  PROVE  XarInv'
BY DEF XarInv, X!Refuse

LEMMA XarStart ==
  ASSUME XarInv, X!Start
  PROVE  XarInv'
<1>1. /\ status = "new" /\ status' = "walking" /\ walk' = X!Queue(file.toc, <<>>)
      /\ file' = file /\ listing' = listing /\ answers' = answers
      /\ XarOpens(file)
  BY DEF X!Start, XarOpens
<1>2. WrittenXar(file) /\ listing = <<>> /\ answers = <<>> /\ XarKept(file)
  BY <1>1 DEF XarInv
<1>3. file.toc \in Seq(file.elements)
  BY <1>2 DEF XarKept
<1> DEFINE q == X!Queue(file.toc, <<>>)
           n == Len(file.toc)
<1>4. IsSeq(<<>>) /\ Len(<<>>) = 0
  BY DEF IsSeq
<1>5. /\ n \in Nat /\ IsSeq(q) /\ q \in Seq(Range(q)) /\ Len(q) = n
      /\ \A k \in 1..n : q[k] = Under1(file.toc[n + 1 - k], <<>>)
  BY <1>3, QueueOf
<1>6. <<>> \o q = q
  <2> HIDE DEF q
  <2> QED BY <1>5
<1>7. CASE file.damage = "none"
  <2>1. XarTree(file)
    BY <1>2, <1>7 DEF XarKept
  <2>2. Cut(XarT(file)) /\ Len(file.members) \in Nat
    BY <2>1, XarCut
  <2>3. 0 \in Nodes(XarT(file)) /\ Kids(file, 0) = file.toc /\ PathOf(XarT(file), 0) = <<>>
    BY <2>2 DEF Nodes, XarT, Tree, Kids, PathOf
  <2>4. End(XarT(file), 0) = Len(file.members)
    BY <2>1 DEF XarTree, Counted, XarT, Tree
  <2> DEFINE c == [x \in 0..0 |-> Len(file.members)]
  <2>5. c \in [0 .. Len(<<>>) -> Nat] /\ c[0] = Len(file.members) /\ c[Len(<<>>)] = Len(file.members)
    BY <1>4, <2>2
  <2> HIDE DEF c
  <2>6. XarAt(file, <<>> \o X!Queue(Kids(file, 0), PathOf(XarT(file), 0)), 0)
    <3> DEFINE none == <<>>
    <3>1. /\ IsSeq(none) /\ c \in [0 .. Len(none) -> Nat] /\ c[0] = Len(file.members)
          /\ c[Len(none)] = Len(file.members)
          /\ \A x \in 1 .. Len(none) : Queued(file, none[x], c[x], c[x - 1])
      BY <1>4, <2>5
    <3> HIDE DEF none
    <3>2. XarAt(file, none \o X!Queue(Kids(file, 0), PathOf(XarT(file), 0)), 0)
      BY <1>2, <1>3, <1>7, <2>3, <2>4, <3>1, XarPush
    <3> QED BY <3>2 DEF none
  <2>7. XarAt(file, q, 0)
    BY <1>6, <2>3, <2>6
  <2>8. XarListed(file, <<>>)
    BY <1>4, <2>2 DEF XarListed
  <2> HIDE DEF q
  <2> QED BY <1>1, <1>2, <1>4, <1>7, <2>7, <2>8 DEF XarInv, q
<1>8. CASE file.damage # "none"
  <2>1. XarFault(file) /\ file.damage = "told"
    BY <1>1, <1>2, <1>8 DEF WrittenXar
  <2>2. PICK h \in 1..n : file.fault[1] = file.toc[h]
    BY <1>3, <2>1 DEF XarFault, Range
  <2>3. n + 1 - h \in 1..n /\ n + 1 - (n + 1 - h) = h
    BY <1>5
  <2> HIDE DEF n
  <2>4. /\ IsSeq(q) /\ Len(q) = n
        /\ \A k \in 1..n : q[k] = Under1(file.toc[n + 1 - k], <<>>)
    BY <1>5 DEF n
  <2>5. q[n + 1 - h] = Under1(file.fault[1], <<>>)
    BY <2>2, <2>3, <2>4
  <2>6. 1 \in DOMAIN file.fault
    BY <2>1 DEF XarFault
  <2>7. \A k \in 1 .. n : \E e \in file.elements : \E path : q[k] = Under1(e, path)
    <3> TAKE k \in 1..n
    <3>1. n + 1 - k \in 1..n
      BY <1>5
    <3>2. file.toc[n + 1 - k] \in file.elements
      BY <1>3, <3>1 DEF n
    <3> QED BY <2>4, <3>2
  <2> HIDE DEF q
  <2>8. XarLost(file, q)
    BY <2>1, <2>3, <2>4, <2>5, <2>6, <2>7 DEF XarLost
  <2> QED BY <1>1, <1>2, <1>8, <2>8 DEF XarInv, q
<1> QED BY <1>7, <1>8

LEMMA XarTop ==
  ASSUME NEW f, NEW w, NEW n, XarAt(f, w, n), w # <<>>
  PROVE  LET r == SubSeq(w, 1, Len(w) - 1)
         IN /\ IsSeq(r)
            /\ \E c \in [0 .. Len(r) -> Nat] :
                 /\ c[0] = Len(f.members)
                 /\ \A q \in 1 .. Len(r) : Queued(f, r[q], c[q], c[q - 1])
                 /\ Queued(f, w[Len(w)], n, c[Len(r)])
<1> DEFINE r == SubSeq(w, 1, Len(w) - 1)
           L == Len(w)
<1>1. IsSeq(w)
  BY DEF XarAt
<1>2. /\ L \in Nat \ {0} /\ IsSeq(r) /\ Len(r) = L - 1 /\ \A q \in 1 .. L - 1 : r[q] = w[q]
  BY <1>1, WithoutLast
<1> HIDE DEF r
<1>3. PICK c \in [0 .. L -> Nat] :
        /\ c[0] = Len(f.members) /\ c[L] = n
        /\ \A q \in 1 .. L : Queued(f, w[q], c[q], c[q - 1])
  BY DEF XarAt
<1> DEFINE d == [q \in 0 .. L - 1 |-> c[q]]
<1> HIDE DEF L
<1>4. d \in [0 .. L - 1 -> Nat] /\ \A q \in 0 .. L - 1 : d[q] = c[q]
  BY <1>2, <1>3
<1> HIDE DEF d
<1>5. d[0] = Len(f.members) /\ d[L - 1] = c[L - 1] /\ Queued(f, w[L], n, c[L - 1])
  BY <1>2, <1>3, <1>4
<1>6. ASSUME NEW q \in 1 .. L - 1 PROVE Queued(f, r[q], d[q], d[q - 1])
  <2>1. q \in 1..L /\ q \in 0 .. L - 1 /\ q - 1 \in 0 .. L - 1
    BY <1>2
  <2> QED BY <1>2, <1>3, <1>4, <2>1
<1>7. /\ d \in [0 .. Len(r) -> Nat] /\ d[0] = Len(f.members)
      /\ \A q \in 1 .. Len(r) : Queued(f, r[q], d[q], d[q - 1])
      /\ Queued(f, w[L], n, d[Len(r)])
  BY <1>2, <1>4, <1>5, <1>6
<1> QED BY <1>2, <1>7 DEF r, L

LEMMA XarListsMore ==
  ASSUME NEW f, NEW l, XarListed(f, l), XarKept(f), f.damage = "none", NEW e \in f.elements,
         Len(l) + 1 \in DOMAIN f.members, XarIs(f, f.members[Len(l) + 1], e)
  PROVE  LET more == Append(l, XarEntry(f.members[Len(l) + 1].path, e))
         IN XarListed(f, more) /\ Len(more) = Len(l) + 1
<1> DEFINE n == Len(l)
           x == XarEntry(f.members[n + 1].path, e)
           more == Append(l, x)
<1>1. IsSeq(l)
  BY DEF XarListed
<1>2. /\ n \in Nat /\ IsSeq(more) /\ Len(more) = n + 1 /\ more[n + 1] = x
      /\ \A i \in 1..n : more[i] = l[i]
  BY <1>1, AppendIsSeq
<1>3. XarStands(f, x, f.members[n + 1], e)
  <2>1. Counted(XarT(f)) /\ XarElement(f, e)
    BY DEF XarKept, XarTree
  <2>2. f.members[n + 1].content \in Seq(Nat)
    BY <2>1 DEF Counted, XarT, Tree
  <2> QED BY <2>1, <2>2 DEF XarElement, XarStands
<1> HIDE DEF more, x
<1>4. \A i \in 1..n : \E d : XarStands(f, l[i], f.members[i], d)
  BY <1>1 DEF XarListed, IsSeq
<1>5. n + 1 <= Len(f.members)
  <2>1. f.members \in Seq(Range(f.members))
    BY DEF XarKept, XarTree, Counted, IsSeq, XarT, Tree
  <2> QED BY <2>1
<1> HIDE DEF n
<1>6. DOMAIN more = 1 .. n + 1
  BY <1>2 DEF IsSeq
<1>7. ASSUME NEW i \in 1 .. n + 1 PROVE \E d : XarStands(f, more[i], f.members[i], d)
  <2>1. CASE i = n + 1
    BY <1>2, <1>3, <2>1
  <2>2. CASE i # n + 1
    <3>1. i \in 1..n
      BY <1>2, <2>2
    <3> QED BY <1>2, <1>4, <3>1
  <2> QED BY <2>1, <2>2
<1>8. XarListed(f, more)
  BY <1>2, <1>5, <1>6, <1>7 DEF XarListed
<1> QED BY <1>2, <1>8 DEF more, x, n

LEMMA XarWalks == ASSUME XarInv, status = "walking", walk # <<>>
  PROVE  /\ XarKept(file) /\ answers = <<>>
         /\ file.damage = "none" => XarListed(file, listing) /\ XarAt(file, walk, Len(listing))
         /\ file.damage # "none" => XarLost(file, walk)
         /\ IsSeq(walk) /\ Len(walk) \in Nat \ {0} /\ IsSeq(X!Rest) /\ Len(X!Rest) = Len(walk) - 1
         /\ \A q \in 1 .. Len(walk) - 1 : X!Rest[q] = walk[q]
<1>1. /\ XarKept(file) /\ answers = <<>>
      /\ file.damage = "none" => XarListed(file, listing) /\ XarAt(file, walk, Len(listing))
      /\ file.damage # "none" => XarLost(file, walk)
  BY DEF XarInv
<1>2. IsSeq(walk)
  BY <1>1 DEF XarAt, XarLost
<1>3. /\ Len(walk) \in Nat \ {0} /\ IsSeq(X!Rest) /\ Len(X!Rest) = Len(walk) - 1
      /\ \A q \in 1 .. Len(walk) - 1 : X!Rest[q] = walk[q]
  BY <1>2, WithoutLast DEF X!Rest
<1> QED BY <1>1, <1>2, <1>3

LEMMA XarSkip == ASSUME XarInv, X!Skip PROVE XarInv'
<1>1. /\ status = "walking" /\ walk # <<>> /\ X!Skipped /\ walk' = X!Rest
      /\ file' = file /\ listing' = listing /\ status' = status /\ answers' = answers
  BY DEF X!Skip
<1>2. /\ XarKept(file) /\ answers = <<>>
      /\ file.damage = "none" => XarListed(file, listing) /\ XarAt(file, walk, Len(listing))
      /\ file.damage # "none" => XarLost(file, walk)
      /\ IsSeq(walk) /\ Len(walk) \in Nat \ {0} /\ IsSeq(X!Rest) /\ Len(X!Rest) = Len(walk) - 1
      /\ \A q \in 1 .. Len(walk) - 1 : X!Rest[q] = walk[q]
  BY <1>1, XarWalks
<1>3. CASE file.damage = "none"
  <2> DEFINE r == X!Rest
             n == Len(listing)
  <2>1. PICK c \in [0 .. Len(r) -> Nat] :
          /\ c[0] = Len(file.members)
          /\ \A q \in 1 .. Len(r) : Queued(file, r[q], c[q], c[q - 1])
          /\ Queued(file, walk[Len(walk)], n, c[Len(r)])
    BY <1>1, <1>2, <1>3, XarTop DEF X!Rest
  <2>2. c[Len(r)] = n
    BY <1>1, <1>2, <2>1, XarAtHand DEF Queued
  <2> HIDE DEF r
  <2>3. XarAt(file, r, n)
    BY <1>2, <2>1, <2>2 DEF XarAt, r
  <2> QED BY <1>1, <1>2, <1>3, <2>3 DEF XarInv, r
<1>4. CASE file.damage # "none"
  <2>1. XarLost(file, walk)
    BY <1>2, <1>4
  <2>2. PICK q \in 1 .. Len(walk), j \in DOMAIN file.fault : \E z : walk[q] = Under1(file.fault[j], z)
    BY <2>1 DEF XarLost
  <2>2a. PICK path : walk[q] = Under1(file.fault[j], path)
    BY <2>2
  <2>3. XarFault(file) /\ file.fault[j] \in file.elements /\ ~Unnamed(file.fault[j])
    BY <2>1 DEF XarLost, XarFault
  <2>4. q # Len(walk)
    BY <1>1, <1>2, <2>2a, <2>3, XarAtHand
  <2>5. q \in 1 .. Len(walk) - 1
    BY <1>2, <2>4
  <2>6. ASSUME NEW x \in 1 .. Len(walk) - 1
        PROVE  \E e \in file.elements : \E z : X!Rest[x] = Under1(e, z)
    <3>1. x \in 1 .. Len(walk)
      BY <1>2
    <3> QED BY <1>2, <2>1, <3>1 DEF XarLost
  <2>7. XarLost(file, X!Rest)
    <3>1. X!Rest[q] = Under1(file.fault[j], path) /\ q \in 1 .. Len(X!Rest)
      BY <1>2, <2>2a, <2>5
    <3> QED BY <1>2, <2>3, <2>6, <3>1 DEF XarLost
  <2> QED BY <1>1, <1>2, <1>4, <2>7 DEF XarInv
<1> QED BY <1>3, <1>4

LEMMA XarRefuseStyle == ASSUME XarInv, X!RefuseStyle PROVE XarInv'
<1>1. /\ status = "walking" /\ walk # <<>> /\ ~X!Skipped /\ ~X!Known /\ X!Refuse("Unsupported")
  BY DEF X!RefuseStyle
<1>2. /\ XarKept(file)
      /\ file.damage = "none" => XarListed(file, listing) /\ XarAt(file, walk, Len(listing))
  BY <1>1, XarWalks
<1>3. ASSUME file.damage = "none" PROVE FALSE
  <2>1. PICK to : Queued(file, walk[Len(walk)], Len(listing), to)
    BY <1>1, <1>2, <1>3, XarTop
  <2>2. PICK e \in file.elements, path \in Seq(STRING) :
          /\ walk[Len(walk)] = Under1(e, path)
          /\ ~Unnamed(e) => XarIs(file, file.members[Len(listing) + 1], e)
    BY <2>1 DEF Queued
  <2> QED BY <1>1, <1>2, <2>2, XarAtHand DEF XarIs
<1> QED BY <1>1, <1>3, XarRefuses

LEMMA XarCollect == ASSUME XarInv, X!Collect PROVE XarInv'
<1>1. /\ status = "walking" /\ walk # <<>> /\ ~X!Skipped /\ X!Known
      /\ listing' = Append(listing, X!EntryAtHand)
      /\ walk' = X!Rest \o X!Queue(X!Node.kids, X!PathAtHand)
      /\ file' = file /\ status' = status /\ answers' = answers
  BY DEF X!Collect
<1>2. /\ XarKept(file) /\ answers = <<>>
      /\ file.damage = "none" => XarListed(file, listing) /\ XarAt(file, walk, Len(listing))
      /\ file.damage # "none" => XarLost(file, walk)
      /\ IsSeq(walk) /\ Len(walk) \in Nat \ {0} /\ IsSeq(X!Rest) /\ Len(X!Rest) = Len(walk) - 1
      /\ \A q \in 1 .. Len(walk) - 1 : X!Rest[q] = walk[q]
  BY <1>1, XarWalks
<1>3. CASE file.damage = "none"
  <2> DEFINE r == X!Rest
             n == Len(listing)
  <2>1. PICK c \in [0 .. Len(r) -> Nat] :
          /\ c[0] = Len(file.members)
          /\ \A q \in 1 .. Len(r) : Queued(file, r[q], c[q], c[q - 1])
          /\ Queued(file, walk[Len(walk)], n, c[Len(r)])
    BY <1>1, <1>2, <1>3, XarTop DEF X!Rest
  <2>2. PICK e \in file.elements, path \in Seq(STRING) :
          /\ walk[Len(walk)] = Under1(e, path)
          /\ IF Unnamed(e) THEN c[Len(r)] = n
             ELSE /\ n + 1 \in DOMAIN file.members
                  /\ file.members[n + 1].path = Append(path, X!Component(e.names))
                  /\ XarIs(file, file.members[n + 1], e)
                  /\ file.members[n + 1].is = e
                  /\ c[Len(r)] = End(XarT(file), n + 1)
    BY <2>1 DEF Queued
  <2>3. /\ ~Unnamed(e) /\ X!Node.kids = e.kids
        /\ X!PathAtHand = Append(path, X!Component(e.names))
        /\ X!EntryAtHand = XarEntry(X!PathAtHand, e)
    BY <1>1, <1>2, <2>2, XarAtHand
  <2>4. /\ n + 1 \in DOMAIN file.members
        /\ file.members[n + 1].path = X!PathAtHand
        /\ XarIs(file, file.members[n + 1], e)
        /\ file.members[n + 1].is = e
        /\ c[Len(r)] = End(XarT(file), n + 1)
    BY <2>2, <2>3
  <2>5. XarTree(file) /\ Len(file.members) \in Nat /\ n \in Nat
    BY <1>2, <1>3, XarCut DEF XarKept, XarListed, IsSeq
  <2>6. n + 1 \in Nodes(XarT(file)) /\ n + 1 # 0
    BY <2>4, <2>5 DEF Nodes, XarT, Tree, XarTree, Counted, IsSeq
  <2>7. Kids(file, n + 1) = e.kids /\ PathOf(XarT(file), n + 1) = X!PathAtHand
    BY <2>4, <2>6 DEF Kids, PathOf, XarT, Tree
  <2>8. Kids(file, n + 1) \in Seq(file.elements)
    BY <1>2, <2>7 DEF XarKept, XarElement
  <2> HIDE DEF r, n
  <2>9. XarAt(file, r \o X!Queue(Kids(file, n + 1), PathOf(XarT(file), n + 1)), n + 1)
    BY <1>2, <1>3, <2>1, <2>4, <2>6, <2>8, XarPush DEF r
  <2>10. XarAt(file, walk', n + 1)
    BY <1>1, <2>3, <2>7, <2>9 DEF r
  <2>11. XarListed(file, listing') /\ Len(listing') = n + 1
    <3> DEFINE x == XarEntry(file.members[Len(listing) + 1].path, e)
    <3>1. Len(listing) + 1 \in DOMAIN file.members /\ XarIs(file, file.members[Len(listing) + 1], e)
      BY <2>4 DEF n
    <3>2. XarListed(file, listing)
      BY <1>2, <1>3
    <3>3. XarListed(file, Append(listing, x)) /\ Len(Append(listing, x)) = Len(listing) + 1
      BY <1>2, <1>3, <3>1, <3>2, XarListsMore
    <3>4. X!EntryAtHand = x
      BY <2>3, <2>4 DEF n
    <3> HIDE DEF x
    <3> QED BY <1>1, <3>3, <3>4 DEF n
  <2> QED BY <1>1, <1>2, <1>3, <2>10, <2>11 DEF XarInv
<1>4. CASE file.damage # "none"
  <2>1. XarLost(file, walk)
    BY <1>2, <1>4
  <2>2. PICK e \in file.elements : \E z : walk[Len(walk)] = Under1(e, z)
    BY <1>2, <2>1 DEF XarLost
  <2>2a. PICK p : walk[Len(walk)] = Under1(e, p)
    BY <2>2
  <2>3. X!Node.kids = e.kids /\ e.kids \in Seq(file.elements)
    BY <1>2, <2>2a, XarAtHand DEF XarKept, XarElement
  <2> DEFINE kids == X!Node.kids
             n == Len(kids)
             m == Len(X!Rest)
  <2>4. /\ m \in Nat /\ n \in Nat /\ IsSeq(walk') /\ Len(walk') = m + n
        /\ \A q \in 1..m : walk'[q] = X!Rest[q]
        /\ \A k \in 1..n : walk'[m + k] = Under1(kids[n + 1 - k], X!PathAtHand)
    <3> DEFINE r == X!Rest
               below == X!Node.kids
               path == X!PathAtHand
    <3>1. IsSeq(r) /\ below \in Seq(file.elements) /\ walk' = r \o X!Queue(below, path)
      BY <1>1, <1>2, <2>3
    <3> HIDE DEF r, below, path
    <3>2. /\ Len(r) \in Nat /\ Len(below) \in Nat /\ IsSeq(walk') /\ Len(walk') = Len(r) + Len(below)
          /\ \A q \in 1..Len(r) : walk'[q] = r[q]
          /\ \A k \in 1..Len(below) : walk'[Len(r) + k] = Under1(below[Len(below) + 1 - k], path)
      BY <3>1, QueueMore
    <3> QED BY <3>2 DEF r, below, path
  <2>5. m = Len(walk) - 1 /\ \A k \in 1..n : kids[k] \in file.elements
    BY <1>2, <2>3
  <2>6. PICK q \in 1 .. Len(walk), j \in DOMAIN file.fault : \E z : walk[q] = Under1(file.fault[j], z)
    BY <2>1 DEF XarLost
  <2>6a. PICK path : walk[q] = Under1(file.fault[j], path)
    BY <2>6
  <2>7. XarFault(file) /\ file.fault[j] \in file.elements
    BY <2>1 DEF XarLost, XarFault
  <2>8. q = Len(walk) => \E k \in 1..n : kids[k] = file.fault[j + 1] /\ j + 1 \in DOMAIN file.fault
    <3> SUFFICES ASSUME q = Len(walk)
                 PROVE  \E k \in 1..n : kids[k] = file.fault[j + 1] /\ j + 1 \in DOMAIN file.fault
      OBVIOUS
    <3>1. /\ kids = file.fault[j].kids
          /\ Bodied(file.fault[j]) => file.fault[j].data.style \in X!Stored \union X!Packed
      BY <1>1, <1>2, <2>6a, <2>7, XarAtHand
    <3>2. j # Len(file.fault)
      BY <2>7, <3>1 DEF XarFault
    <3>3. j \in 1 .. Len(file.fault) - 1 /\ j + 1 \in DOMAIN file.fault
      BY <2>7, <3>2 DEF XarFault
    <3>4. file.fault[j + 1] \in Range(kids)
      BY <2>7, <3>1, <3>3 DEF XarFault
    <3>5. DOMAIN kids = 1..n
      BY <2>3
    <3> HIDE DEF kids, n
    <3> QED BY <3>3, <3>4, <3>5 DEF Range
  <2> HIDE DEF kids, n, m
  <2>9. \E x \in 1 .. m + n, y \in DOMAIN file.fault : \E z : walk'[x] = Under1(file.fault[y], z)
    <3>1. CASE q = Len(walk)
      <4>1. PICK k \in 1..n : kids[k] = file.fault[j + 1] /\ j + 1 \in DOMAIN file.fault
        BY <2>8, <3>1
      <4>2. n + 1 - k \in 1..n /\ n + 1 - (n + 1 - k) = k /\ m + (n + 1 - k) \in 1 .. m + n
        BY <2>4
      <4>3. walk'[m + (n + 1 - k)] = Under1(file.fault[j + 1], X!PathAtHand)
        BY <2>4, <4>1, <4>2
      <4> QED BY <4>1, <4>2, <4>3
    <3>2. CASE q # Len(walk)
      <4>1. q \in 1 .. m /\ q \in 1 .. m + n
        BY <1>2, <2>4, <2>5, <3>2
      <4>2. walk'[q] = walk[q]
        BY <1>2, <2>4, <2>5, <4>1
      <4> QED BY <2>6a, <4>1, <4>2
    <3> QED BY <3>1, <3>2
  <2>10. ASSUME NEW x \in 1 .. m + n PROVE \E d \in file.elements : \E z : walk'[x] = Under1(d, z)
    <3>1. CASE x \in 1..m
      <4>1. x \in 1 .. Len(walk) /\ walk'[x] = walk[x]
        BY <1>2, <2>4, <2>5, <3>1
      <4> QED BY <2>1, <4>1 DEF XarLost
    <3>2. CASE x \notin 1..m
      <4>1. x - m \in 1..n /\ m + (x - m) = x /\ n + 1 - (x - m) \in 1..n
        BY <2>4, <3>2
      <4> QED BY <2>4, <2>5, <4>1
    <3> QED BY <3>1, <3>2
  <2> HIDE DEF XarFault
  <2>11. XarLost(file, walk')
    BY <2>4, <2>7, <2>9, <2>10 DEF XarLost
  <2> QED BY <1>1, <1>2, <1>4, <2>11 DEF XarInv
<1> QED BY <1>3, <1>4

LEMMA XarFinish == ASSUME XarInv, X!Finish PROVE XarInv'
<1>1. /\ status = "walking" /\ walk = <<>> /\ status' = "open"
      /\ answers' = [i \in DOMAIN listing |-> X!NotRead]
      /\ file' = file /\ listing' = listing
  BY DEF X!Finish
<1>2. XarKept(file) /\ Len(walk) = 0
  BY <1>1 DEF XarInv
<1>3. file.damage = "none"
  BY <1>1, <1>2 DEF XarInv, XarLost
<1>4. XarListed(file, listing) /\ XarAt(file, walk, Len(listing))
  BY <1>1, <1>3 DEF XarInv
<1>5. Len(listing) = Len(file.members)
  BY <1>2, <1>4 DEF XarAt
<1>6. X!NotRead.said # "ok"
  BY DEF X!NotRead, X!Answer
<1>7. DOMAIN answers' = DOMAIN listing /\ \A i \in DOMAIN listing : answers'[i].said # "ok"
  BY <1>1, <1>6
<1> QED BY <1>1, <1>2, <1>3, <1>4, <1>5, <1>7 DEF XarInv, XarKept

\* What Unpack makes of a prefix of a packed body.
LEMMA Unpacks ==
  ASSUME NEW content \in Seq(Nat), NEW in, NEW n \in Nat, n <= Len(content) + 1,
         in = [k \in 1..n |-> (<<Len(content)>> \o content)[k]],
         X!Unpack(in).said = "ok"
  PROVE  X!Unpack(in).given = content
<1> DEFINE b == <<Len(content)>> \o content
           l == Len(content)
<1>1. /\ b \in Seq(Nat) /\ Len(b) = l + 1 /\ b[1] = l /\ SubSeq(b, 2, b[1] + 1) = content
      /\ l \in Nat
  BY PackedBody
<1> HIDE DEF b
<1>2. in = [k \in 1..n |-> b[k]]
  BY DEF b
<1>3. in \in Seq(Nat) /\ Len(in) = n
  <2>1. \A k \in 1..n : b[k] \in Nat
    BY <1>1
  <2> QED BY <1>2, <2>1
<1>4. in # <<>> /\ ~(Len(in) <= in[1])
  BY DEF X!Unpack, X!Answer
<1>5. n > 0 /\ in[1] = l
  <2>1. n # 0
    BY <1>3, <1>4
  <2> QED BY <1>1, <1>2, <2>1
<1>6. n = l + 1
  BY <1>1, <1>3, <1>4, <1>5
<1>7. in = b
  <2> HIDE DEF l
  <2>1. b = [k \in 1 .. l + 1 |-> b[k]]
    BY <1>1
  <2> QED BY <1>2, <1>6, <2>1
<1>8. X!Unpack(in).given = SubSeq(b, 2, b[1] + 1)
  BY <1>4, <1>7 DEF X!Unpack, X!Answer
<1> QED BY <1>1, <1>8

LEMMA XarGives ==
  ASSUME NEW e, NEW i, NEW m, XarShape(file), XarStands(file, listing[i], m, e), m.kind = "file",
         ~LeftToTheHeap(i), X!ReadBody(listing[i]).said = "ok"
  PROVE  X!ReadBody(listing[i]).given = m.content
<1>1. /\ listing[i].item = (IF Bodied(e) THEN <<e.data>> ELSE <<>>)
      /\ XarIs(file, m, e) /\ XarKind(e) = "file" /\ m.content \in Seq(Nat)
      /\ e.hasData => e.data.offset \in Nat /\ e.data.length \in Nat
  BY DEF XarStands, XarEntry, XarIs
<1>2. CASE ~Bodied(e)
  <2>1. ~e.hasData
    BY <1>1, <1>2 DEF Bodied, XarKind
  <2>2. m.content = <<>> /\ listing[i].item = <<>>
    BY <1>1, <1>2, <2>1 DEF XarIs
  <2> QED BY <2>2 DEF X!ReadBody, X!Answer
<1>3. CASE Bodied(e)
  <2> DEFINE d == e.data
             at == file.headerLen + file.tocLen + d.offset
             n == Reach(file, at, d.length)
  <2>1. /\ d.offset \in Nat /\ d.length \in Nat /\ at \in Nat /\ file.len \in Nat
        /\ file.headerLen \in Nat /\ file.tocLen \in Nat
    BY <1>1, <1>3 DEF XarShape, Bodied
  <2>2. listing[i].item # <<>> /\ listing[i].item[1] = d
    BY <1>1, <1>3
  <2>3. /\ d.style \in X!Stored \union X!Packed
        /\ StoredAs(Bytes(file, at, d.length), d.style \in X!Packed, m.content)
    BY <1>1, <1>3 DEF XarIs
  <2>4. X!Raw(d) = Bytes(file, at, n)
    BY <2>1 DEF X!Raw, X!HeapAt, X!Bytes, X!ByteAt, X!Reach, Bytes, ByteAt, Reach
  <2>5. n \in Nat /\ n <= d.length /\ (at + d.length <= file.len => n = d.length)
    BY <2>1 DEF Reach
  <2>6. CASE d.style \in X!Stored
    <3>1. X!HeapAt = file.headerLen + file.tocLen /\ file.format = "xar"
      BY DEF X!HeapAt, XarShape
    <3>2. at + d.length <= file.len
      BY <2>1, <2>2, <2>6, <3>1 DEF LeftToTheHeap
    <3>3. d.style \notin X!Packed
      BY <2>6 DEF X!Stored, X!Packed
    <3>4. Bytes(file, at, d.length) = m.content
      BY <2>3, <3>3 DEF StoredAs
    <3>5. X!Raw(d) = m.content
      BY <2>4, <2>5, <3>2, <3>4
    <3>6. X!ReadBody(listing[i]).given = X!Raw(d)
      BY <2>2, <2>6 DEF X!ReadBody, X!Answer
    <3> QED BY <3>5, <3>6
  <2>7. CASE d.style \notin X!Stored
    <3> DEFINE b == <<Len(m.content)>> \o m.content
    <3>1. Bytes(file, at, d.length) = b
      BY <2>3, <2>7 DEF StoredAs
    <3>2. b \in Seq(Nat) /\ Len(b) = Len(m.content) + 1
      BY <1>1, PackedBody
    <3> HIDE DEF b, at, n
    <3>3. DOMAIN b = 1 .. d.length /\ \A k \in 1 .. d.length : b[k] = ByteAt(file, at + k - 1)
      BY <3>1 DEF Bytes
    <3>4. d.length = Len(m.content) + 1
      BY <1>1, <2>1, <3>2, <3>3
    <3>5. X!Raw(d) = [k \in 1..n |-> b[k]]
      <4>1. \A k \in 1..n : k \in 1 .. d.length
        BY <2>1, <2>5
      <4> QED BY <2>4, <3>3, <4>1 DEF Bytes
    <3>6. X!ReadBody(listing[i]) = X!Unpack(X!Raw(d))
      BY <2>2, <2>7 DEF X!ReadBody
    <3> QED BY <1>1, <2>5, <3>4, <3>5, <3>6, Unpacks DEF b
  <2> QED BY <2>6, <2>7
<1> QED BY <1>2, <1>3

LEMMA XarReads == ASSUME XarInv, NEW i \in DOMAIN listing, X!ReadEntry(i) PROVE XarInv'
<1>1. /\ status = "open" /\ status' = status /\ listing' = listing /\ file' = file
      /\ answers' = [answers EXCEPT ![i] = X!ReadBody(listing[i])]
  BY DEF X!ReadEntry
<1>2. /\ XarShape(file) /\ file.damage = "none" /\ XarListed(file, listing)
      /\ Len(listing) = Len(file.members) /\ DOMAIN answers = DOMAIN listing
  BY <1>1 DEF XarInv
<1>3. PICK e : XarStands(file, listing[i], file.members[i], e)
  BY <1>2 DEF XarListed
<1>4. listing[i].kind = file.members[i].kind
  BY <1>3 DEF XarStands, XarIs, XarEntry
<1>5. X!ReadBody(listing[i]).said = "ok" /\ listing[i].kind = "file" /\ ~LeftToTheHeap(i) =>
        X!ReadBody(listing[i]).given = file.members[i].content
  BY <1>2, <1>3, <1>4, XarGives
<1>6. \A k : LeftToTheHeap(k)' <=> LeftToTheHeap(k)
  BY <1>1 DEF LeftToTheHeap, X!HeapAt
<1>7. DOMAIN answers' = DOMAIN listing
  BY <1>1, <1>2
<1>8. ASSUME NEW k \in DOMAIN listing
      PROVE  answers'[k].said = "ok" /\ listing[k].kind = "file" /\ ~LeftToTheHeap(k) =>
               answers'[k].given = file.members[k].content
  <2>1. CASE k = i
    BY <1>1, <1>2, <1>5, <2>1
  <2>2. CASE k # i
    BY <1>1, <1>2, <2>2 DEF XarInv
  <2> QED BY <2>1, <2>2
<1> QED BY <1>1, <1>2, <1>6, <1>7, <1>8 DEF XarInv

LEMMA XarShrinks == ASSUME XarInv, X!Shrink PROVE XarInv'
<1>1. PICK n \in TreeCuts : n <= file.len /\ file' = [file EXCEPT !.len = @ - n, !.shrunk = TRUE]
  BY DEF X!Shrink
<1>2. status = "open" /\ walk' = walk /\ listing' = listing /\ status' = status /\ answers' = answers
  BY DEF X!Shrink
<1>3. /\ XarShape(file) /\ file.damage = "none" /\ XarListed(file, listing)
      /\ Len(listing) = Len(file.members) /\ DOMAIN answers = DOMAIN listing
  BY <1>2 DEF XarInv
<1>4. n \in Nat
  BY TreesAssumption
<1>5. /\ file'.format = file.format /\ file'.members = file.members /\ file'.damage = file.damage
      /\ file'.byte = file.byte /\ file'.headerLen = file.headerLen /\ file'.tocLen = file.tocLen
      /\ file'.len = file.len - n /\ DOMAIN file' = DOMAIN file
      /\ file' = [x \in DOMAIN file |-> file'[x]]
  BY <1>1, <1>3 DEF XarShape, HasFields
<1>6. XarShape(file')
  BY <1>1, <1>3, <1>4, <1>5 DEF XarShape, HasFields
<1>7. ASSUME NEW m, NEW e, XarIs(file, m, e) PROVE XarIs(file', m, e)
  <2>1. \A p, k : Bytes(file', p, k) = Bytes(file, p, k)
    BY <1>5 DEF Bytes, ByteAt
  <2> QED BY <1>5, <1>7, <2>1 DEF XarIs
<1>8. XarListed(file', listing)
  <2> SUFFICES ASSUME NEW i \in DOMAIN listing
               PROVE  \E e : XarStands(file', listing[i], file.members[i], e)
    BY <1>3, <1>5 DEF XarListed
  <2>1. PICK e : XarStands(file, listing[i], file.members[i], e)
    BY <1>3 DEF XarListed
  <2> QED BY <1>7, <2>1 DEF XarStands
<1>9. \A i \in DOMAIN listing : LeftToTheHeap(i) => LeftToTheHeap(i)'
  <2> SUFFICES ASSUME NEW i \in DOMAIN listing, LeftToTheHeap(i) PROVE LeftToTheHeap(i)'
    OBVIOUS
  <2>1. /\ listing[i].item # <<>> /\ listing[i].item[1].style \in X!Stored
        /\ file.headerLen + file.tocLen + listing[i].item[1].offset + listing[i].item[1].length
              > file.len
    BY DEF LeftToTheHeap, X!HeapAt
  <2>2. PICK e : XarStands(file, listing[i], file.members[i], e)
    BY <1>3 DEF XarListed
  <2>3. listing[i].item[1].offset \in Nat /\ listing[i].item[1].length \in Nat
    BY <2>1, <2>2 DEF XarStands, XarEntry, Bodied
  <2>4. file.headerLen + file.tocLen + listing[i].item[1].offset + listing[i].item[1].length
          > file'.len
    BY <1>3, <1>4, <1>5, <2>1, <2>3 DEF XarShape
  <2> QED BY <1>2, <1>3, <1>5, <2>1, <2>4 DEF LeftToTheHeap, X!HeapAt, XarShape
<1>10. \A i \in DOMAIN listing :
         answers[i].said = "ok" /\ listing[i].kind = "file" /\ ~LeftToTheHeap(i)' =>
           answers[i].given = file.members[i].content
  BY <1>2, <1>9 DEF XarInv
<1> QED BY <1>2, <1>3, <1>5, <1>6, <1>8, <1>10 DEF XarInv

LEMMA XarNext == ASSUME XarInv, X!Next PROVE XarInv'
<1>1. CASE X!RefuseStream
  <2>1. WrittenXar(file) /\ ~XarOpens(file) /\ status = "new"
    BY <1>1 DEF X!RefuseStream, XarInv, XarOpens
  <2>2. file.damage # "none" /\ X!Refuse("Unsupported")
    BY <1>1, <2>1 DEF WrittenXar, X!RefuseStream
  <2> QED BY <2>1, <2>2, XarRefuses
<1>2. CASE X!RefuseToc
  <2>1. WrittenXar(file) /\ ~XarOpens(file) /\ status = "new"
    BY <1>2 DEF X!RefuseToc, XarInv, XarOpens
  <2>2. file.damage # "none" /\ X!Refuse("Corrupt")
    BY <1>2, <2>1 DEF WrittenXar, X!RefuseToc
  <2> QED BY <2>1, <2>2, XarRefuses
<1> QED
  BY <1>1, <1>2, XarStart, XarSkip, XarRefuseStyle, XarCollect, XarFinish, XarReads, XarShrinks
     DEF X!Next

LEMMA XarSame == ASSUME XarInv, UNCHANGED vars PROVE XarInv'
<1>1. file' = file /\ walk' = walk /\ listing' = listing /\ status' = status /\ answers' = answers
  BY DEF vars
<1>2. \A k : LeftToTheHeap(k)' <=> LeftToTheHeap(k)
  BY <1>1 DEF LeftToTheHeap, X!HeapAt
<1> QED BY <1>1, <1>2 DEF XarInv

LEMMA XarKeeps == ASSUME XarInv PROVE ListsTheTree /\ DamageIsTold /\ TreeOkIsContent
<1>1. /\ file.format = "xar"
      /\ status \in {"new", "walking", "open", "Unsupported", "Corrupt"}
  BY DEF XarInv, XarShape
<1>2. DamageIsTold
  BY DEF XarInv, DamageIsTold
<1>3. TreeOkIsContent
  <2> SUFFICES ASSUME NEW k \in DOMAIN answers, answers[k].said = "ok", listing[k].kind = "file",
                      ~LeftToTheHeap(k)
               PROVE  answers[k].given = Member(k).content
    BY DEF TreeOkIsContent
  <2>1. status = "open"
    BY DEF XarInv
  <2> QED BY <2>1 DEF XarInv, Member
<1>4. ListsTheTree
  <2> SUFFICES ASSUME file.damage = "none"
               PROVE  /\ ~Refused /\ ~Aborted
                      /\ \A k \in DOMAIN listing : Matches(listing[k], Member(k))
                      /\ status = "open" => Len(listing) = Len(file.members)
    BY DEF ListsTheTree
  <2>1. ~Refused /\ ~Aborted
    BY <1>1 DEF Refused, Errors, Aborted, XarInv
  <2>2. ASSUME NEW k \in DOMAIN listing PROVE Matches(listing[k], Member(k))
    <3>1. XarListed(file, listing)
      BY <1>1, <2>2 DEF XarInv
    <3>2. PICK e : XarStands(file, listing[k], file.members[k], e)
      BY <3>1 DEF XarListed
    <3> QED BY <3>2 DEF XarStands, XarIs, XarEntry, Matches, Member, XarKind, Bodied
  <2>3. status = "open" => Len(listing) = Len(file.members)
    BY DEF XarInv
  <2> QED BY <2>1, <2>2, <2>3
<1> QED BY <1>2, <1>3, <1>4

----------------------------------------------------------------------------
(***************************************************************************)
(* Iso alone: no directory is walked inside itself, and every directory is *)
(* listed before what is in it.                                            *)
(***************************************************************************)
IsoFrame == [extent : Nat, prefix : Seq(STRING), next : Nat \ {0}]
IsoEntry == [path : Seq(STRING), kind : {"file", "dir", "link"}, extent : Nat, size : Nat,
          target : Seq(STRING)]

IsoShape ==
  /\ walk.stack \in Seq(IsoFrame)
  /\ walk = [stack |-> walk.stack, visited |-> walk.visited]
  /\ listing \in Seq(IsoEntry)

\* While it walks, the reader has an image whose records lead to directories.
IsoOnMap ==
  status \in {"new", "walking"} =>
    /\ I!IsoImage(file)
    /\ \A k \in DOMAIN walk.stack : walk.stack[k].extent \in DOMAIN file.extents

\* What is below a directory goes under the path of an entry that is listed.
IsoPrefixInv ==
  status = "walking" =>
    \A k \in DOMAIN walk.stack :
      \/ walk.stack[k].prefix = <<>>
      \/ \E j \in DOMAIN listing : /\ listing[j].kind = "dir"
                                   /\ listing[j].path = walk.stack[k].prefix

IsoInd ==
  /\ IsoShape
  /\ IsoOnMap
  /\ IsoPrefixInv
  /\ I!NeverInsideItself
  /\ I!ParentsFirst
  /\ status = "new" => walk.stack = <<>> /\ listing = <<>>

----------------------------------------------------------------------------
LEMMA IsoStarts == ASSUME I!IsoAssumption PROVE I!Init => IsoInd
<1> SUFFICES ASSUME I!Init PROVE IsoInd
  OBVIOUS
<1>1. /\ walk.stack = <<>> /\ walk = [stack |-> walk.stack, visited |-> walk.visited]
      /\ listing = <<>> /\ status = "new" /\ I!IsoImage(file) /\ MaxIsoDepth \in Nat
  BY DEF I!Init, I!IsoAssumption
<1>2. <<>> \in Seq(IsoFrame) /\ <<>> \in Seq(IsoEntry)
  OBVIOUS
<1>3. IsoShape /\ IsoOnMap /\ IsoPrefixInv
  BY <1>1, <1>2 DEF IsoShape, IsoOnMap, IsoPrefixInv
<1>4. I!NeverInsideItself /\ I!ParentsFirst
  BY <1>1 DEF I!NeverInsideItself, I!ParentsFirst
<1> QED BY <1>1, <1>3, <1>4 DEF IsoInd

LEMMA IsoRefuseKeeps ==
  ASSUME IsoInd, NEW error \in {"Unsupported", "Io", "UnknownFormat", "Corrupt"}, I!Refuse(error)
  PROVE  IsoInd'
<1>1. <<>> \in Seq(IsoEntry)
  OBVIOUS
<1>2. UNCHANGED <<file, walk, answers>> /\ listing' = <<>> /\ status' = error
  BY DEF I!Refuse
<1>3. IsoShape' /\ IsoOnMap' /\ IsoPrefixInv'
  BY <1>1, <1>2 DEF IsoInd, IsoShape, IsoOnMap, IsoPrefixInv
<1>4. I!NeverInsideItself' /\ I!ParentsFirst'
  BY <1>2 DEF IsoInd, I!NeverInsideItself, I!ParentsFirst
<1> QED BY <1>2, <1>3, <1>4 DEF IsoInd

\* The directory at hand ...
LEMMA IsoTopType ==
  ASSUME IsoInd, I!Walking
  PROVE  /\ walk.stack \in Seq(IsoFrame) /\ Len(walk.stack) \in Nat \ {0}
         /\ Len(walk.stack) \in DOMAIN walk.stack
         /\ I!Top = walk.stack[Len(walk.stack)] /\ I!Top \in IsoFrame
         /\ I!IsoImage(file) /\ I!Top.extent \in DOMAIN file.extents
<1>1. walk.stack \in Seq(IsoFrame) /\ walk.stack # <<>> /\ status = "walking"
  BY DEF IsoInd, IsoShape, I!Walking
<1>2. Len(walk.stack) \in Nat \ {0} /\ Len(walk.stack) \in DOMAIN walk.stack
  BY <1>1
<1>3. I!Top = walk.stack[Len(walk.stack)] /\ I!Top \in IsoFrame
  BY <1>1, <1>2, Element DEF I!Top
<1> QED BY <1>1, <1>2, <1>3 DEF IsoInd, IsoOnMap

\* ... and the record.
LEMMA IsoRecType ==
  ASSUME IsoInd, I!AtRecord
  PROVE  I!Rec \in I!Record /\ (I!Rec.kind = "dir" => I!Rec.extent \in DOMAIN file.extents)
<1>1. /\ I!Top \in IsoFrame /\ I!IsoImage(file) /\ I!Top.extent \in DOMAIN file.extents
  BY IsoTopType DEF I!AtRecord
<1>2. I!Records \in Seq(I!Record)
  BY <1>1 DEF I!Records, I!IsoImage
<1>3. I!Top.next \in 1 .. Len(I!Records)
  BY <1>1, <1>2 DEF I!AtRecord, IsoFrame
<1>4. I!Rec \in I!Record
  BY <1>2, <1>3, Element DEF I!Rec
<1>5. I!Top.next \in DOMAIN file.extents[I!Top.extent] /\ I!Rec = file.extents[I!Top.extent][I!Top.next]
  BY <1>2, <1>3 DEF I!Rec, I!Records
<1> QED BY <1>1, <1>4, <1>5 DEF I!IsoImage

\* The stack after the record at hand.
LEMMA IsoAdvancedType ==
  ASSUME IsoInd, I!Walking
  PROVE  /\ I!Advanced \in Seq(IsoFrame) /\ Len(I!Advanced) = Len(walk.stack)
         /\ \A k \in DOMAIN walk.stack : /\ I!Advanced[k].prefix = walk.stack[k].prefix
                                         /\ I!Advanced[k].extent = walk.stack[k].extent
<1> DEFINE stack == walk.stack
           n == Len(stack)
           top == stack[n]
           after == [top EXCEPT !.next = @ + 1]
<1>1. stack \in Seq(IsoFrame) /\ n \in DOMAIN stack /\ top \in IsoFrame
  BY IsoTopType
<1>2. after \in IsoFrame /\ after.prefix = top.prefix /\ after.extent = top.extent
  <2>1. top.next + 1 \in Nat \ {0}
    BY <1>1 DEF IsoFrame
  <2>2. after = [top EXCEPT !.next = top.next + 1]
    OBVIOUS
  <2> HIDE DEF top, after
  <2> QED BY <1>1, <2>1, <2>2 DEF IsoFrame
<1>3. I!Advanced = [stack EXCEPT ![n] = after]
  BY DEF I!Advanced
<1> HIDE DEF after, stack
<1>4. /\ I!Advanced \in Seq(IsoFrame) /\ Len(I!Advanced) = Len(stack)
      /\ \A k \in DOMAIN stack : /\ I!Advanced[k].prefix = stack[k].prefix
                                 /\ I!Advanced[k].extent = stack[k].extent
  BY <1>1, <1>2, <1>3
<1> QED BY <1>4 DEF stack

----------------------------------------------------------------------------
LEMMA IsoStartKeeps == ASSUME I!IsoAssumption PROVE IsoInd /\ I!Start => IsoInd'
<1> SUFFICES ASSUME IsoInd, I!Start PROVE IsoInd'
  OBVIOUS
<1> DEFINE first == [extent |-> file.root, prefix |-> <<>>, next |-> 1]
<1>1. I!IsoImage(file) /\ listing = <<>> /\ file.root \in Nat /\ file.root \in DOMAIN file.extents
  BY DEF IsoInd, IsoOnMap, I!Start, I!IsoImage
<1>2. first \in IsoFrame
  BY <1>1 DEF IsoFrame
<1>3. /\ walk' = [stack |-> <<first>>, visited |-> {file.root}] /\ status' = "walking"
      /\ UNCHANGED <<file, listing, answers>>
  BY DEF I!Start
<1>4. /\ walk'.stack \in Seq(IsoFrame) /\ Len(walk'.stack) = 1 /\ walk'.visited = {file.root}
      /\ walk'.stack[1].prefix = <<>> /\ walk'.stack[1].extent = file.root
  BY <1>2, <1>3
<1>5. IsoShape' /\ IsoOnMap' /\ IsoPrefixInv'
  BY <1>1, <1>3, <1>4 DEF IsoInd, IsoShape, IsoOnMap, IsoPrefixInv
<1>6. I!NeverInsideItself' /\ I!ParentsFirst'
  BY <1>1, <1>3, <1>4 DEF I!NeverInsideItself, I!ParentsFirst, I!IsoAssumption
<1> QED BY <1>3, <1>5, <1>6 DEF IsoInd

LEMMA IsoPassKeeps == ASSUME I!IsoAssumption PROVE IsoInd /\ I!PassSelf => IsoInd'
<1> SUFFICES ASSUME IsoInd, I!PassSelf PROVE IsoInd'
  OBVIOUS
<1>1. /\ I!Advanced \in Seq(IsoFrame) /\ Len(I!Advanced) = Len(walk.stack)
      /\ \A k \in DOMAIN walk.stack : /\ I!Advanced[k].prefix = walk.stack[k].prefix
                                      /\ I!Advanced[k].extent = walk.stack[k].extent
  BY IsoAdvancedType DEF I!PassSelf, I!AtRecord
<1>2. /\ walk' = [stack |-> I!Advanced, visited |-> walk.visited]
      /\ UNCHANGED <<file, listing, status, answers>> /\ status = "walking"
  BY DEF I!PassSelf, IsoInd, IsoShape, I!AtRecord, I!Walking
<1>3. DOMAIN walk'.stack = DOMAIN walk.stack
  BY <1>1, <1>2 DEF IsoInd, IsoShape
<1>4. IsoShape' /\ IsoOnMap' /\ IsoPrefixInv'
  BY <1>1, <1>2, <1>3 DEF IsoInd, IsoShape, IsoOnMap, IsoPrefixInv
<1>5. I!NeverInsideItself' /\ I!ParentsFirst'
  BY <1>1, <1>2, <1>3 DEF IsoInd, I!NeverInsideItself, I!ParentsFirst
<1> QED BY <1>2, <1>4, <1>5 DEF IsoInd

\* What is pushed was never met before, so it is nowhere on the stack.
LEMMA IsoVisitKeeps == ASSUME I!IsoAssumption PROVE IsoInd /\ I!Visit => IsoInd'
<1> SUFFICES ASSUME IsoInd, I!Visit PROVE IsoInd'
  OBVIOUS
<1>0. /\ walk.stack \in Seq(IsoFrame) /\ Len(walk.stack) \in Nat \ {0}
      /\ Len(walk.stack) \in DOMAIN walk.stack
      /\ I!Top = walk.stack[Len(walk.stack)] /\ I!Top \in IsoFrame /\ I!IsoImage(file)
      /\ status = "walking"
  BY IsoTopType DEF I!Visit, I!AtRecord, I!Walking
<1>1. I!Rec \in I!Record /\ (I!Rec.kind = "dir" => I!Rec.extent \in DOMAIN file.extents)
  BY IsoRecType DEF I!Visit
<1>2. /\ I!Advanced \in Seq(IsoFrame) /\ Len(I!Advanced) = Len(walk.stack)
      /\ \A k \in DOMAIN walk.stack : /\ I!Advanced[k].prefix = walk.stack[k].prefix
                                      /\ I!Advanced[k].extent = walk.stack[k].extent
  BY IsoAdvancedType DEF I!Visit, I!AtRecord
<1> DEFINE e == I!EntryAtHand
           path == Append(I!Top.prefix, I!Rec.name)
<1>3. path \in Seq(STRING) /\ path # <<>> /\ path = Append(I!Top.prefix, path[Len(path)])
  <2>1. I!Top.prefix \in Seq(STRING) /\ I!Rec.name \in STRING
    BY <1>0, <1>1 DEF IsoFrame, I!Record
  <2> QED BY <2>1, AppendProperties
<1>4. e \in IsoEntry /\ e.path = path /\ e.kind = I!Rec.kind
  <2>1. <<>> \in Seq(STRING)
    OBVIOUS
  <2> QED BY <1>1, <1>3, <2>1 DEF I!EntryAtHand, IsoEntry, I!Record
<1>5. I!Below \in IsoFrame /\ I!Below.prefix = path /\ I!Below.extent = I!Rec.extent
  BY <1>1, <1>3 DEF I!Below, IsoFrame, I!Record
<1> HIDE DEF e
<1>6. /\ listing \in Seq(IsoEntry) /\ listing' = Append(listing, e) /\ listing' \in Seq(IsoEntry)
      /\ Len(listing') = Len(listing) + 1 /\ listing'[Len(listing) + 1] = e
      /\ \A j \in DOMAIN listing : j \in DOMAIN listing' /\ listing'[j] = listing[j]
      /\ \A i \in DOMAIN listing' : i \in DOMAIN listing \/ i = Len(listing) + 1
  <2>1. listing \in Seq(IsoEntry) /\ listing' = Append(listing, e)
    BY DEF IsoInd, IsoShape, I!Visit, e
  <2> QED BY <1>4, <2>1
<1> HIDE DEF path
<1>7. UNCHANGED <<file, status, answers>>
  BY DEF I!Visit
<1>8. I!ParentsFirst'
  <2> SUFFICES ASSUME NEW i \in DOMAIN listing'
               PROVE  LET p == listing'[i].path IN
                      \/ Len(p) = 1
                      \/ \E j \in 1 .. i - 1 : /\ listing'[j].kind = "dir"
                                               /\ p = Append(listing'[j].path, p[Len(p)])
    BY DEF I!ParentsFirst
  <2>1. CASE i \in DOMAIN listing
    <3>1. \A j \in 1 .. i - 1 : j \in DOMAIN listing
      BY <1>6, <2>1
    <3> QED BY <1>6, <2>1, <3>1 DEF IsoInd, I!ParentsFirst
  <2>2. CASE i = Len(listing) + 1
    <3>1. listing'[i].path = path
      BY <1>4, <1>6, <2>2
    <3>2. CASE I!Top.prefix = <<>>
      BY <1>0, <1>1, <3>1, <3>2 DEF path
    <3>3. ASSUME NEW j \in DOMAIN listing, listing[j].kind = "dir", listing[j].path = I!Top.prefix
          PROVE  \E q \in 1 .. i - 1 : /\ listing'[q].kind = "dir"
                                       /\ path = Append(listing'[q].path, path[Len(path)])
      <4>1. j \in 1 .. i - 1 /\ listing'[j] = listing[j]
        BY <1>6, <2>2, <3>3
      <4> QED BY <1>3, <3>3, <4>1
    <3>4. \/ I!Top.prefix = <<>>
          \/ \E j \in DOMAIN listing : listing[j].kind = "dir" /\ listing[j].path = I!Top.prefix
      BY <1>0 DEF IsoInd, IsoPrefixInv
    <3> QED BY <3>1, <3>2, <3>3, <3>4
  <2> QED BY <1>6, <2>1, <2>2
<1>9. ASSUME ~I!Descends
      PROVE  IsoInd'
  <2>1. walk' = [stack |-> I!Advanced, visited |-> walk.visited]
    BY <1>9 DEF I!Visit, IsoInd, IsoShape
  <2>2. DOMAIN walk'.stack = DOMAIN walk.stack
    BY <1>0, <1>2, <2>1
  <2>3. IsoShape' /\ IsoOnMap'
    BY <1>2, <1>6, <1>7, <2>1, <2>2 DEF IsoInd, IsoShape, IsoOnMap
  <2>4. IsoPrefixInv'
    BY <1>0, <1>2, <1>6, <1>7, <2>1, <2>2 DEF IsoInd, IsoPrefixInv
  <2>5. I!NeverInsideItself'
    BY <1>2, <2>1, <2>2 DEF IsoInd, I!NeverInsideItself
  <2> QED BY <1>0, <1>7, <1>8, <2>3, <2>4, <2>5 DEF IsoInd
<1>10. ASSUME I!Descends
       PROVE  IsoInd'
  <2> DEFINE n == Len(walk.stack)
             pushed == Append(I!Advanced, I!Below)
  <2>1. walk' = [stack |-> pushed, visited |-> walk.visited \union {I!Rec.extent}]
    BY <1>10 DEF I!Visit
  <2>2. I!Rec.kind = "dir" /\ I!Rec.extent \notin walk.visited
    BY <1>10 DEF I!Descends
  <2>3. /\ n \in Nat /\ pushed \in Seq(IsoFrame) /\ Len(pushed) = n + 1
        /\ \A k \in 1..n : pushed[k] = I!Advanced[k] /\ k \in DOMAIN walk.stack
        /\ pushed[n + 1] = I!Below
        /\ \A k \in DOMAIN pushed : k \in 1..n \/ k = n + 1
    <3>1. n \in Nat /\ DOMAIN walk.stack = 1..n
      BY <1>0
    <3> HIDE DEF n
    <3>2. Len(I!Advanced) = n
      BY <1>2 DEF n
    <3> QED BY <1>2, <1>5, <3>1, <3>2
  <2> HIDE DEF pushed, n
  <2>4. IsoShape'
    BY <1>6, <2>1, <2>3 DEF IsoInd, IsoShape
  <2>5. \A k \in 1..n : /\ pushed[k].prefix = walk.stack[k].prefix
                        /\ pushed[k].extent = walk.stack[k].extent
    BY <1>2, <2>3
  <2>6. IsoOnMap'
    <3>1. \A k \in 1..n : pushed[k].extent \in DOMAIN file.extents
      BY <1>0, <2>3, <2>5 DEF IsoInd, IsoOnMap
    <3>2. pushed[n + 1].extent \in DOMAIN file.extents
      BY <1>1, <1>5, <2>2, <2>3
    <3> QED BY <1>0, <1>7, <2>1, <2>3, <3>1, <3>2 DEF IsoOnMap
  <2>7. IsoPrefixInv'
    <3>1. \A k \in 1..n : \/ pushed[k].prefix = <<>>
                          \/ \E j \in DOMAIN listing' : /\ listing'[j].kind = "dir"
                                                        /\ listing'[j].path = pushed[k].prefix
      <4> TAKE k \in 1..n
      <4>1. \/ walk.stack[k].prefix = <<>>
            \/ \E j \in DOMAIN listing : /\ listing[j].kind = "dir"
                                         /\ listing[j].path = walk.stack[k].prefix
        BY <1>0, <2>3 DEF IsoInd, IsoPrefixInv
      <4>2. pushed[k].prefix = walk.stack[k].prefix
        BY <2>5
      <4> QED BY <1>6, <4>1, <4>2
    <3>2. /\ Len(listing) + 1 \in DOMAIN listing' /\ listing'[Len(listing) + 1].kind = "dir"
          /\ listing'[Len(listing) + 1].path = pushed[n + 1].prefix
      BY <1>4, <1>5, <1>6, <2>2, <2>3
    <3> QED BY <2>1, <2>3, <3>1, <3>2 DEF IsoPrefixInv
  <2>8. I!NeverInsideItself'
    <3>1. Len(pushed) <= MaxIsoDepth + 2
      <4>1. n <= MaxIsoDepth + 1
        BY <1>0 DEF I!Visit, I!AtRecord, I!Depth, I!IsoAssumption, n
      <4> QED BY <2>3, <4>1 DEF I!IsoAssumption
    <3>2. \A k \in 1..n : pushed[k].extent \in walk.visited
      BY <2>3, <2>5 DEF IsoInd, I!NeverInsideItself
    <3>3. pushed[n + 1].extent = I!Rec.extent
      BY <1>5, <2>3
    <3>4. \A j, k \in 1..n : pushed[j].extent = pushed[k].extent => j = k
      BY <2>3, <2>5 DEF IsoInd, I!NeverInsideItself
    <3>5. \A j, k \in DOMAIN pushed : pushed[j].extent = pushed[k].extent => j = k
      BY <2>2, <2>3, <3>2, <3>3, <3>4
    <3> QED BY <2>1, <2>3, <3>1, <3>2, <3>3, <3>5 DEF I!NeverInsideItself
  <2> QED BY <1>0, <1>7, <1>8, <2>4, <2>6, <2>7, <2>8 DEF IsoInd
<1> QED BY <1>9, <1>10

LEMMA IsoLeaveKeeps == ASSUME I!IsoAssumption PROVE IsoInd /\ I!Leave => IsoInd'
<1> SUFFICES ASSUME IsoInd, I!Leave PROVE IsoInd'
  OBVIOUS
<1> DEFINE stack == walk.stack
           m == Len(stack) - 1
<1>0. stack \in Seq(IsoFrame) /\ Len(stack) \in Nat \ {0} /\ status = "walking"
  BY IsoTopType DEF I!Leave, I!Walking
<1>1. walk' = [stack |-> SubSeq(stack, 1, m), visited |-> walk.visited]
      /\ UNCHANGED <<file, listing, status, answers>>
  BY DEF I!Leave, IsoInd, IsoShape
<1>2. m \in Nat /\ m <= Len(stack) /\ \A k \in 1..m : k \in DOMAIN stack /\ stack[k] \in IsoFrame
  BY <1>0
<1>3. /\ SubSeq(stack, 1, m) \in Seq(IsoFrame) /\ Len(SubSeq(stack, 1, m)) = m
      /\ \A k \in 1..m : SubSeq(stack, 1, m)[k] = stack[k]
  <2> HIDE DEF m
  <2> QED BY <1>2, SubSeqProperties
<1>4. /\ walk'.stack \in Seq(IsoFrame) /\ Len(walk'.stack) <= Len(walk.stack)
      /\ \A k \in DOMAIN walk'.stack : k \in DOMAIN walk.stack /\ walk'.stack[k] = walk.stack[k]
      /\ walk'.visited = walk.visited
  BY <1>1, <1>2, <1>3
<1> HIDE DEF stack, m
<1>5. IsoShape'
  BY <1>1, <1>4 DEF IsoInd, IsoShape
<1>6. IsoOnMap' /\ IsoPrefixInv'
  BY <1>1, <1>4 DEF IsoInd, IsoOnMap, IsoPrefixInv
<1>7. Len(walk'.stack) <= MaxIsoDepth + 2
  BY <1>4 DEF IsoInd, I!NeverInsideItself, IsoShape, I!IsoAssumption
<1>8. I!NeverInsideItself' /\ I!ParentsFirst'
  BY <1>1, <1>4, <1>7 DEF IsoInd, I!NeverInsideItself, I!ParentsFirst
<1> QED BY <1>0, <1>1, <1>5, <1>6, <1>8 DEF IsoInd

----------------------------------------------------------------------------
\* Where the walk is over, nothing of it is touched any more.
LEMMA IsoOverKeeps ==
  ASSUME IsoInd, status' = "open", UNCHANGED <<walk, listing>>
  PROVE  IsoInd'
BY DEF IsoInd, IsoShape, IsoOnMap, IsoPrefixInv, I!NeverInsideItself, I!ParentsFirst

LEMMA IsoNextInd == ASSUME I!IsoAssumption PROVE IsoInd /\ [I!Next]_vars => IsoInd'
<1> SUFFICES ASSUME IsoInd, [I!Next]_vars PROVE IsoInd'
  OBVIOUS
<1>1. CASE I!RefuseStream \/ I!NoDescriptor \/ I!CannotOpen \/ I!TooDeep
  BY <1>1, IsoRefuseKeeps DEF I!RefuseStream, I!NoDescriptor, I!CannotOpen, I!TooDeep
<1>2. CASE I!CannotRead
  <2>1. I!Rec \in I!Record
    BY <1>2, IsoRecType DEF I!CannotRead
  <2>2. \E error \in {"Corrupt", "Io"} : I!Refuse(error)
    BY <1>2, <2>1 DEF I!CannotRead, I!Record
  <2> QED BY <2>2, IsoRefuseKeeps
<1>3. CASE I!Finish \/ (\E i \in DOMAIN listing : I!ReadEntry(i)) \/ I!Shrink
  BY <1>3, IsoOverKeeps DEF I!Finish, I!ReadEntry, I!Shrink
<1>4. CASE UNCHANGED vars
  BY <1>4 DEF vars, IsoInd, IsoShape, IsoOnMap, IsoPrefixInv, I!NeverInsideItself, I!ParentsFirst
<1> QED BY <1>1, <1>2, <1>3, <1>4, IsoStartKeeps, IsoPassKeeps, IsoVisitKeeps, IsoLeaveKeeps DEF I!Next

LEMMA IsoAlwaysInd == ASSUME I!IsoAssumption PROVE I!Spec => []IsoInd
BY IsoStarts, IsoNextInd, PTL DEF I!Spec, I!vars, vars

----------------------------------------------------------------------------
\* walk_dir, with the set of extents it has entered, never walks a directory
\* inside itself and never holds more than MAX_ISO_DEPTH and two of them,
\* whatever the records lead to.
THEOREM IsoWalkNeverTurnsBack == ASSUME I!IsoAssumption PROVE I!Spec => []I!NeverInsideItself
<1>1. IsoInd => I!NeverInsideItself
  BY DEF IsoInd
<1> QED BY <1>1, IsoAlwaysInd, PTL

\* walk_dir lists a directory before whatever is in it, at every depth.
THEOREM IsoDirectoriesComeFirst == ASSUME I!IsoAssumption PROVE I!Spec => []I!ParentsFirst
<1>1. IsoInd => I!ParentsFirst
  BY DEF IsoInd
<1> QED BY <1>1, IsoAlwaysInd, PTL

----------------------------------------------------------------------------
(***************************************************************************)
(* Iso and the tree it was written from.                                   *)
(***************************************************************************)
\* What is asked of a file, however it is shortened.
IsoKept(f) ==
  /\ f.format = "iso" /\ f.len \in Nat
  /\ HasFields(f, {"len", "shrunk", "format", "members", "damage", "byte"})

\* An entry and the member that it stands for.
IsoStands(f, x, m) ==
  /\ x.path = m.path /\ x.kind = m.kind
  /\ m.kind = "file" => m.content = Bytes(f, x.extent, x.size)
  /\ m.kind = "link" => x.target = m.target

IsoListed(f, l) ==
  /\ Len(l) <= Len(f.members)
  /\ \A i \in DOMAIN l : IsoStands(f, l[i], f.members[i])

\* The directories that the first n members are.
Met(f, n) == {f.root} \union {f.members[k].is : k \in {j \in 1..n : f.members[j].kind = "dir"}}

\* The walk of a tree, after n members.
IsoFrames(f, s, node, nth) ==
  /\ Len(s) = Len(node)
  /\ \A j \in 1 .. Len(node) :
       /\ s[j].extent = Extent(f, node[j]) /\ s[j].prefix = PathOf(IsoT(f), node[j])
       /\ s[j].next = nth[j] /\ Entered(f, node[j]) /\ Len(PathOf(IsoT(f), node[j])) = j - 1

IsoAt(f, w, n) ==
  /\ w.visited = Met(f, n)
  /\ \E node, nth : On(IsoT(f), node, nth, n) /\ IsoFrames(f, w.stack, node, nth)
  /\ \A k \in 0 .. n : Entered(f, k) => \/ Len(PathOf(IsoT(f), k)) <= MaxIsoDepth
                                        \/ Len(w.stack) - 1 > MaxIsoDepth

\* A record that can be read, and was followed where it leads to a directory.
Passed(f, w, e, i) ==
  LET r == f.extents[e][i] IN
  r.reads = "ok" /\ (~I!Self(r.name) /\ r.kind = "dir" => r.extent \in w.visited)

\* Whatever has been met is on the stack, or was passed.
IsoLost(f, w) ==
  /\ IsoFault(f) /\ f.root \in w.visited
  /\ \A e \in w.visited :
       \/ \A i \in DOMAIN f.extents[e] : Passed(f, w, e, i)
       \/ \E j \in DOMAIN w.stack :
            w.stack[j].extent = e /\ \A i \in 1 .. w.stack[j].next - 1 : Passed(f, w, e, i)

IsoWalk(f, w, l) ==
  \/ /\ f.damage = "none" <=> Shallow(f)
     /\ IsoTree(f) /\ IsoListed(f, l) /\ IsoAt(f, w, Len(l))
  \/ f.damage # "none" /\ IsoLost(f, w)

IsoInv ==
  /\ IsoInd /\ IsoKept(file)
  /\ status \in {"new", "walking", "open", "Unsupported", "Corrupt", "Io", "UnknownFormat"}
  /\ status = "new" => WrittenIso(file)
  /\ status \notin {"new", "walking", "open"} => file.damage # "none" /\ listing = <<>>
  /\ status = "walking" => IsoWalk(file, walk, listing)
  /\ status # "open" => answers = <<>>
  /\ status = "open" =>
       /\ file.damage = "none"
       /\ IsoListed(file, listing) /\ Len(listing) = Len(file.members)
       /\ DOMAIN answers = DOMAIN listing
       /\ \A i \in DOMAIN listing :
            answers[i].said = "ok" /\ listing[i].kind = "file" =>
              answers[i].given = file.members[i].content

----------------------------------------------------------------------------
LEMMA IsoCut == ASSUME NEW f, IsoTree(f) PROVE Cut(IsoT(f)) /\ Len(f.members) \in Nat
<1>1. Counted(IsoT(f)) /\ \A k \in Nodes(IsoT(f)) : IsoNode(f, k)
  BY DEF IsoTree
<1>2. ASSUME NEW k \in Nodes(IsoT(f))
      PROVE  /\ Cuts(IsoT(f), k) \in Seq(Nat) /\ Cuts(IsoT(f), k) # <<>>
             /\ Cuts(IsoT(f), k)[1] = k
  BY <1>1 DEF IsoNode, Divided
<1>3. Len(f.members) \in Nat
  BY <1>1 DEF Counted, IsSeq, IsoT, Tree
<1> QED BY <1>1, <1>2, <1>3 DEF Cut

LEMMA IsoInits == ASSUME I!Init PROVE IsoInv
<1>1. /\ WrittenIso(file) /\ listing = <<>> /\ status = "new" /\ answers = <<>>
      /\ I!IsoImage(file)
  BY TreesAssumption DEF I!Init, I!IsoAssumption
<1>2. IsoInd
  BY IsoStarts, TreesAssumption
<1>3. IsoKept(file)
  BY <1>1 DEF WrittenIso, IsoKept, I!IsoImage
<1> QED BY <1>1, <1>2, <1>3 DEF IsoInv

LEMMA IsoRefuses ==
  ASSUME IsoInv, status # "open", IsoInd',
         NEW error \in {"Unsupported", "Corrupt", "Io", "UnknownFormat"}, I!Refuse(error),
         file.damage # "none"
  PROVE  IsoInv'
BY DEF IsoInv, I!Refuse

LEMMA IsoStart == ASSUME IsoInv, IsoInd', I!Start PROVE IsoInv'
<1> DEFINE top == [extent |-> file.root, prefix |-> <<>>, next |-> 1]
<1>1. /\ status = "new" /\ status' = "walking"
      /\ walk' = [stack |-> <<top>>, visited |-> {file.root}]
      /\ file' = file /\ listing' = listing /\ answers' = answers
      /\ IsoOpens(file)
  BY DEF I!Start, IsoOpens, I!Described
<1>2. WrittenIso(file) /\ listing = <<>> /\ answers = <<>> /\ IsoKept(file) /\ I!IsoImage(file)
  BY <1>1 DEF IsoInv, IsoInd, IsoOnMap
<1>3. /\ walk'.visited = {file.root} /\ Len(walk'.stack) = 1 /\ DOMAIN walk'.stack = {1}
      /\ walk'.stack[1] = top
  BY <1>1
<1>4. top.extent = file.root /\ top.prefix = <<>> /\ top.next = 1
  OBVIOUS
<1> HIDE DEF top
<1>5. ASSUME IsoTree(file), file.damage = "none" <=> Shallow(file)
      PROVE  IsoWalk(file, walk', listing)
  <2>1. Cut(IsoT(file)) /\ Len(file.members) \in Nat
    BY <1>5, IsoCut
  <2>2. On(IsoT(file), <<0>>, <<1>>, 0)
    BY <2>1, AtRoot
  <2>3. Extent(file, 0) = file.root /\ PathOf(IsoT(file), 0) = <<>> /\ Entered(file, 0)
    BY DEF Extent, PathOf, Entered
  <2>4. IsoFrames(file, walk'.stack, <<0>>, <<1>>)
    <3>1. Len(<<0>>) = 1 /\ <<0>>[1] = 0 /\ <<1>>[1] = 1
      OBVIOUS
    <3>2. Len(PathOf(IsoT(file), 0)) = 0
      BY <2>3
    <3> QED BY <1>3, <1>4, <2>3, <3>1, <3>2 DEF IsoFrames
  <2>5. Met(file, 0) = {file.root}
    BY DEF Met
  <2>6. Len(PathOf(IsoT(file), 0)) <= MaxIsoDepth
    BY <2>3, TreesAssumption DEF I!IsoAssumption
  <2>7. IsoAt(file, walk', 0)
    BY <1>3, <2>2, <2>4, <2>5, <2>6 DEF IsoAt
  <2>8. Len(listing) = 0 /\ IsoListed(file, listing)
    BY <1>2, <2>1 DEF IsoListed
  <2> QED BY <1>5, <2>7, <2>8 DEF IsoWalk
<1>6. ASSUME IsoFault(file), file.damage # "none" PROVE IsoWalk(file, walk', listing)
  <2>1. IsoLost(file, walk')
    BY <1>3, <1>4, <1>6 DEF IsoLost
  <2> QED BY <1>6, <2>1 DEF IsoWalk
<1>7. IsoWalk(file, walk', listing)
  BY <1>1, <1>2, <1>5, <1>6 DEF WrittenIso
<1> QED BY <1>1, <1>2, <1>7 DEF IsoInv

\* Where a walk of a tree is, and what is at hand.
LEMMA IsoAtHand ==
  ASSUME IsoInd, I!Walking, IsoTree(file), NEW n, NEW node, NEW nth,
         On(IsoT(file), node, nth, n), IsoFrames(file, walk.stack, node, nth)
  PROVE  LET L == Len(node)
             k == node[L]
             records == file.extents[Extent(file, k)]
         IN /\ node # <<>> /\ L \in Nat /\ L = Len(walk.stack) /\ Len(nth) = L /\ k \in Nodes(IsoT(file))
            /\ I!Top.next = nth[Len(nth)] /\ I!Top.prefix = PathOf(IsoT(file), k)
            /\ Len(PathOf(IsoT(file), k)) = I!Depth
            /\ I!Records = records /\ Entered(file, k)
            /\ Len(records) \in Nat /\ DOMAIN records = 1 .. Len(records)
            /\ Divided(IsoT(file), k, Len(records))
            /\ nth[Len(nth)] \in 1 .. Len(records) + 1
            /\ I!Depth = L - 1
<1> DEFINE L == Len(node)
           k == node[L]
           records == file.extents[Extent(file, k)]
<1>1. /\ walk.stack \in Seq(IsoFrame) /\ Len(walk.stack) \in Nat \ {0}
      /\ I!Top = walk.stack[Len(walk.stack)] /\ I!Top.extent \in DOMAIN file.extents
      /\ I!IsoImage(file)
  BY IsoTopType
<1>2. L = Len(walk.stack) /\ L \in Nat \ {0} /\ node # <<>> /\ Len(nth) = L /\ L \in 1..L
  BY <1>1 DEF IsoFrames, On
<1>3. k \in Nodes(IsoT(file)) /\ nth[L] \in 1 .. Len(Cuts(IsoT(file), k))
  BY <1>2 DEF On
<1>4. /\ I!Top.extent = Extent(file, k) /\ I!Top.prefix = PathOf(IsoT(file), k)
      /\ I!Top.next = nth[L] /\ Entered(file, k) /\ Len(PathOf(IsoT(file), k)) = L - 1
  BY <1>1, <1>2 DEF IsoFrames
<1>5. records \in Seq(I!Record) /\ I!Records = records
  BY <1>1, <1>4 DEF I!IsoImage, I!Records
<1>6. Divided(IsoT(file), k, Len(records))
  BY <1>3, <1>4 DEF IsoTree, IsoNode
<1> HIDE DEF L, k, records
<1>7. Len(records) \in Nat /\ DOMAIN records = 1 .. Len(records)
  BY <1>5
<1>8. I!Depth = L - 1
  BY <1>2 DEF I!Depth
<1>9. nth[L] \in 1 .. Len(records) + 1
  BY <1>3, <1>6 DEF Divided
<1> QED BY <1>2, <1>3, <1>4, <1>5, <1>6, <1>7, <1>8, <1>9 DEF L, k, records

LEMMA IsoAdvance ==
  ASSUME IsoInd, I!Walking
  PROVE  LET L == Len(walk.stack) IN
         /\ L \in Nat \ {0} /\ I!Advanced \in Seq(IsoFrame) /\ Len(I!Advanced) = L
         /\ \A j \in 1..L : /\ I!Advanced[j].extent = walk.stack[j].extent
                            /\ I!Advanced[j].prefix = walk.stack[j].prefix
                            /\ j # L => I!Advanced[j].next = walk.stack[j].next
         /\ I!Advanced[L].next = I!Top.next + 1
<1> DEFINE stack == walk.stack
           L == Len(stack)
           top == stack[L]
           after == [top EXCEPT !.next = @ + 1]
<1>1. stack \in Seq(IsoFrame) /\ L \in Nat \ {0} /\ I!Top = top /\ top \in IsoFrame
  BY IsoTopType
<1>2. I!Advanced = [stack EXCEPT ![L] = after]
  BY DEF I!Advanced
<1>3. after.next = top.next + 1
  <2> HIDE DEF top
  <2> QED BY <1>1 DEF IsoFrame
<1>4. /\ I!Advanced \in Seq(IsoFrame) /\ Len(I!Advanced) = L
      /\ \A j \in DOMAIN stack : /\ I!Advanced[j].prefix = stack[j].prefix
                                 /\ I!Advanced[j].extent = stack[j].extent
  BY IsoAdvancedType
<1> HIDE DEF after, stack
<1>5. DOMAIN stack = 1..L /\ L \in 1..L
  BY <1>1
<1>6. I!Advanced[L].next = I!Top.next + 1 /\ \A j \in 1..L : j # L => I!Advanced[j] = stack[j]
  BY <1>1, <1>2, <1>3, <1>5
<1> QED BY <1>1, <1>4, <1>5, <1>6 DEF stack

LEMMA IsoFramesAfter ==
  ASSUME IsoInd, I!Walking, NEW f, NEW node, NEW nth, nth \in Seq(Nat), Len(nth) = Len(node),
         IsoFrames(f, walk.stack, node, nth)
  PROVE  IsoFrames(f, I!Advanced, node, [nth EXCEPT ![Len(nth)] = nth[Len(nth)] + 1])
<1> DEFINE L == Len(walk.stack)
           after == [nth EXCEPT ![Len(nth)] = nth[Len(nth)] + 1]
<1>1. /\ L \in Nat \ {0} /\ Len(I!Advanced) = L
      /\ \A j \in 1..L : /\ I!Advanced[j].extent = walk.stack[j].extent
                         /\ I!Advanced[j].prefix = walk.stack[j].prefix
                         /\ j # L => I!Advanced[j].next = walk.stack[j].next
      /\ I!Advanced[L].next = I!Top.next + 1 /\ I!Top = walk.stack[L]
  BY IsoAdvance DEF I!Top
<1>2. L = Len(node) /\ L = Len(nth)
  BY DEF IsoFrames
<1>3. after[L] = nth[L] + 1 /\ \A j \in 1..L : j # L => after[j] = nth[j]
  BY <1>1, <1>2
<1> HIDE DEF after, L
<1>4. ASSUME NEW j \in 1..L PROVE I!Advanced[j].next = after[j]
  <2>1. walk.stack[j].next = nth[j]
    BY <1>2 DEF IsoFrames
  <2>2. CASE j = L
    BY <1>1, <1>3, <2>1, <2>2
  <2>3. CASE j # L
    BY <1>1, <1>3, <2>1, <2>3
  <2> QED BY <2>2, <2>3
<1>5. ASSUME NEW j \in 1..L
      PROVE  /\ I!Advanced[j].extent = Extent(f, node[j])
             /\ I!Advanced[j].prefix = PathOf(IsoT(f), node[j])
             /\ Entered(f, node[j]) /\ Len(PathOf(IsoT(f), node[j])) = j - 1
  BY <1>1, <1>2 DEF IsoFrames
<1>6. IsoFrames(f, I!Advanced, node, after)
  BY <1>1, <1>2, <1>4, <1>5 DEF IsoFrames
<1> QED BY <1>6 DEF after

LEMMA IsoPassTree ==
  ASSUME IsoInd, I!PassSelf, IsoTree(file), NEW n, IsoAt(file, walk, n)
  PROVE  IsoAt(file, walk', n)
<1>1. /\ I!Walking /\ I!Top.next <= Len(I!Records) /\ I!Self(I!Rec.name)
      /\ walk' = [stack |-> I!Advanced, visited |-> walk.visited]
  BY DEF I!PassSelf, I!AtRecord, IsoInd, IsoShape
<1>2. PICK node, nth : On(IsoT(file), node, nth, n) /\ IsoFrames(file, walk.stack, node, nth)
  BY DEF IsoAt
<1> DEFINE t == IsoT(file)
           k == node[Len(node)]
           i == nth[Len(nth)]
           records == file.extents[Extent(file, k)]
           after == [nth EXCEPT ![Len(nth)] = nth[Len(nth)] + 1]
<1>3. /\ node # <<>> /\ Len(nth) = Len(node) /\ I!Top.next = i /\ I!Records = records
      /\ Entered(file, k) /\ k \in Nodes(t) /\ DOMAIN records = 1 .. Len(records)
      /\ Divided(t, k, Len(records)) /\ Len(records) \in Nat /\ i \in 1 .. Len(records) + 1
  BY <1>1, <1>2, IsoAtHand
<1>4. i \in DOMAIN records /\ I!Rec = records[i]
  BY <1>1, <1>3 DEF I!Rec
<1>5. LeftOut(t, k, i)
  BY <1>1, <1>3, <1>4 DEF IsoTree, IsoNode
<1>6. n \in Nat /\ Cuts(t, k)[i] = n /\ nth \in Seq(Nat)
  BY <1>2, <1>3 DEF On
<1>7. Cuts(t, k)[i + 1] = n /\ i < Len(Cuts(t, k))
  BY <1>3, <1>4, <1>5, <1>6 DEF LeftOut, Divided
<1>8. Cut(t)
  BY IsoCut
<1>9. On(t, node, after, n)
  <2> HIDE DEF t
  <2> QED BY <1>2, <1>3, <1>6, <1>7, <1>8, GoesPast DEF t
<1>10. IsoFrames(file, I!Advanced, node, after)
  BY <1>1, <1>2, <1>3, <1>6, IsoFramesAfter
<1>11. walk'.visited = walk.visited /\ walk'.stack = I!Advanced /\ Len(I!Advanced) = Len(walk.stack)
  BY <1>1, IsoAdvance
<1> HIDE DEF after
<1> QED BY <1>9, <1>10, <1>11 DEF IsoAt

LEMMA IsoVisitTree ==
  ASSUME IsoInd, I!Visit, IsoTree(file), IsoListed(file, listing), IsoAt(file, walk, Len(listing))
  PROVE  IsoAt(file, walk', Len(listing) + 1) /\ IsoListed(file, listing') /\ Len(listing') = Len(listing) + 1
<1>1. /\ I!Walking /\ I!Top.next <= Len(I!Records) /\ ~I!Self(I!Rec.name)
      /\ I!Rec.reads = "ok" /\ I!AtRecord /\ I!Depth <= MaxIsoDepth
      /\ walk' = IF I!Descends
                 THEN [stack |-> Append(I!Advanced, I!Below), visited |-> walk.visited \union {I!Rec.extent}]
                 ELSE [stack |-> I!Advanced, visited |-> walk.visited]
      /\ listing' = Append(listing, I!EntryAtHand)
  BY DEF I!Visit, I!AtRecord, IsoInd, IsoShape
<1> DEFINE n == Len(listing)
<1>2. PICK node, nth : On(IsoT(file), node, nth, n) /\ IsoFrames(file, walk.stack, node, nth)
  BY DEF IsoAt
<1> DEFINE t == IsoT(file)
           L == Len(node)
           k == node[L]
           i == nth[Len(nth)]
           records == file.extents[Extent(file, k)]
           after == [nth EXCEPT ![Len(nth)] = nth[Len(nth)] + 1]
           m == file.members[n + 1]
<1>3. /\ node # <<>> /\ L \in Nat /\ L = Len(walk.stack) /\ Len(nth) = L
      /\ I!Top.next = i /\ I!Records = records
      /\ I!Top.prefix = PathOf(t, k) /\ Len(PathOf(t, k)) = I!Depth /\ I!Depth = L - 1
      /\ Entered(file, k) /\ k \in Nodes(t) /\ DOMAIN records = 1 .. Len(records)
      /\ Divided(t, k, Len(records)) /\ Len(records) \in Nat /\ i \in 1 .. Len(records) + 1
  BY <1>1, <1>2, IsoAtHand
<1>4. i \in DOMAIN records /\ I!Rec = records[i] /\ I!Rec \in I!Record
  <2>1. I!Rec \in I!Record
    BY <1>1, IsoRecType
  <2>2. i \in DOMAIN records
    BY <1>1, <1>3
  <2> QED BY <1>3, <2>1, <2>2 DEF I!Rec
<1> DEFINE name == I!Rec.name
<1>5. Listed(t, k, i, name) /\ IsoIs(file, file.members[Child(t, k, i)], I!Rec)
  BY <1>1, <1>3, <1>4 DEF IsoTree, IsoNode
<1>6. n \in Nat /\ nth \in Seq(Nat) /\ node \in Seq(Nat)
  BY <1>2 DEF On
<1>7. Cut(t) /\ i < Len(Cuts(t, k))
  BY <1>3, <1>4, IsoCut DEF Divided
<1> HIDE DEF name
<1>8. /\ n + 1 \in DOMAIN t.members /\ n + 1 \in Nodes(t)
      /\ Child(t, k, i) = n + 1
      /\ t.members[n + 1].path = Append(PathOf(t, k), name)
      /\ Len(Cuts(t, n + 1)) = 1 => On(t, node, after, n + 1)
      /\ On(t, Append(node, n + 1), Append(after, 1), n + 1)
  <2> HIDE DEF t
  <2> QED BY <1>2, <1>3, <1>5, <1>7, Descends DEF t
<1>9. t.members = file.members
  BY DEF IsoT, Tree
<1>10. IsoIs(file, m, I!Rec) /\ m.path = Append(I!Top.prefix, I!Rec.name)
  BY <1>3, <1>5, <1>8, <1>9 DEF name
<1>11. IsoStands(file, I!EntryAtHand, m)
  BY <1>10 DEF IsoStands, IsoIs, I!EntryAtHand, I!Bytes, Bytes, I!ByteAt, ByteAt
<1>12. IsoListed(file, listing') /\ Len(listing') = n + 1
  <2>1. listing \in Seq(IsoEntry)
    BY DEF IsoInd, IsoShape
  <2>2. IsSeq(listing) /\ DOMAIN listing = 1..n
    BY <2>1, SeqIsSeq
  <2>3. /\ IsSeq(listing') /\ Len(listing') = n + 1 /\ listing'[n + 1] = I!EntryAtHand
        /\ \A j \in 1..n : listing'[j] = listing[j]
    BY <1>1, <2>2, AppendIsSeq
  <2>4. n + 1 <= Len(file.members)
    BY <1>5, <1>8, <1>9 DEF Listed
  <2> HIDE DEF n
  <2>5. DOMAIN listing' = 1 .. n + 1
    BY <2>3 DEF IsSeq
  <2>6. ASSUME NEW j \in 1 .. n + 1 PROVE IsoStands(file, listing'[j], file.members[j])
    <3>1. CASE j = n + 1
      BY <1>11, <2>3, <3>1
    <3>2. CASE j # n + 1
      <4>1. j \in 1..n
        BY <1>6, <3>2
      <4> QED BY <2>2, <2>3, <4>1 DEF IsoListed
    <3> QED BY <3>1, <3>2
  <2> QED BY <2>3, <2>4, <2>5, <2>6 DEF IsoListed
<1>13. m.kind = I!Rec.kind /\ m.is = I!Rec.extent
  BY <1>10 DEF IsoIs
<1>14. walk.visited = Met(file, n)
  BY DEF IsoAt
<1> DEFINE dirs == {j \in 1..n : file.members[j].kind = "dir"}
           dirs2 == {j \in 1..n + 1 : file.members[j].kind = "dir"}
<1>15. dirs2 = dirs \union (IF m.kind = "dir" THEN {n + 1} ELSE {})
  <2>1. 1 .. n + 1 = (1..n) \union {n + 1}
    BY <1>6
  <2> HIDE DEF n
  <2> QED BY <2>1
<1>16. Met(file, n + 1) = Met(file, n) \union (IF m.kind = "dir" THEN {m.is} ELSE {})
  <2> HIDE DEF dirs, dirs2
  <2>1. Met(file, n) = {file.root} \union {file.members[x].is : x \in dirs}
    BY DEF Met, dirs
  <2>2. Met(file, n + 1) = {file.root} \union {file.members[x].is : x \in dirs2}
    BY DEF Met, dirs2
  <2> QED BY <1>15, <2>1, <2>2
<1>17. walk'.visited = Met(file, n + 1)
  <2>1. CASE I!Descends
    <3>1. m.kind = "dir" /\ walk'.visited = walk.visited \union {I!Rec.extent}
      BY <1>1, <1>13, <2>1 DEF I!Descends
    <3> QED BY <1>13, <1>14, <1>16, <3>1
  <2>2. CASE ~I!Descends
    <3>1. walk'.visited = walk.visited /\ (m.kind = "dir" => m.is \in walk.visited)
      BY <1>1, <1>13, <2>2 DEF I!Descends
    <3> QED BY <1>14, <1>16, <3>1
  <2> QED BY <2>1, <2>2
<1>18. Entered(file, n + 1) <=> I!Descends
  <2>1. n + 1 # 0 /\ n + 1 - 1 = n
    BY <1>6
  <2>2. Entered(file, n + 1) <=> m.kind = "dir" /\ m.is \notin Met(file, n)
    <3>1. m.is \in Met(file, n) <=>
            \/ m.is = file.root
            \/ \E j \in 1..n : file.members[j].kind = "dir" /\ file.members[j].is = m.is
      BY DEF Met
    <3> HIDE DEF n
    <3> DEFINE q == n + 1
    <3>2. q # 0 /\ 1 .. q - 1 = 1..n /\ m = file.members[q]
      BY <1>6, <2>1
    <3> HIDE DEF m, q
    <3>3. Entered(file, q) <=>
            /\ m.kind = "dir" /\ m.is # file.root
            /\ \A j \in 1..n : file.members[j].kind = "dir" => file.members[j].is # m.is
      BY <3>2 DEF Entered
    <3> QED BY <3>1, <3>3 DEF q
  <2> QED BY <1>13, <1>14, <2>2 DEF I!Descends
<1>19. IsoFrames(file, I!Advanced, node, after)
  BY <1>1, <1>2, <1>3, <1>6, IsoFramesAfter
<1>20. /\ I!Advanced \in Seq(IsoFrame) /\ Len(I!Advanced) = L /\ IsSeq(I!Advanced)
       /\ after \in Seq(Nat) /\ Len(after) = L
  <2>1. I!Advanced \in Seq(IsoFrame) /\ Len(I!Advanced) = L
    BY <1>1, <1>3, IsoAdvance
  <2>2. IsSeq(I!Advanced)
    BY <2>1, SeqIsSeq
  <2>3. i + 1 \in Nat
    BY <1>3
  <2>4. after \in Seq(Nat) /\ Len(after) = L
    BY <1>3, <1>6, <2>3
  <2> QED BY <2>1, <2>2, <2>4
<1>21. \A x \in 0..n : Entered(file, x) => Len(PathOf(t, x)) <= MaxIsoDepth
  <2>1. ~(Len(walk.stack) - 1 > MaxIsoDepth)
    BY <1>1, <1>3, TreesAssumption DEF I!IsoAssumption
  <2> QED BY <2>1 DEF IsoAt
<1> HIDE DEF after, n, L, t, i
<1>22. CASE ~I!Descends
  <2>1. Len(Cuts(t, n + 1)) = 1
    BY <1>8, <1>18, <1>22 DEF IsoTree, IsoNode, Divided, t
  <2>2. On(t, node, after, n + 1)
    BY <1>8, <2>1
  <2>3. walk'.stack = I!Advanced
    BY <1>1, <1>22
  <2>4. ASSUME NEW x \in 0 .. n + 1, Entered(file, x) PROVE Len(PathOf(t, x)) <= MaxIsoDepth
    <3>1. x # n + 1
      BY <1>18, <1>22, <2>4
    <3>2. x \in 0..n
      BY <1>6, <3>1
    <3> QED BY <1>21, <2>4, <3>2
  <2>5. IsoAt(file, walk', n + 1)
    BY <1>17, <1>19, <2>2, <2>3, <2>4 DEF IsoAt, t
  <2> QED BY <1>12, <2>5 DEF n
<1>23. CASE I!Descends
  <2> DEFINE node2 == Append(node, n + 1)
             nth2 == Append(after, 1)
             stack2 == Append(I!Advanced, I!Below)
  <2>1. On(t, node2, nth2, n + 1)
    BY <1>8
  <2>2. walk'.stack = stack2
    BY <1>1, <1>23
  <2>3. /\ Len(stack2) = L + 1 /\ stack2[L + 1] = I!Below /\ \A j \in 1..L : stack2[j] = I!Advanced[j]
    BY <1>20, AppendIsSeq
  <2>4. /\ Len(node2) = L + 1 /\ Len(nth2) = L + 1 /\ node2[L + 1] = n + 1 /\ nth2[L + 1] = 1
        /\ \A j \in 1..L : node2[j] = node[j] /\ nth2[j] = after[j]
    BY <1>6, <1>20 DEF L
  <2>5. /\ I!Below.extent = m.is /\ I!Below.prefix = m.path /\ I!Below.next = 1
    BY <1>10, <1>13 DEF I!Below
  <2>6. Extent(file, n + 1) = m.is /\ PathOf(t, n + 1) = m.path
    <3>1. n + 1 # 0
      BY <1>6
    <3> QED BY <1>9, <3>1 DEF Extent, PathOf
  <2>7. Len(m.path) = L
    <3>1. Len(PathOf(t, k)) = L - 1 /\ PathOf(t, k) \in Seq(STRING)
      <4>1. Counted(t)
        BY <1>7 DEF Cut
      <4>2. CASE k = 0
        <5>1. PathOf(t, k) = <<>>
          BY <4>2 DEF PathOf
        <5> QED BY <1>3, <5>1
      <4>3. CASE k # 0
        <5>1. k \in DOMAIN t.members
          BY <1>3, <4>1, <4>3 DEF Nodes, Counted, IsSeq
        <5> QED BY <1>3, <4>1, <4>3, <5>1 DEF PathOf, Counted
      <4> QED BY <4>2, <4>3
    <3>2. I!Top.prefix = PathOf(t, k) /\ I!Rec.name \in STRING
      BY <1>3, <1>4 DEF I!Record
    <3> HIDE DEF m, k
    <3>3. Len(Append(PathOf(t, k), I!Rec.name)) = L - 1 + 1
      BY <3>1, <3>2
    <3> QED BY <1>3, <1>10, <3>2, <3>3
  <2> HIDE DEF node2, nth2, stack2, m
  <2>8. IsoFrames(file, stack2, node2, nth2)
    <3>1. ASSUME NEW j \in 1 .. L + 1
          PROVE  /\ stack2[j].extent = Extent(file, node2[j]) /\ stack2[j].prefix = PathOf(t, node2[j])
                 /\ stack2[j].next = nth2[j] /\ Entered(file, node2[j]) /\ Len(PathOf(t, node2[j])) = j - 1
      <4>1. CASE j = L + 1
        <5>1. j - 1 = L
          BY <1>3, <4>1
        <5> QED BY <1>18, <1>23, <2>3, <2>4, <2>5, <2>6, <2>7, <4>1, <5>1
      <4>2. CASE j # L + 1
        <5>1. j \in 1..L
          BY <1>3, <4>2
        <5> QED BY <1>19, <2>3, <2>4, <5>1 DEF IsoFrames, L, t
      <4> QED BY <4>1, <4>2
    <3> QED BY <2>3, <2>4, <3>1 DEF IsoFrames, t
  <2>9. ASSUME NEW x \in 0 .. n + 1, Entered(file, x)
        PROVE  Len(PathOf(t, x)) <= MaxIsoDepth \/ Len(stack2) - 1 > MaxIsoDepth
    <3>1. CASE x = n + 1
      <4>1. Len(PathOf(t, x)) = L /\ Len(stack2) - 1 = L
        BY <1>3, <2>3, <2>6, <2>7, <3>1
      <4> QED BY <1>3, <4>1, TreesAssumption DEF I!IsoAssumption
    <3>2. CASE x # n + 1
      <4>1. x \in 0..n
        BY <1>6, <3>2
      <4> QED BY <1>21, <2>9, <4>1
    <3> QED BY <3>1, <3>2
  <2>10. IsoAt(file, walk', n + 1)
    BY <1>17, <2>1, <2>2, <2>8, <2>9 DEF IsoAt, t
  <2> QED BY <1>12, <2>10 DEF n
<1> QED BY <1>22, <1>23

LEMMA IsoLeaveTree ==
  ASSUME IsoInd, I!Leave, IsoTree(file), NEW n, IsoAt(file, walk, n)
  PROVE  IsoAt(file, walk', n)
<1> DEFINE m == Len(walk.stack) - 1
           stack2 == SubSeq(walk.stack, 1, m)
<1>1. /\ I!Walking /\ I!Top.next > Len(I!Records) /\ I!Depth <= MaxIsoDepth
      /\ walk' = [stack |-> stack2, visited |-> walk.visited]
  BY DEF I!Leave, IsoInd, IsoShape
<1>2. PICK node, nth : On(IsoT(file), node, nth, n) /\ IsoFrames(file, walk.stack, node, nth)
  BY DEF IsoAt
<1> DEFINE t == IsoT(file)
           L == Len(node)
           k == node[L]
           records == file.extents[Extent(file, k)]
<1>3. /\ node # <<>> /\ L \in Nat /\ L = Len(walk.stack) /\ Len(nth) = L /\ I!Top.next = nth[L]
      /\ I!Records = records /\ Len(records) \in Nat
      /\ Divided(t, k, Len(records)) /\ nth[L] \in 1 .. Len(records) + 1 /\ I!Depth = L - 1
  BY <1>1, <1>2, IsoAtHand
<1>4. nth[Len(nth)] = Len(Cuts(t, k)) /\ Cut(t)
  <2>1. Len(Cuts(t, k)) = Len(records) + 1
    BY <1>3 DEF Divided
  <2>2. nth[L] > Len(records)
    BY <1>1, <1>3
  <2> HIDE DEF L, records, k
  <2>3. nth[L] = Len(records) + 1
    BY <1>3, <2>2
  <2> QED BY <1>3, <2>1, <2>3, IsoCut DEF L
<1> DEFINE node2 == SubSeq(node, 1, Len(node) - 1)
           nth2 == SubSeq(nth, 1, Len(nth) - 1)
<1>5. On(t, node2, nth2, n)
  <2> HIDE DEF t
  <2> QED BY <1>2, <1>3, <1>4, Leaves DEF t
<1>6. node \in Seq(Nat) /\ nth \in Seq(Nat) /\ walk.stack \in Seq(IsoFrame)
  BY <1>2 DEF On, IsoInd, IsoShape
<1>7. IsSeq(node) /\ IsSeq(nth) /\ IsSeq(walk.stack) /\ nth # <<>> /\ walk.stack # <<>>
  BY <1>1, <1>3, <1>6, SeqIsSeq DEF I!Walking
<1>8. /\ Len(node2) = m /\ \A j \in 1..m : node2[j] = node[j]
  BY <1>3, <1>7, WithoutLast
<1>9. /\ Len(nth2) = m /\ \A j \in 1..m : nth2[j] = nth[j]
  BY <1>3, <1>7, WithoutLast
<1>10. /\ Len(stack2) = m /\ \A j \in 1..m : stack2[j] = walk.stack[j]
  BY <1>3, <1>7, WithoutLast
<1>11. walk'.stack = stack2 /\ walk'.visited = walk.visited
  BY <1>1
<1>12. m \in Nat /\ \A j \in 1..m : j \in 1..L
  BY <1>3, <1>7
<1>13. ~(Len(walk.stack) - 1 > MaxIsoDepth)
  BY <1>1, <1>3, TreesAssumption DEF I!IsoAssumption
<1> HIDE DEF node2, nth2, stack2, m
<1>14. IsoFrames(file, stack2, node2, nth2)
  BY <1>2, <1>8, <1>9, <1>10, <1>12 DEF IsoFrames
<1> QED BY <1>5, <1>11, <1>13, <1>14 DEF IsoAt

----------------------------------------------------------------------------
\* A record has been passed; what is met now is on the stack.
Grown(f, w, w2) ==
  LET L == Len(w.stack) IN
  /\ IsSeq(w.stack) /\ IsSeq(w2.stack) /\ L \in Nat \ {0} /\ Len(w2.stack) >= L
  /\ \A j \in 1..L : w2.stack[j].extent = w.stack[j].extent
  /\ \A j \in 1..L : j # L => w2.stack[j].next = w.stack[j].next
  /\ w.stack[L].next \in Nat /\ w2.stack[L].next = w.stack[L].next + 1
  /\ Passed(f, w2, w.stack[L].extent, w.stack[L].next)
  /\ w.visited \subseteq w2.visited
  /\ \A e \in w2.visited :
       e \in w.visited \/ \E j \in DOMAIN w2.stack : w2.stack[j].extent = e /\ w2.stack[j].next = 1

\* What has been passed stays so, whatever is met besides.
LEMMA IsoLostMore ==
  ASSUME NEW f, NEW w, IsoLost(f, w), NEW w2, Grown(f, w, w2)
  PROVE  IsoLost(f, w2)
<1> DEFINE L == Len(w.stack)
<1>0. /\ IsSeq(w.stack) /\ IsSeq(w2.stack) /\ L \in Nat \ {0} /\ Len(w2.stack) >= L
      /\ \A j \in 1..L : w2.stack[j].extent = w.stack[j].extent
      /\ \A j \in 1..L : j # L => w2.stack[j].next = w.stack[j].next
      /\ w.stack[L].next \in Nat /\ w2.stack[L].next = w.stack[L].next + 1
      /\ Passed(f, w2, w.stack[L].extent, w.stack[L].next)
      /\ w.visited \subseteq w2.visited
      /\ \A e \in w2.visited :
           e \in w.visited \/ \E j \in DOMAIN w2.stack : w2.stack[j].extent = e /\ w2.stack[j].next = 1
  BY DEF Grown
<1>1. \A e, i : Passed(f, w, e, i) => Passed(f, w2, e, i)
  BY <1>0 DEF Passed
<1>2. IsoFault(f) /\ f.root \in w2.visited
  BY <1>0 DEF IsoLost
<1>3. DOMAIN w.stack = 1..L /\ DOMAIN w2.stack = 1..Len(w2.stack) /\ Len(w2.stack) \in Nat
  <2>1. Len(w2.stack) \in Nat
    BY <1>0 DEF IsSeq
  <2> QED BY <1>0, <2>1 DEF IsSeq
<1> HIDE DEF L
<1>4. ASSUME NEW e \in w2.visited
      PROVE  \/ \A i \in DOMAIN f.extents[e] : Passed(f, w2, e, i)
             \/ \E j \in DOMAIN w2.stack :
                  w2.stack[j].extent = e /\ \A i \in 1 .. w2.stack[j].next - 1 : Passed(f, w2, e, i)
  <2>1. CASE e \notin w.visited
    <3>1. PICK j \in DOMAIN w2.stack : w2.stack[j].extent = e /\ w2.stack[j].next = 1
      BY <1>0, <1>4, <2>1
    <3>2. 1 .. w2.stack[j].next - 1 = {}
      BY <3>1
    <3> QED BY <3>1, <3>2
  <2>2. CASE e \in w.visited
    <3>1. CASE \A i \in DOMAIN f.extents[e] : Passed(f, w, e, i)
      BY <1>1, <3>1
    <3>2. ASSUME NEW j \in DOMAIN w.stack, w.stack[j].extent = e,
                 \A i \in 1 .. w.stack[j].next - 1 : Passed(f, w, e, i)
          PROVE  j \in DOMAIN w2.stack /\ w2.stack[j].extent = e
                 /\ \A i \in 1 .. w2.stack[j].next - 1 : Passed(f, w2, e, i)
      <4>1. j \in 1..L /\ j \in DOMAIN w2.stack /\ w2.stack[j].extent = e
        BY <1>0, <1>3, <3>2
      <4>2. CASE j # L
        BY <1>0, <1>1, <3>2, <4>1, <4>2
      <4>3. CASE j = L
        <5>1. ASSUME NEW i \in 1 .. w2.stack[j].next - 1 PROVE Passed(f, w2, e, i)
          <6>1. i = w.stack[L].next \/ i \in 1 .. w.stack[L].next - 1
            BY <1>0, <4>3, <5>1
          <6> QED BY <1>0, <1>1, <3>2, <4>3, <6>1
        <5> QED BY <4>1, <5>1
      <4> QED BY <4>2, <4>3
    <3> QED BY <2>2, <3>1, <3>2 DEF IsoLost
  <2> QED BY <2>1, <2>2
<1> QED BY <1>2, <1>4 DEF IsoLost

LEMMA IsoGoesOnLost ==
  ASSUME IsoInd, I!PassSelf \/ I!Visit, IsoLost(file, walk)
  PROVE  IsoLost(file, walk')
<1> DEFINE L == Len(walk.stack)
<1>1. /\ I!Walking /\ I!AtRecord /\ I!Rec.reads = "ok"
      /\ walk = [stack |-> walk.stack, visited |-> walk.visited]
  BY DEF I!PassSelf, I!Visit, I!AtRecord, IsoInd, IsoShape
<1>2. /\ L \in Nat \ {0} /\ I!Advanced \in Seq(IsoFrame) /\ Len(I!Advanced) = L
      /\ \A j \in 1..L : I!Advanced[j].extent = walk.stack[j].extent
      /\ \A j \in 1..L : j # L => I!Advanced[j].next = walk.stack[j].next
      /\ I!Advanced[L].next = I!Top.next + 1
  BY <1>1, IsoAdvance
<1>3. I!Top = walk.stack[L] /\ I!Top \in IsoFrame /\ walk.stack \in Seq(IsoFrame)
  BY <1>1, IsoTopType
<1>4. IsSeq(walk.stack) /\ IsSeq(I!Advanced) /\ I!Top.next \in Nat
  BY <1>2, <1>3, SeqIsSeq DEF IsoFrame
<1>5. I!Rec = file.extents[I!Top.extent][I!Top.next]
  BY DEF I!Rec, I!Records
<1> HIDE DEF L
<1>6. CASE I!PassSelf \/ (I!Visit /\ ~I!Descends)
  <2> DEFINE w2 == [stack |-> I!Advanced, visited |-> walk.visited]
  <2>1. walk' = w2
    BY <1>1, <1>6 DEF I!PassSelf, I!Visit
  <2>2. w2.stack = I!Advanced /\ w2.visited = walk.visited
    OBVIOUS
  <2> HIDE DEF w2
  <2>3. Passed(file, w2, I!Top.extent, I!Top.next)
    BY <1>1, <1>5, <1>6, <2>2 DEF Passed, I!PassSelf, I!Descends
  <2>4. IsoLost(file, w2)
    <3>1. Grown(file, walk, w2)
      BY <1>2, <1>3, <1>4, <2>2, <2>3 DEF Grown, L
    <3> QED BY <3>1, IsoLostMore
  <2> QED BY <2>1, <2>4
<1>7. CASE I!Visit /\ I!Descends
  <2> DEFINE stack2 == Append(I!Advanced, I!Below)
             w2 == [stack |-> stack2, visited |-> walk.visited \union {I!Rec.extent}]
  <2>1. walk' = w2
    BY <1>1, <1>7 DEF I!Visit
  <2>2. w2.stack = stack2 /\ w2.visited = walk.visited \union {I!Rec.extent}
    OBVIOUS
  <2>3. /\ IsSeq(stack2) /\ Len(stack2) = L + 1 /\ stack2[L + 1] = I!Below
        /\ \A j \in 1..L : stack2[j] = I!Advanced[j]
    BY <1>2, <1>4, AppendIsSeq
  <2>4. I!Below.extent = I!Rec.extent /\ I!Below.next = 1
    BY DEF I!Below
  <2> HIDE DEF stack2, w2
  <2>5. Passed(file, w2, I!Top.extent, I!Top.next)
    BY <1>1, <1>5, <1>7, <2>2 DEF Passed, I!Descends
  <2>6. L + 1 \in DOMAIN stack2 /\ Len(w2.stack) >= L /\ L \in 1..L
    BY <1>2, <2>2, <2>3 DEF IsSeq
  <2>7. \A e \in w2.visited :
          e \in walk.visited \/ \E j \in DOMAIN w2.stack : w2.stack[j].extent = e /\ w2.stack[j].next = 1
    BY <2>2, <2>3, <2>4, <2>6
  <2>8. /\ \A j \in 1..L : w2.stack[j].extent = walk.stack[j].extent
        /\ \A j \in 1..L : j # L => w2.stack[j].next = walk.stack[j].next
        /\ w2.stack[L].next = walk.stack[L].next + 1
    BY <1>2, <1>3, <2>2, <2>3, <2>6
  <2>9. IsoLost(file, w2)
    <3>1. IsSeq(w2.stack) /\ walk.visited \subseteq w2.visited
      BY <2>2, <2>3
    <3>2. walk.stack[L].next \in Nat /\ Passed(file, w2, walk.stack[L].extent, walk.stack[L].next)
      BY <1>3, <1>4, <2>5
    <3>3. L = Len(walk.stack) /\ L \in Nat \ {0}
      BY <1>2 DEF L
    <3>4. Grown(file, walk, w2)
      BY <1>4, <2>6, <2>7, <2>8, <3>1, <3>2, <3>3 DEF Grown
    <3> QED BY <3>4, IsoLostMore
  <2> QED BY <2>1, <2>9
<1> QED BY <1>6, <1>7

LEMMA IsoLeaveLost ==
  ASSUME IsoInd, I!Leave, IsoLost(file, walk)
  PROVE  IsoLost(file, walk')
<1> DEFINE L == Len(walk.stack)
           stack2 == SubSeq(walk.stack, 1, L - 1)
<1>1. /\ I!Walking /\ I!Top.next > Len(I!Records)
      /\ walk' = [stack |-> stack2, visited |-> walk.visited]
  BY DEF I!Leave, IsoInd, IsoShape
<1>2. /\ walk.stack \in Seq(IsoFrame) /\ L \in Nat \ {0} /\ I!Top = walk.stack[L]
      /\ I!Top \in IsoFrame /\ I!IsoImage(file) /\ I!Top.extent \in DOMAIN file.extents
  BY <1>1, IsoTopType
<1>3. IsSeq(walk.stack) /\ walk.stack # <<>> /\ DOMAIN walk.stack = 1..L
  BY <1>1, <1>2, SeqIsSeq DEF I!Walking
<1>4. IsSeq(stack2) /\ Len(stack2) = L - 1 /\ \A j \in 1 .. L - 1 : stack2[j] = walk.stack[j]
  BY <1>3, WithoutLast
<1>5. walk'.stack = stack2 /\ walk'.visited = walk.visited
  BY <1>1
<1> HIDE DEF stack2, L
<1>6. DOMAIN stack2 = 1 .. L - 1
  BY <1>4 DEF IsSeq
<1>7. \A e, i : Passed(file, walk, e, i) <=> Passed(file, walk', e, i)
  BY <1>5 DEF Passed
<1>8. ASSUME NEW e \in walk.visited
      PROVE  \/ \A i \in DOMAIN file.extents[e] : Passed(file, walk, e, i)
             \/ \E j \in DOMAIN stack2 :
                  stack2[j].extent = e /\ \A i \in 1 .. stack2[j].next - 1 : Passed(file, walk, e, i)
  <2>1. \/ \A i \in DOMAIN file.extents[e] : Passed(file, walk, e, i)
        \/ \E j \in DOMAIN walk.stack :
             walk.stack[j].extent = e /\ \A i \in 1 .. walk.stack[j].next - 1 : Passed(file, walk, e, i)
    BY <1>8 DEF IsoLost
  <2>2. ASSUME NEW j \in DOMAIN walk.stack, walk.stack[j].extent = e,
               \A i \in 1 .. walk.stack[j].next - 1 : Passed(file, walk, e, i)
        PROVE  \/ \A i \in DOMAIN file.extents[e] : Passed(file, walk, e, i)
               \/ \E q \in DOMAIN stack2 :
                    stack2[q].extent = e /\ \A i \in 1 .. stack2[q].next - 1 : Passed(file, walk, e, i)
    <3>1. CASE j # L
      <4>1. j \in 1 .. L - 1
        BY <1>2, <1>3, <2>2, <3>1
      <4> QED BY <1>4, <1>6, <2>2, <4>1
    <3>2. CASE j = L
      <4>1. e = I!Top.extent /\ \A i \in 1 .. I!Top.next - 1 : Passed(file, walk, e, i)
        BY <1>2, <2>2, <3>2
      <4> DEFINE records == file.extents[e]
      <4>2. records \in Seq(I!Record) /\ I!Records = records
        BY <1>2, <4>1 DEF I!IsoImage, I!Records
      <4>3. \A i \in DOMAIN records : i \in 1 .. I!Top.next - 1
        <5> HIDE DEF records
        <5>1. I!Top.next \in Nat
          BY <1>2 DEF IsoFrame
        <5> QED BY <1>1, <4>2, <5>1
      <4> QED BY <4>1, <4>3
    <3> QED BY <3>1, <3>2
  <2> QED BY <2>1, <2>2
<1> QED BY <1>5, <1>7, <1>8 DEF IsoLost

LEMMA IsoNoEnd ==
  ASSUME IsoLost(file, walk), walk.stack = <<>>
  PROVE  FALSE
<1>1. /\ file.fault \in Seq(Nat) /\ file.fault # <<>> /\ file.fault[1] = file.root
      /\ \A j \in 1 .. Len(file.fault) - 1 : LeadsTo(file, file.fault[j], file.fault[j + 1])
  BY DEF IsoLost, IsoFault
<1>2. \A e \in walk.visited : \A i \in DOMAIN file.extents[e] : Passed(file, walk, e, i)
  BY DEF IsoLost
<1>3. Len(file.fault) \in Nat \ {0} /\ Len(file.fault) \in DOMAIN file.fault
      /\ DOMAIN file.fault = 1 .. Len(file.fault)
  BY <1>1
<1> DEFINE S == {j \in DOMAIN file.fault : file.fault[j] \notin walk.visited}
<1>4. file.fault[Len(file.fault)] \notin walk.visited
  <2>1. PICK i \in DOMAIN file.extents[file.fault[Len(file.fault)]] :
          file.extents[file.fault[Len(file.fault)]][i].reads # "ok"
    BY DEF IsoLost, IsoFault
  <2> QED BY <1>2, <2>1 DEF Passed
<1>5. S \subseteq Nat /\ S # {}
  BY <1>3, <1>4
<1>6. PICK k \in S : \A j \in S : k <= j
  BY <1>5, Smallest
<1>7. k # 1
  BY <1>1, <1>6 DEF IsoLost
<1>8. k - 1 \in 1 .. Len(file.fault) - 1 /\ k - 1 \in DOMAIN file.fault /\ k - 1 + 1 = k
      /\ k - 1 \notin S
  BY <1>3, <1>6, <1>7
<1>9. file.fault[k - 1] \in walk.visited /\ LeadsTo(file, file.fault[k - 1], file.fault[k])
  BY <1>1, <1>8
<1>10. file.fault[k] \in walk.visited
  BY <1>2, <1>9 DEF LeadsTo, Passed
<1> QED BY <1>6, <1>10

----------------------------------------------------------------------------
LEMMA IsoWalks == ASSUME IsoInv, status = "walking"
  PROVE  IsoInd /\ IsoKept(file) /\ IsoWalk(file, walk, listing) /\ answers = <<>>
BY DEF IsoInv

LEMMA IsoGoesOn ==
  ASSUME IsoInv, IsoInd', I!PassSelf \/ I!Visit \/ I!Leave
  PROVE  IsoInv'
<1>1. /\ status = "walking" /\ status' = status /\ file' = file /\ answers' = answers
      /\ I!PassSelf \/ I!Leave => listing' = listing
  BY DEF I!PassSelf, I!Visit, I!Leave, I!AtRecord, I!Walking
<1>2. IsoInd /\ IsoKept(file) /\ IsoWalk(file, walk, listing) /\ answers = <<>>
  BY <1>1, IsoWalks
<1>3. IsoWalk(file, walk', listing')
  <2>1. CASE /\ file.damage = "none" <=> Shallow(file)
             /\ IsoTree(file) /\ IsoListed(file, listing) /\ IsoAt(file, walk, Len(listing))
    BY <1>1, <1>2, <2>1, IsoPassTree, IsoVisitTree, IsoLeaveTree DEF IsoWalk
  <2>2. CASE file.damage # "none" /\ IsoLost(file, walk)
    BY <1>2, <2>2, IsoGoesOnLost, IsoLeaveLost DEF IsoWalk
  <2> QED BY <1>2, <2>1, <2>2 DEF IsoWalk
<1> QED BY <1>1, <1>2, <1>3 DEF IsoInv

LEMMA IsoTooDeep == ASSUME IsoInv, IsoInd', I!TooDeep PROVE IsoInv'
<1>1. status = "walking" /\ I!Walking /\ I!Depth > MaxIsoDepth /\ I!Refuse("Corrupt")
  BY DEF I!TooDeep, I!Walking
<1>2. IsoInd /\ IsoWalk(file, walk, listing)
  BY <1>1, IsoWalks
<1>3. file.damage # "none"
  <2> SUFFICES ASSUME file.damage = "none" PROVE FALSE
    OBVIOUS
  <2>1. Shallow(file) /\ IsoTree(file) /\ IsoAt(file, walk, Len(listing))
    BY <1>2 DEF IsoWalk
  <2>2. PICK node, nth : /\ On(IsoT(file), node, nth, Len(listing))
                         /\ IsoFrames(file, walk.stack, node, nth)
    BY <2>1 DEF IsoAt
  <2> DEFINE k == node[Len(node)]
  <2>3. k \in Nodes(IsoT(file)) /\ Entered(file, k) /\ Len(PathOf(IsoT(file), k)) = I!Depth
        /\ I!Depth = Len(node) - 1 /\ Len(node) \in Nat
    BY <1>1, <1>2, <2>1, <2>2, IsoAtHand
  <2>4. I!Depth <= MaxIsoDepth
    BY <2>1, <2>3 DEF Shallow
  <2> QED BY <1>1, <2>3, <2>4, TreesAssumption DEF I!IsoAssumption
<1> QED BY <1>1, <1>3, IsoRefuses

LEMMA IsoCannotRead == ASSUME IsoInv, IsoInd', I!CannotRead PROVE IsoInv'
<1>1. /\ status = "walking" /\ I!AtRecord /\ I!Walking /\ I!Rec.reads # "ok"
      /\ I!Refuse(IF I!Rec.reads = "panic" THEN "Corrupt" ELSE I!Rec.reads)
      /\ I!Top.next <= Len(I!Records)
  BY DEF I!CannotRead, I!AtRecord, I!Walking
<1>2. IsoInd /\ IsoWalk(file, walk, listing)
  BY <1>1, IsoWalks
<1>3. file.damage # "none"
  <2> SUFFICES ASSUME file.damage = "none" PROVE FALSE
    OBVIOUS
  <2>1. IsoTree(file) /\ IsoAt(file, walk, Len(listing))
    BY <1>2 DEF IsoWalk
  <2>2. PICK node, nth : /\ On(IsoT(file), node, nth, Len(listing))
                         /\ IsoFrames(file, walk.stack, node, nth)
    BY <2>1 DEF IsoAt
  <2> DEFINE k == node[Len(node)]
             records == file.extents[Extent(file, k)]
             i == nth[Len(nth)]
  <2>3. /\ k \in Nodes(IsoT(file)) /\ Entered(file, k) /\ I!Records = records /\ I!Top.next = i
        /\ DOMAIN records = 1 .. Len(records) /\ Len(records) \in Nat /\ i \in 1 .. Len(records) + 1
    BY <1>1, <1>2, <2>1, <2>2, IsoAtHand
  <2>4. i \in DOMAIN records /\ I!Rec = records[i]
    BY <1>1, <2>3 DEF I!Rec
  <2> QED BY <1>1, <2>1, <2>3, <2>4 DEF IsoTree, IsoNode
<1>4. I!Rec \in I!Record
  BY <1>1, <1>2, IsoRecType
<1>5. \E error \in {"Corrupt", "Io"} : I!Refuse(error)
  BY <1>1, <1>4 DEF I!Record
<1> QED BY <1>1, <1>3, <1>5, IsoRefuses

LEMMA IsoFinish == ASSUME IsoInv, IsoInd', I!Finish PROVE IsoInv'
<1>1. /\ status = "walking" /\ walk.stack = <<>> /\ status' = "open"
      /\ answers' = [i \in DOMAIN listing |-> I!NotRead]
      /\ file' = file /\ listing' = listing
  BY DEF I!Finish
<1>2. IsoKept(file) /\ IsoWalk(file, walk, listing)
  BY <1>1, IsoWalks
<1>3. /\ file.damage = "none" <=> Shallow(file)
      /\ IsoTree(file) /\ IsoListed(file, listing) /\ IsoAt(file, walk, Len(listing))
  BY <1>1, <1>2, IsoNoEnd DEF IsoWalk
<1>4. PICK node, nth : /\ On(IsoT(file), node, nth, Len(listing))
                       /\ IsoFrames(file, walk.stack, node, nth)
  BY <1>3 DEF IsoAt
<1>5. Len(walk.stack) = 0 /\ node \in Seq(Nat) /\ Len(node) = 0
  BY <1>1, <1>4 DEF IsoFrames, On
<1>6. Len(listing) = Len(file.members)
  <2>1. node = <<>>
    BY <1>5
  <2> QED BY <1>4, <2>1 DEF On, IsoT, Tree
<1>7. file.damage = "none"
  <2>1. ~(Len(walk.stack) - 1 > MaxIsoDepth)
    BY <1>5, TreesAssumption DEF I!IsoAssumption
  <2>2. Nodes(IsoT(file)) = 0 .. Len(listing)
    BY <1>6 DEF Nodes, IsoT, Tree
  <2>3. Shallow(file)
    BY <1>3, <2>1, <2>2 DEF IsoAt, Shallow
  <2> QED BY <1>3, <2>3
<1>8. I!NotRead.said # "ok"
  BY DEF I!NotRead, I!Answer
<1>9. DOMAIN answers' = DOMAIN listing /\ \A i \in DOMAIN listing : answers'[i].said # "ok"
  BY <1>1, <1>8
<1> QED BY <1>1, <1>2, <1>3, <1>6, <1>7, <1>9 DEF IsoInv

LEMMA IsoGives ==
  ASSUME NEW x \in IsoEntry, NEW m, file.len \in Nat, IsoStands(file, x, m), x.kind = "file",
         I!ReadBody(x).said = "ok"
  PROVE  I!ReadBody(x).given = m.content
<1> DEFINE n == Reach(file, x.extent, x.size)
           given == Bytes(file, x.extent, n)
<1>1. x.extent \in Nat /\ x.size \in Nat
  BY DEF IsoEntry
<1>2. n \in Nat
  BY <1>1 DEF Reach
<1>3. I!ReadBody(x) = Answer(IF Len(given) = x.size THEN "ok" ELSE "Io", given)
  BY DEF I!ReadBody, I!Answer, Answer, I!Bytes, Bytes, I!ByteAt, ByteAt, I!Reach, Reach
<1>4. Len(given) = n
  <2> HIDE DEF n
  <2>1. given = [k \in 1..n |-> ByteAt(file, x.extent + k - 1)]
    BY DEF Bytes
  <2> QED BY <1>2, <2>1
<1> HIDE DEF n
<1>5. n = x.size /\ I!ReadBody(x).given = given
  <2> HIDE DEF given
  <2> QED BY <1>3, <1>4 DEF Answer
<1> QED BY <1>5 DEF IsoStands

LEMMA IsoReads == ASSUME IsoInv, IsoInd', NEW i \in DOMAIN listing, I!ReadEntry(i) PROVE IsoInv'
<1>1. /\ status = "open" /\ status' = status /\ listing' = listing /\ file' = file
      /\ answers' = [answers EXCEPT ![i] = I!ReadBody(listing[i])]
  BY DEF I!ReadEntry
<1>2. /\ IsoKept(file) /\ file.damage = "none" /\ IsoListed(file, listing)
      /\ Len(listing) = Len(file.members) /\ DOMAIN answers = DOMAIN listing
      /\ listing \in Seq(IsoEntry)
  BY <1>1 DEF IsoInv, IsoInd, IsoShape
<1>3. listing[i] \in IsoEntry /\ IsoStands(file, listing[i], file.members[i])
  BY <1>2 DEF IsoListed
<1>4. I!ReadBody(listing[i]).said = "ok" /\ listing[i].kind = "file" =>
        I!ReadBody(listing[i]).given = file.members[i].content
  BY <1>2, <1>3, IsoGives DEF IsoKept
<1>5. DOMAIN answers' = DOMAIN listing
  BY <1>1, <1>2
<1>6. ASSUME NEW k \in DOMAIN listing
      PROVE  answers'[k].said = "ok" /\ listing[k].kind = "file" =>
               answers'[k].given = file.members[k].content
  <2>1. CASE k = i
    BY <1>1, <1>2, <1>4, <2>1
  <2>2. CASE k # i
    BY <1>1, <1>2, <2>2 DEF IsoInv
  <2> QED BY <2>1, <2>2
<1> QED BY <1>1, <1>2, <1>5, <1>6 DEF IsoInv

LEMMA IsoShrinks == ASSUME IsoInv, IsoInd', I!Shrink PROVE IsoInv'
<1>1. PICK n \in TreeCuts : n <= file.len /\ file' = [file EXCEPT !.len = @ - n, !.shrunk = TRUE]
  BY DEF I!Shrink
<1>2. status = "open" /\ walk' = walk /\ listing' = listing /\ status' = status /\ answers' = answers
  BY DEF I!Shrink
<1>3. /\ IsoKept(file) /\ file.damage = "none" /\ IsoListed(file, listing)
      /\ Len(listing) = Len(file.members) /\ DOMAIN answers = DOMAIN listing
  BY <1>2 DEF IsoInv
<1>4. n \in Nat
  BY TreesAssumption
<1>5. /\ file'.format = file.format /\ file'.members = file.members /\ file'.damage = file.damage
      /\ file'.byte = file.byte /\ file'.len = file.len - n /\ DOMAIN file' = DOMAIN file
      /\ file' = [x \in DOMAIN file |-> file'[x]]
  BY <1>1, <1>3 DEF IsoKept, HasFields
<1>6. IsoKept(file')
  BY <1>1, <1>3, <1>4, <1>5 DEF IsoKept, HasFields
<1>7. \A p, k : Bytes(file', p, k) = Bytes(file, p, k)
  BY <1>5 DEF Bytes, ByteAt
<1>8. IsoListed(file', listing)
  BY <1>3, <1>5, <1>7 DEF IsoListed, IsoStands
<1> QED BY <1>2, <1>3, <1>5, <1>6, <1>8 DEF IsoInv

LEMMA IsoNext == ASSUME IsoInv, I!Next PROVE IsoInv'
<1>1. IsoInd'
  BY TreesAssumption, IsoNextInd DEF IsoInv
<1>2. CASE I!RefuseStream
  <2>1. WrittenIso(file) /\ ~IsoOpens(file) /\ status = "new"
    BY <1>2 DEF I!RefuseStream, IsoInv, IsoOpens
  <2>2. file.damage # "none" /\ I!Refuse("Unsupported")
    BY <1>2, <2>1 DEF WrittenIso, I!RefuseStream
  <2> QED BY <1>1, <2>1, <2>2, IsoRefuses
<1>3. CASE I!NoDescriptor
  <2>1. /\ status = "new" /\ WrittenIso(file)
        /\ \/ file.len < file.descriptorEnd /\ I!Refuse("Io")
           \/ ~file.described /\ I!Refuse("UnknownFormat")
    BY <1>3 DEF I!NoDescriptor, IsoInv
  <2>2. file.len \in Nat /\ file.descriptorEnd \in Nat
    BY <2>1 DEF IsoInv, IsoInd, IsoOnMap, I!IsoImage
  <2>3. ~IsoOpens(file)
    BY <2>1, <2>2 DEF IsoOpens
  <2>4. file.damage # "none"
    BY <2>1, <2>3 DEF WrittenIso
  <2> QED BY <1>1, <2>1, <2>4, IsoRefuses
<1>4. CASE I!CannotOpen
  <2>1. WrittenIso(file) /\ ~IsoOpens(file) /\ status = "new"
    BY <1>4 DEF I!CannotOpen, IsoInv, IsoOpens
  <2>2. file.damage # "none" /\ I!Refuse("Corrupt")
    BY <1>4, <2>1 DEF WrittenIso, I!CannotOpen
  <2> QED BY <1>1, <2>1, <2>2, IsoRefuses
<1> QED
  BY <1>1, <1>2, <1>3, <1>4, IsoStart, IsoGoesOn, IsoTooDeep, IsoCannotRead, IsoFinish,
     IsoReads, IsoShrinks DEF I!Next

LEMMA IsoSame == ASSUME IsoInv, UNCHANGED vars PROVE IsoInv'
<1>1. file' = file /\ walk' = walk /\ listing' = listing /\ status' = status /\ answers' = answers
  BY DEF vars
<1>2. IsoInd'
  BY TreesAssumption, IsoNextInd DEF IsoInv
<1> QED BY <1>1, <1>2 DEF IsoInv

LEMMA IsoKeeps == ASSUME IsoInv PROVE ListsTheTree /\ DamageIsTold /\ TreeOkIsContent
<1>1. /\ file.format = "iso"
      /\ status \in {"new", "walking", "open", "Unsupported", "Corrupt", "Io", "UnknownFormat"}
      /\ listing \in Seq(IsoEntry)
  BY DEF IsoInv, IsoKept, IsoInd, IsoShape
<1>2. DamageIsTold
  BY DEF IsoInv, DamageIsTold
<1>3. TreeOkIsContent
  <2> SUFFICES ASSUME NEW k \in DOMAIN answers, answers[k].said = "ok", listing[k].kind = "file"
               PROVE  answers[k].given = Member(k).content
    BY DEF TreeOkIsContent
  <2>1. status = "open"
    BY DEF IsoInv
  <2> QED BY <2>1 DEF IsoInv, Member
<1>4. ListsTheTree
  <2> SUFFICES ASSUME file.damage = "none"
               PROVE  /\ ~Refused /\ ~Aborted
                      /\ \A k \in DOMAIN listing : Matches(listing[k], Member(k))
                      /\ status = "open" => Len(listing) = Len(file.members)
    BY DEF ListsTheTree
  <2>1. ~Refused /\ ~Aborted
    BY <1>1 DEF Refused, Errors, Aborted, IsoInv
  <2>2. ASSUME NEW k \in DOMAIN listing PROVE Matches(listing[k], Member(k))
    <3>1. status = "new" => listing = <<>>
      BY DEF IsoInv, IsoInd
    <3>2. IsoListed(file, listing)
      BY <1>1, <2>2, <3>1 DEF IsoInv, IsoWalk
    <3>3. IsoStands(file, listing[k], file.members[k])
      BY <3>2 DEF IsoListed
    <3>4. listing[k].size \in Nat
      <4>1. listing[k] \in IsoEntry
        BY <1>1, <2>2
      <4> QED BY <4>1 DEF IsoEntry
    <3>5. file.members[k].kind = "file" => listing[k].size = Len(file.members[k].content)
      <4> SUFFICES ASSUME file.members[k].kind = "file"
                   PROVE  listing[k].size = Len(file.members[k].content)
        OBVIOUS
      <4> DEFINE n == listing[k].size
      <4>1. file.members[k].content = [p \in 1..n |-> ByteAt(file, listing[k].extent + p - 1)]
        BY <3>3 DEF IsoStands, Bytes
      <4> HIDE DEF n
      <4>2. Len(file.members[k].content) = n
        BY <3>4, <4>1 DEF n
      <4> QED BY <4>2 DEF n
    <3> QED BY <3>3, <3>5 DEF IsoStands, Matches, Member
  <2>3. status = "open" => Len(listing) = Len(file.members)
    BY DEF IsoInv
  <2> QED BY <2>1, <2>2, <2>3
<1> QED BY <1>2, <1>3, <1>4

----------------------------------------------------------------------------
(***************************************************************************)
(* Wim.  A way down by dentries.                                           *)
(***************************************************************************)
WimKept(f) ==
  /\ f.format = "wim" /\ f.len \in Nat /\ f.chunk \in Nat
  /\ HasFields(f, {"len", "shrunk", "format", "members", "damage", "byte", "chunk"})

\* An entry and the member that it stands for.
WimStands(f, x, m) ==
  /\ x.path = m.path /\ x.kind = m.kind /\ x.kind \in {"dir", "file"}
  /\ \/ x.body = <<>> /\ (x.kind = "file" => m.content = <<>> /\ x.size = 0)
     \/ \E r : x.body = <<r>> /\ WimBody(f, r, m) /\ x.size = r.size

WimListed(f, l) ==
  /\ IsSeq(l) /\ Len(l) <= Len(f.members)
  /\ \A i \in DOMAIN l : WimStands(f, l[i], f.members[i])

\* The walk of a tree, after n members.
WimFrame(at, parent) == [at |-> at, parent |-> parent]
WimFrames(f, w, node, nth) ==
  /\ IsSeq(w) /\ Len(w) = Len(node)
  /\ \A j \in 1 .. Len(node) :
       /\ w[j] = WimFrame(DentAt(f, node[j], nth[j]), PathOf(WimT(f), node[j]))
       /\ Under(f, node[j]) # 0 /\ Len(PathOf(WimT(f), node[j])) = j - 1

WimAt(f, w, n) == \E node, nth : On(WimT(f), node, nth, n) /\ WimFrames(f, w, node, nth)

\* Somewhere in the walk is a dentry on the way to the fault, as deep as the way
\* says it is; and the walk is no deeper than the stack.
OnTheWay(f, w, q, j) == w[q].at = f.fault[j].at /\ f.fault[j].depth = q

WimLost(f, w) ==
  /\ WimFault(f) /\ IsSeq(w) /\ Len(w) <= StackFrames
  /\ \A q \in 1 .. Len(w) : \E at, parent : w[q] = WimFrame(at, parent)
  /\ \E q \in 1 .. Len(w), j \in DOMAIN f.fault : OnTheWay(f, w, q, j)

WimWalk(f, w, l) ==
  \/ f.damage # "told" /\ WimTree(f) /\ WimListed(f, l) /\ WimAt(f, w, Len(l))
  \/ f.damage # "none" /\ WimLost(f, w)

\* How open ends without a listing.
WimEnds == {"Unsupported", "Corrupt", "panic", "overflow"}

WimInv ==
  /\ WimKept(file)
  /\ status \in {"new", "walking", "open"} \union WimEnds
  /\ status = "new" => WrittenWim(file) /\ listing = <<>>
  /\ status \in WimEnds => file.damage # "none" /\ listing = <<>>
  /\ status = "walking" => WimWalk(file, walk, listing)
  /\ status # "open" => answers = <<>>
  /\ status = "open" =>
       /\ file.damage # "told"
       /\ WimListed(file, listing) /\ Len(listing) = Len(file.members)
       /\ DOMAIN answers = DOMAIN listing
       /\ \A i \in DOMAIN listing :
            answers[i].said = "ok" /\ listing[i].kind = "file" =>
              answers[i].given = file.members[i].content

----------------------------------------------------------------------------
LEMMA WimCut ==
  ASSUME NEW f, WimTree(f)
  PROVE  /\ Cut(WimT(f)) /\ Len(f.members) \in Nat /\ IsSeq(f.members)
         /\ \A k \in Nodes(WimT(f)) : Under(f, k) = 0 => Len(Cuts(WimT(f), k)) = 1
<1>1. Counted(WimT(f)) /\ \A k \in Nodes(WimT(f)) : WimNode(f, k)
  BY DEF WimTree
<1>2. ASSUME NEW k \in Nodes(WimT(f))
      PROVE  /\ Cuts(WimT(f), k) \in Seq(Nat) /\ Cuts(WimT(f), k) # <<>>
             /\ Cuts(WimT(f), k)[1] = k
             /\ Under(f, k) = 0 => Len(Cuts(WimT(f), k)) = 1
  <2> DEFINE n == Len(Cuts(WimT(f), k)) - 1
  <2>1. /\ n \in Nat /\ Cuts(WimT(f), k) \in Seq(Nat) /\ Cuts(WimT(f), k)[1] = k
        /\ \A i \in 1..n : Under(f, k) # 0
    BY <1>1 DEF WimNode, Divided
  <2>2. Len(Cuts(WimT(f), k)) \in Nat /\ Len(Cuts(WimT(f), k)) # 0
    BY <2>1
  <2>3. Cuts(WimT(f), k) # <<>>
    BY <2>2
  <2>4. Under(f, k) = 0 => Len(Cuts(WimT(f), k)) = 1
    <3> SUFFICES ASSUME Under(f, k) = 0, Len(Cuts(WimT(f), k)) # 1 PROVE FALSE
      OBVIOUS
    <3> DEFINE c == Len(Cuts(WimT(f), k))
    <3>0. c \in Nat /\ c # 0 /\ c # 1 /\ n = c - 1
      BY <2>2
    <3> HIDE DEF c, n
    <3>1. 1 \in 1..n
      BY <3>0
    <3> QED BY <2>1, <3>1
  <2> QED BY <2>1, <2>3, <2>4
<1>3. Len(f.members) \in Nat /\ IsSeq(f.members)
  BY <1>1 DEF Counted, IsSeq, WimT, Tree
<1> QED BY <1>1, <1>2, <1>3 DEF Cut

LEMMA WimInits == ASSUME M!Init PROVE WimInv
<1>1. WrittenWim(file) /\ listing = <<>> /\ status = "new" /\ answers = <<>>
  BY TreesAssumption DEF M!Init
<1> QED BY <1>1 DEF WimInv, WimEnds, WimKept, WrittenWim

LEMMA WimRefuses ==
  ASSUME WimInv, status # "open", NEW error \in WimEnds, M!Refuse(error),
         file.damage # "none"
  PROVE  WimInv'
BY DEF WimInv, WimEnds, M!Refuse

LEMMA WimStart == ASSUME WimInv, M!Start PROVE WimInv'
<1> DEFINE first == WimFrame(M!Root.below, <<>>)
<1>1. /\ status = "new" /\ status' = "walking" /\ WimOpens(file)
      /\ walk' = IF M!Root.last \/ M!Root.below = 0 THEN <<>> ELSE <<first>>
      /\ file' = file /\ listing' = listing /\ answers' = answers
  BY DEF M!Start, WimOpens, WimFrame
<1>2. WrittenWim(file) /\ listing = <<>> /\ answers = <<>> /\ WimKept(file)
  BY <1>1 DEF WimInv
<1>3. /\ Under(file, 0) = 0 => walk' = <<>>
      /\ Under(file, 0) # 0 => walk' = <<WimFrame(Under(file, 0), <<>>)>>
  BY <1>1 DEF Under, M!Root, Dents
<1> HIDE DEF first
<1>4. IsSeq(<<>>) /\ Len(<<>>) = 0
  BY DEF IsSeq
<1>5. \A x : IsSeq(<<x>>) /\ Len(<<x>>) = 1 /\ <<x>>[1] = x
  BY DEF IsSeq, Range
<1>6. ASSUME WimTree(file), file.damage # "told" PROVE WimWalk(file, walk', listing)
  <2> DEFINE t == WimT(file)
  <2>1. /\ Cut(t) /\ Len(file.members) \in Nat /\ t.members = file.members
        /\ Under(file, 0) = 0 => Len(Cuts(t, 0)) = 1
    <3>1. 0 \in Nodes(t)
      BY <1>6, WimCut DEF Nodes, WimT, Tree
    <3> QED BY <1>6, <3>1, WimCut DEF WimT, Tree
  <2> HIDE DEF t
  <2>2. WimListed(file, listing) /\ Len(listing) = 0
    BY <1>2, <1>4, <2>1 DEF WimListed
  <2>3. On(t, <<0>>, <<1>>, 0)
    BY <2>1, AtRoot
  <2>4. CASE Under(file, 0) = 0
    <3>1. End(t, 0) = 0
      BY <2>1, <2>4 DEF End, Cut, Nodes
    <3>2. Len(t.members) = 0
      BY <2>1, <3>1 DEF Cut, Counted
    <3>3. On(t, <<>>, <<>>, 0)
      BY <3>2 DEF On
    <3>4. WimFrames(file, <<>>, <<>>, <<>>)
      BY <1>4 DEF WimFrames
    <3>5. WimAt(file, walk', 0)
      BY <1>3, <2>4, <3>3, <3>4 DEF WimAt, t
    <3> QED BY <1>6, <2>2, <3>5 DEF WimWalk
  <2>5. CASE Under(file, 0) # 0
    <3>1. DentAt(file, 0, 1) = Under(file, 0) /\ PathOf(WimT(file), 0) = <<>>
      BY DEF DentAt, PathOf
    <3>2. Len(<<0>>) = 1 /\ <<0>>[1] = 0 /\ <<1>>[1] = 1
      OBVIOUS
    <3>3. WimFrames(file, walk', <<0>>, <<1>>)
      BY <1>3, <1>4, <1>5, <2>5, <3>1, <3>2 DEF WimFrames
    <3>4. WimAt(file, walk', 0)
      BY <2>3, <3>3 DEF WimAt, t
    <3> QED BY <1>6, <2>2, <3>4 DEF WimWalk
  <2> QED BY <2>4, <2>5
<1>7. ASSUME WimFault(file), file.damage # "none" PROVE WimWalk(file, walk', listing)
  <2>1. /\ Under(file, 0) # 0 /\ file.fault[1] = Hop(Under(file, 0), 1) /\ 1 \in DOMAIN file.fault
    BY <1>7 DEF WimFault
  <2>2. walk' = <<WimFrame(Under(file, 0), <<>>)>>
    BY <1>3, <2>1
  <2>3. Len(walk') = 1 /\ IsSeq(walk') /\ walk'[1] = WimFrame(Under(file, 0), <<>>)
    BY <1>5, <2>2
  <2>4. OnTheWay(file, walk', 1, 1) /\ 1 <= StackFrames
    BY <2>1, <2>3, TreesAssumption DEF WimFrame, Hop, OnTheWay
  <2>5. WimLost(file, walk')
    BY <1>7, <2>1, <2>3, <2>4 DEF WimLost
  <2> QED BY <1>7, <2>5 DEF WimWalk
<1>8. WimWalk(file, walk', listing)
  BY <1>1, <1>2, <1>6, <1>7 DEF WrittenWim
<1> QED BY <1>1, <1>2, <1>8 DEF WimInv, WimEnds

\* Where a walk of a tree is, and what is at hand.
LEMMA WimAtHand ==
  ASSUME M!Walking, WimTree(file), NEW n, NEW node, NEW nth,
         On(WimT(file), node, nth, n), WimFrames(file, walk, node, nth)
  PROVE  LET L == Len(node)
             k == node[L]
             i == nth[Len(nth)]
             c == Len(Cuts(WimT(file), k))
         IN /\ node # <<>> /\ L \in Nat \ {0} /\ L = Len(walk) /\ Len(nth) = L
            /\ k \in Nodes(WimT(file)) /\ c \in Nat /\ i \in 1..c
            /\ M!Top = WimFrame(DentAt(file, k, i), PathOf(WimT(file), k))
            /\ M!Parses /\ M!Dent = Dents(file)[DentAt(file, k, i)]
            /\ i = c => M!Dent.last
            /\ i < c => /\ ~M!Dent.last /\ Listed(WimT(file), k, i, M!Dent.name)
                        /\ WimIs(file, file.members[Child(WimT(file), k, i)], DentAt(file, k, i))
<1> DEFINE t == WimT(file)
           L == Len(node)
           k == node[L]
           i == nth[Len(nth)]
           c == Len(Cuts(t, k))
           at == DentAt(file, k, i)
<1>1. node \in Seq(Nat) /\ nth \in Seq(Nat) /\ Len(nth) = L /\ walk # <<>> /\ IsSeq(walk) /\ Len(walk) = L
  BY DEF On, WimFrames, M!Walking
<1>2. L \in Nat \ {0} /\ node # <<>> /\ L \in 1..L
  BY <1>1 DEF IsSeq
<1>3. k \in Nodes(t) /\ i \in 1..c
  BY <1>1, <1>2 DEF On
<1>4. M!Top = WimFrame(at, PathOf(t, k)) /\ Under(file, k) # 0
  BY <1>1, <1>2 DEF WimFrames, M!Top
<1>5. M!Top.at = at
  BY <1>4 DEF WimFrame
<1>6. M!Dent = Dents(file)[at] /\ (M!Parses <=> There(file, at))
  BY <1>5 DEF M!Dent, M!Parses, Dents, There
<1>7. WimNode(file, k) /\ Cuts(t, k) \in Seq(Nat) /\ c \in Nat
  <2>1. WimNode(file, k)
    BY <1>3 DEF WimTree
  <2>2. Cuts(t, k) \in Seq(Nat)
    BY <2>1 DEF WimNode, Divided
  <2> QED BY <2>1, <2>2
<1>8. /\ \A x \in 1 .. c - 1 :
            /\ There(file, DentAt(file, k, x)) /\ ~Dents(file)[DentAt(file, k, x)].last
            /\ Listed(t, k, x, Dents(file)[DentAt(file, k, x)].name)
            /\ WimIs(file, file.members[Child(t, k, x)], DentAt(file, k, x))
      /\ There(file, DentAt(file, k, c - 1 + 1)) /\ Dents(file)[DentAt(file, k, c - 1 + 1)].last
  BY <1>4, <1>7 DEF WimNode
<1> HIDE DEF c, L, k, at
<1>9. c - 1 + 1 = c /\ (i < c => i \in 1 .. c - 1)
  BY <1>3, <1>7
<1>10. i = c => There(file, at) /\ Dents(file)[at].last
  BY <1>8, <1>9 DEF at
<1>11. i < c => /\ There(file, at) /\ ~Dents(file)[at].last
                /\ Listed(t, k, i, Dents(file)[at].name)
                /\ WimIs(file, file.members[Child(t, k, i)], at)
  BY <1>8, <1>9 DEF at
<1>12. M!Parses
  BY <1>3, <1>6, <1>7, <1>10, <1>11
<1> QED BY <1>1, <1>2, <1>3, <1>4, <1>6, <1>7, <1>10, <1>11, <1>12 DEF c, L, k, at

LEMMA DentAfter ==
  ASSUME NEW f, NEW k, NEW i \in Nat \ {0}
  PROVE  DentAt(f, k, i + 1) = Dents(f)[f.members[Child(WimT(f), k, i)].is].next
<1>1. i + 1 # 1 /\ i + 1 - 1 = i
  OBVIOUS
<1> QED BY <1>1 DEF DentAt

LEMMA StillNumbers ==
  ASSUME NEW s \in Seq(Nat), NEW i \in 1 .. Len(s), NEW v \in Nat
  PROVE  [s EXCEPT ![i] = v] \in Seq(Nat) /\ Len([s EXCEPT ![i] = v]) = Len(s)
OBVIOUS

\* The innermost directory moves on to the next dentry.
LEMMA WimAdvance ==
  ASSUME WimTree(file), M!Walking, NEW n, NEW node, NEW nth,
         On(WimT(file), node, nth, n), WimFrames(file, walk, node, nth),
         nth[Len(nth)] < Len(Cuts(WimT(file), node[Len(node)]))
  PROVE  WimFrames(file, [walk EXCEPT ![Len(walk)].at = M!Dent.next], node,
                   [nth EXCEPT ![Len(nth)] = nth[Len(nth)] + 1])
<1> DEFINE t == WimT(file)
           L == Len(node)
           k == node[L]
           i == nth[Len(nth)]
           next == M!Dent.next
           after == [nth EXCEPT ![Len(nth)] = nth[Len(nth)] + 1]
           walk2 == [walk EXCEPT ![Len(walk)].at = next]
<1>1. /\ L \in Nat \ {0} /\ L = Len(walk) /\ Len(nth) = L /\ i \in Nat \ {0}
      /\ M!Top = WimFrame(DentAt(file, k, i), PathOf(t, k))
      /\ M!Dent = Dents(file)[DentAt(file, k, i)]
      /\ WimIs(file, file.members[Child(t, k, i)], DentAt(file, k, i))
  BY WimAtHand
<1>2. IsSeq(walk) /\ walk[L] = M!Top /\ L \in 1..L /\ nth \in Seq(Nat)
  BY <1>1 DEF WimFrames, M!Top, On
<1>3. [walk[L] EXCEPT !.at = next] = WimFrame(next, PathOf(t, k))
  BY <1>1, <1>2 DEF WimFrame
<1> DEFINE moved == WimFrame(next, PathOf(t, k))
<1>4. walk2 = [walk EXCEPT ![L] = moved]
  BY <1>1, <1>3
<1>5. after[L] = i + 1 /\ \A j \in 1..L : j # L => after[j] = nth[j]
  BY <1>1, <1>2
<1>6. DentAt(file, k, i + 1) = next
  <2>2. file.members[Child(t, k, i)].is = DentAt(file, k, i)
    BY <1>1 DEF WimIs
  <2>3. M!Dent.next = Dents(file)[file.members[Child(t, k, i)].is].next
    BY <1>1, <2>2
  <2> HIDE DEF i, k, L
  <2>4. DentAt(file, k, i + 1) = Dents(file)[file.members[Child(t, k, i)].is].next
    BY <1>1, DentAfter
  <2> QED BY <2>3, <2>4
<1> HIDE DEF after, next, walk2, i, t, moved
<1>7. /\ IsSeq(walk2) /\ Len(walk2) = L /\ walk2[L] = WimFrame(next, PathOf(t, k))
      /\ \A j \in 1..L : j # L => walk2[j] = walk[j]
  <2>1. L \in 1 .. Len(walk) /\ L = Len(walk) /\ IsSeq(walk)
    BY <1>1, <1>2
  <2> HIDE DEF L, k
  <2> DEFINE s == walk
             r == [s EXCEPT ![L] = moved]
  <2>3. IsSeq(s) /\ L \in 1 .. Len(s)
    BY <2>1
  <2> HIDE DEF s
  <2>4. /\ IsSeq(r) /\ Len(r) = Len(s) /\ r[L] = moved
        /\ \A j \in 1..Len(s) : j # L => r[j] = s[j]
    BY <2>3, ExceptIsSeq
  <2>2. /\ IsSeq(walk2) /\ Len(walk2) = Len(walk) /\ walk2[L] = moved
        /\ \A j \in 1..Len(walk) : j # L => walk2[j] = walk[j]
    BY <1>4, <2>4 DEF s
  <2> QED BY <2>1, <2>2 DEF moved
<1>8. ASSUME NEW j \in 1..L
      PROVE  /\ walk2[j] = WimFrame(DentAt(file, node[j], after[j]), PathOf(WimT(file), node[j]))
             /\ Under(file, node[j]) # 0 /\ Len(PathOf(WimT(file), node[j])) = j - 1
  <2>1. CASE j = L
    BY <1>5, <1>6, <1>7, <2>1 DEF WimFrames, t
  <2>2. CASE j # L
    BY <1>5, <1>7, <2>2 DEF WimFrames
  <2> QED BY <2>1, <2>2
<1>9. WimFrames(file, walk2, node, after)
  BY <1>7, <1>8 DEF WimFrames
<1> QED BY <1>9 DEF after, walk2, next

LEMMA WimListsMore ==
  ASSUME NEW f, NEW l, NEW x, WimListed(f, l), Len(l) + 1 <= Len(f.members),
         WimStands(f, x, f.members[Len(l) + 1])
  PROVE  WimListed(f, Append(l, x)) /\ Len(Append(l, x)) = Len(l) + 1
<1> DEFINE n == Len(l)
           more == Append(l, x)
<1>1. IsSeq(l) /\ n \in Nat /\ DOMAIN l = 1..n
  BY DEF WimListed, IsSeq
<1>2. IsSeq(more) /\ Len(more) = n + 1 /\ more[n + 1] = x /\ \A i \in 1..n : more[i] = l[i]
  BY <1>1, AppendIsSeq
<1> HIDE DEF more, n
<1>3. DOMAIN more = 1 .. n + 1
  BY <1>2 DEF IsSeq
<1>4. ASSUME NEW i \in 1 .. n + 1 PROVE WimStands(f, more[i], f.members[i])
  <2>1. CASE i = n + 1
    BY <1>2, <2>1 DEF n
  <2>2. CASE i # n + 1
    <3>1. i \in 1..n
      BY <1>1, <2>2
    <3> QED BY <1>1, <1>2, <3>1 DEF WimListed
  <2> QED BY <2>1, <2>2
<1>5. WimListed(f, more)
  BY <1>2, <1>3, <1>4 DEF WimListed, n
<1> QED BY <1>2, <1>5 DEF more, n

\* The path at hand is as long as the walk is deep.
LEMMA WimPathLen ==
  ASSUME M!Walking, WimTree(file), NEW n, NEW node, NEW nth,
         On(WimT(file), node, nth, n), WimFrames(file, walk, node, nth)
  PROVE  Len(M!Path) = Len(node)
<1> DEFINE t == WimT(file)
           L == Len(node)
           k == node[L]
           parent == PathOf(t, k)
<1>1. L \in Nat \ {0} /\ k \in Nodes(t) /\ M!Top.parent = parent
  <2>1. M!Top = WimFrame(DentAt(file, k, nth[Len(nth)]), parent)
    BY WimAtHand
  <2>2. M!Top.parent = parent
    BY <2>1 DEF WimFrame
  <2> QED BY <2>2, WimAtHand
<1>2. Len(parent) = L - 1
  <2>1. L \in 1..L
    BY <1>1
  <2> QED BY <2>1 DEF WimFrames
<1>3. IsSeq(parent)
  <2>1. Counted(t)
    BY DEF WimTree
  <2>2. CASE k = 0
    BY <2>2 DEF PathOf, IsSeq
  <2>3. CASE k # 0
    <3>1. k \in DOMAIN t.members
      BY <1>1, <2>1, <2>3 DEF Nodes, Counted, IsSeq
    <3>2. t.members[k].path \in Seq(STRING)
      BY <2>1, <3>1 DEF Counted
    <3> QED BY <2>3, <3>2, SeqIsSeq DEF PathOf
  <2> QED BY <2>2, <2>3
<1> HIDE DEF t, L, k, parent
<1>4. Len(Append(parent, M!Dent.name)) = Len(parent) + 1
  BY <1>3, AppendIsSeq
<1> QED BY <1>1, <1>2, <1>4 DEF M!Path, L

LEMMA WimVisitTree ==
  ASSUME M!Visit, WimTree(file), WimListed(file, listing), WimAt(file, walk, Len(listing))
  PROVE  /\ WimListed(file, listing') /\ Len(listing') = Len(listing) + 1
         /\ WimAt(file, walk', Len(listing) + 1)
<1>1. /\ M!Walking /\ ~M!Dent.last
      /\ listing' = Append(listing, M!EntryAtHand) /\ walk' = M!Onwards
  BY DEF M!Visit
<1> DEFINE n == Len(listing)
<1>2. PICK node, nth : On(WimT(file), node, nth, n) /\ WimFrames(file, walk, node, nth)
  BY DEF WimAt
<1> DEFINE t == WimT(file)
           L == Len(node)
           k == node[L]
           i == nth[Len(nth)]
           c == Len(Cuts(t, k))
           at == DentAt(file, k, i)
           m == file.members[n + 1]
           after == [nth EXCEPT ![Len(nth)] = nth[Len(nth)] + 1]
<1>3. /\ node # <<>> /\ L \in Nat \ {0} /\ L = Len(walk) /\ Len(nth) = L
      /\ k \in Nodes(t) /\ c \in Nat /\ i \in 1..c
      /\ M!Top = WimFrame(at, PathOf(t, k))
      /\ M!Dent = Dents(file)[at]
      /\ i = c => M!Dent.last
      /\ i < c => /\ ~M!Dent.last /\ Listed(t, k, i, M!Dent.name)
                  /\ WimIs(file, file.members[Child(t, k, i)], at)
  BY <1>1, <1>2, WimAtHand
<1>4. i < c
  BY <1>1, <1>3
<1> DEFINE name == M!Dent.name
<1> HIDE DEF name
<1>5. Listed(t, k, i, name) /\ WimIs(file, file.members[Child(t, k, i)], at) /\ Cut(t)
  BY <1>3, <1>4, WimCut DEF name
<1>6. /\ n + 1 \in DOMAIN t.members /\ n + 1 \in Nodes(t)
      /\ Child(t, k, i) = n + 1
      /\ t.members[n + 1].path = Append(PathOf(t, k), name)
      /\ Len(Cuts(t, n + 1)) = 1 => On(t, node, after, n + 1)
      /\ On(t, Append(node, n + 1), Append(after, 1), n + 1)
  <2> HIDE DEF t
  <2> QED BY <1>2, <1>3, <1>4, <1>5, Descends DEF t
<1>7. t.members = file.members /\ n \in Nat /\ IsSeq(file.members) /\ Len(file.members) \in Nat
  <2>1. IsSeq(listing)
    BY DEF WimListed
  <2>2. n \in Nat
    BY <2>1 DEF IsSeq
  <2>3. t.members = file.members
    BY DEF WimT, Tree
  <2> QED BY <2>2, <2>3, WimCut
<1>8. n + 1 \in DOMAIN file.members /\ n + 1 <= Len(file.members)
  BY <1>6, <1>7 DEF IsSeq
<1>9. WimIs(file, m, at) /\ m.path = Append(PathOf(t, k), name) /\ M!Path = m.path
  BY <1>3, <1>5, <1>6, <1>7 DEF M!Path, WimFrame, name
<1>10. m.is = at /\ m.kind = IF M!Dent.dir THEN "dir" ELSE "file"
  BY <1>3, <1>9 DEF WimIs
<1>11. WimStands(file, M!EntryAtHand, m)
  <2> DEFINE x == M!EntryAtHand
             d == M!Dent
  <2>1. /\ x.path = m.path /\ x.kind = m.kind /\ x.kind \in {"dir", "file"}
        /\ x.size = IF M!Bodied THEN M!BodyOf(file, d.hash).size ELSE 0
        /\ x.body = IF M!Bodied THEN <<M!BodyOf(file, d.hash)>> ELSE <<>>
    BY <1>9, <1>10 DEF M!EntryAtHand
  <2>2. M!Bodied <=> ~d.dir /\ d.hash # M!NoHash
    BY DEF M!Bodied
  <2>3. ~d.dir => IF d.hash = M!NoHash THEN m.content = <<>>
                  ELSE WimBody(file, M!BodyOf(file, d.hash), m)
    BY <1>3, <1>9 DEF WimIs
  <2>4. x.kind = "file" => ~d.dir
    BY <1>10, <2>1
  <2> HIDE DEF x, d, m
  <2>5. CASE M!Bodied
    <3> DEFINE r == M!BodyOf(file, d.hash)
    <3> HIDE DEF r
    <3>1. x.body = <<r>> /\ WimBody(file, r, m) /\ x.size = r.size
      BY <2>1, <2>2, <2>3, <2>5 DEF r
    <3> QED BY <2>1, <3>1 DEF WimStands, x
  <2>6. CASE ~M!Bodied
    <3>1. x.body = <<>> /\ (x.kind = "file" => m.content = <<>> /\ x.size = 0)
      BY <2>1, <2>2, <2>3, <2>4, <2>6
    <3> QED BY <2>1, <3>1 DEF WimStands, x
  <2> QED BY <2>5, <2>6
<1>12. WimListed(file, listing') /\ Len(listing') = n + 1
  <2> DEFINE x == M!EntryAtHand
  <2> HIDE DEF x
  <2>1. WimStands(file, x, file.members[Len(listing) + 1]) /\ Len(listing) + 1 <= Len(file.members)
    BY <1>8, <1>11 DEF x
  <2> QED BY <1>1, <2>1, WimListsMore DEF x
<1> DEFINE walk1 == [walk EXCEPT ![Len(walk)].at = M!Dent.next]
<1>13. WimFrames(file, walk1, node, after)
  BY <1>1, <1>2, <1>4, WimAdvance
<1>14. Under(file, n + 1) = M!Dent.below
  <2>1. n + 1 # 0
    BY <1>7
  <2> QED BY <1>3, <1>10, <2>1 DEF Under
<1>19. Len(M!Path) = L
  <2> HIDE DEF t
  <2> QED BY <1>1, <1>2, <1>3, WimPathLen DEF t
<1>15. walk' = walk1 \o IF M!Dent.below # 0 THEN <<WimFrame(M!Dent.below, M!Path)>> ELSE <<>>
  BY <1>1 DEF M!Onwards, WimFrame
<1>16. IsSeq(walk1) /\ Len(walk1) = L
  BY <1>13 DEF WimFrames
<1> HIDE DEF walk1, after, t, L, n, k, i, m
<1>17. CASE M!Dent.below = 0
  <2>1. Len(Cuts(t, n + 1)) = 1
    BY <1>6, <1>14, <1>17, WimCut DEF t
  <2>2. On(t, node, after, n + 1)
    BY <1>6, <2>1
  <2>3. walk' = walk1
    BY <1>15, <1>16, <1>17, OneMore
  <2>4. WimAt(file, walk', n + 1)
    BY <1>13, <2>2, <2>3 DEF WimAt, t
  <2> QED BY <1>12, <2>4 DEF n
<1>18. CASE M!Dent.below # 0
  <2> DEFINE last == WimFrame(M!Dent.below, M!Path)
             node2 == Append(node, n + 1)
             nth2 == Append(after, 1)
  <2> HIDE DEF last
  <2>1. walk' = walk1 \o <<last>>
    BY <1>15, <1>18 DEF last
  <2>2. /\ L \in Nat /\ IsSeq(walk') /\ Len(walk') = L + 1 /\ walk'[L + 1] = last
        /\ \A j \in 1..L : walk'[j] = walk1[j]
    BY <1>16, <2>1, OneMore
  <2>3. On(t, node2, nth2, n + 1)
    BY <1>6
  <2>4. node \in Seq(Nat) /\ Len(node) = L /\ after \in Seq(Nat) /\ Len(after) = L
    <3>1. nth \in Seq(Nat) /\ Len(nth) = L /\ node \in Seq(Nat)
      BY <1>2, <1>3 DEF On, L
    <3> DEFINE v == nth[Len(nth)] + 1
    <3>2. v \in Nat
      BY <1>3, <3>1 DEF i
    <3>3. after = [nth EXCEPT ![Len(nth)] = v]
      BY DEF after
    <3> HIDE DEF v
    <3>4. after \in Seq(Nat) /\ Len(after) = Len(nth)
      <4>1. Len(nth) \in 1 .. Len(nth)
        BY <1>3, <3>1
      <4> QED BY <3>1, <3>2, <3>3, <4>1, StillNumbers
    <3> QED BY <3>1, <3>4 DEF L
  <2>5. /\ Len(node2) = L + 1 /\ node2[L + 1] = n + 1 /\ nth2[L + 1] = 1
        /\ \A j \in 1..L : node2[j] = node[j] /\ nth2[j] = after[j]
    BY <2>4
  <2>6. PathOf(t, n + 1) = M!Path /\ DentAt(file, n + 1, 1) = M!Dent.below
    <3>1. n + 1 # 0
      BY <1>7
    <3> QED BY <1>7, <1>9, <1>14, <3>1 DEF PathOf, DentAt, m
  <2> HIDE DEF node2, nth2
  <2>7. ASSUME NEW j \in 1 .. L + 1
        PROVE  /\ walk'[j] = WimFrame(DentAt(file, node2[j], nth2[j]), PathOf(t, node2[j]))
               /\ Under(file, node2[j]) # 0 /\ Len(PathOf(t, node2[j])) = j - 1
    <3>1. CASE j = L + 1
      BY <1>3, <1>14, <1>18, <1>19, <2>2, <2>5, <2>6, <3>1 DEF last
    <3>2. CASE j # L + 1
      <4>1. j \in 1..L
        BY <2>2, <3>2
      <4> QED BY <1>13, <2>2, <2>4, <2>5, <4>1 DEF WimFrames, t
    <3> QED BY <3>1, <3>2
  <2>8. WimFrames(file, walk', node2, nth2)
    BY <2>2, <2>5, <2>7 DEF WimFrames, t
  <2>9. WimAt(file, walk', n + 1)
    BY <2>3, <2>8 DEF WimAt, t
  <2> QED BY <1>12, <2>9 DEF n
<1> QED BY <1>17, <1>18

LEMMA WimLeaveTree ==
  ASSUME M!Leave, WimTree(file), NEW n, WimAt(file, walk, n)
  PROVE  WimAt(file, walk', n)
<1>1. M!Walking /\ M!Dent.last /\ walk' = SubSeq(walk, 1, Len(walk) - 1)
  BY DEF M!Leave
<1>2. PICK node, nth : On(WimT(file), node, nth, n) /\ WimFrames(file, walk, node, nth)
  BY DEF WimAt
<1> DEFINE t == WimT(file)
           L == Len(node)
           node2 == SubSeq(node, 1, Len(node) - 1)
           nth2 == SubSeq(nth, 1, Len(nth) - 1)
<1>3. /\ node # <<>> /\ L \in Nat \ {0} /\ L = Len(walk) /\ Len(nth) = L
      /\ nth[Len(nth)] = Len(Cuts(t, node[L]))
  <2>1. /\ nth[Len(nth)] \in 1 .. Len(Cuts(t, node[L])) /\ Len(Cuts(t, node[L])) \in Nat
        /\ ~(nth[Len(nth)] < Len(Cuts(t, node[L])))
    BY <1>1, <1>2, WimAtHand
  <2>2. nth[Len(nth)] = Len(Cuts(t, node[L]))
    BY <2>1
  <2> QED BY <1>1, <1>2, <2>2, WimAtHand
<1>4. On(t, node2, nth2, n)
  <2> HIDE DEF t
  <2>1. Cut(t)
    BY WimCut DEF t
  <2> QED BY <1>2, <1>3, <2>1, Leaves DEF t
<1>5. IsSeq(node) /\ IsSeq(nth) /\ IsSeq(walk) /\ walk # <<>> /\ nth # <<>>
  BY <1>1, <1>2, <1>3, SeqIsSeq DEF On, WimFrames, M!Walking
<1>6. /\ IsSeq(walk') /\ Len(walk') = L - 1 /\ \A j \in 1 .. L - 1 : walk'[j] = walk[j]
  BY <1>1, <1>3, <1>5, WithoutLast
<1>7. /\ Len(node2) = L - 1 /\ \A j \in 1 .. L - 1 : node2[j] = node[j]
  BY <1>3, <1>5, WithoutLast
<1>8. \A j \in 1 .. L - 1 : nth2[j] = nth[j]
  BY <1>3, <1>5, WithoutLast
<1>9. \A j \in 1 .. L - 1 : j \in 1 .. L
  BY <1>3
<1> HIDE DEF node2, nth2
<1>10. WimFrames(file, walk', node2, nth2)
  BY <1>2, <1>6, <1>7, <1>8, <1>9 DEF WimFrames
<1> QED BY <1>4, <1>10 DEF WimAt

----------------------------------------------------------------------------
\* The walk of a file that has a fault goes on towards it.
LEMMA WimLostType ==
  ASSUME WimLost(file, walk), walk # <<>>
  PROVE  LET L == Len(walk) IN
         /\ L \in Nat \ {0} /\ IsSeq(walk) /\ walk[L] = WimFrame(M!Top.at, M!Top.parent)
         /\ DOMAIN file.fault = 1 .. Len(file.fault) /\ Len(file.fault) \in Nat \ {0}
<1>1. IsSeq(walk) /\ \A q \in 1 .. Len(walk) : \E at, parent : walk[q] = WimFrame(at, parent)
  BY DEF WimLost
<1>2. Len(walk) \in Nat \ {0}
  BY <1>1 DEF IsSeq
<1>3. Len(walk) \in 1 .. Len(walk)
  BY <1>2
<1>4. PICK at, parent : walk[Len(walk)] = WimFrame(at, parent)
  BY <1>1, <1>3
<1>5. M!Top = walk[Len(walk)]
  BY DEF M!Top
<1>6. walk[Len(walk)] = WimFrame(M!Top.at, M!Top.parent)
  BY <1>4, <1>5 DEF WimFrame
<1>7. file.fault \in Seq([at : Nat, depth : Nat]) /\ file.fault # <<>>
  BY DEF WimLost, WimFault
<1>8. DOMAIN file.fault = 1 .. Len(file.fault) /\ Len(file.fault) \in Nat \ {0}
  BY <1>7
<1> QED BY <1>1, <1>2, <1>6, <1>7, <1>8

LEMMA WimVisitLost == ASSUME M!Visit, WimLost(file, walk) PROVE WimLost(file, walk')
<1>1. /\ walk # <<>> /\ M!Parses /\ ~M!Dent.last /\ M!Resolved /\ walk' = M!Onwards
      /\ M!Dent.below # 0 => Len(walk) < StackFrames
  BY DEF M!Visit, M!Walking, M!Room
<1> DEFINE L == Len(walk)
           next == M!Dent.next
           moved == WimFrame(next, M!Top.parent)
           walk1 == [walk EXCEPT ![Len(walk)].at = next]
           last == WimFrame(M!Dent.below, M!Path)
<1>2. /\ L \in Nat \ {0} /\ IsSeq(walk) /\ walk[L] = WimFrame(M!Top.at, M!Top.parent)
      /\ DOMAIN file.fault = 1 .. Len(file.fault) /\ Len(file.fault) \in Nat \ {0}
  BY <1>1, WimLostType
<1>3. [walk[L] EXCEPT !.at = next] = moved
  BY <1>2 DEF WimFrame
<1>4. walk1 = [walk EXCEPT ![L] = moved]
  BY <1>3
<1>5. /\ IsSeq(walk1) /\ Len(walk1) = L /\ walk1[L] = moved
      /\ \A j \in 1..L : j # L => walk1[j] = walk[j]
  <2> DEFINE s == walk
             r == [s EXCEPT ![L] = moved]
  <2>0. Len(s) = L
    OBVIOUS
  <2>1. IsSeq(s) /\ L \in 1 .. Len(s)
    BY <1>2
  <2> HIDE DEF s, L, moved, walk1, next, last
  <2>2. /\ IsSeq(r) /\ Len(r) = Len(s) /\ r[L] = moved
        /\ \A j \in 1..Len(s) : j # L => r[j] = s[j]
    BY <2>1, ExceptIsSeq
  <2> QED BY <1>4, <2>0, <2>1, <2>2 DEF s
<1>6. walk' = walk1 \o IF M!Dent.below # 0 THEN <<last>> ELSE <<>>
  BY <1>1 DEF M!Onwards, WimFrame
<1> HIDE DEF walk1, last, moved
<1>7. /\ IsSeq(walk')
      /\ M!Dent.below = 0 => Len(walk') = L
      /\ M!Dent.below # 0 => Len(walk') = L + 1 /\ walk'[L + 1] = last
      /\ \A j \in 1..L : walk'[j] = walk1[j]
  <2>1. CASE M!Dent.below = 0
    <3>1. walk' = walk1
      BY <1>5, <1>6, <2>1, OneMore
    <3> QED BY <1>5, <2>1, <3>1
  <2>2. CASE M!Dent.below # 0
    <3>1. walk' = walk1 \o <<last>>
      BY <1>6, <2>2
    <3> HIDE DEF L, next
    <3>2. /\ IsSeq(walk') /\ Len(walk') = L + 1 /\ walk'[L + 1] = last
          /\ \A j \in 1..L : walk'[j] = walk1[j]
      BY <1>5, <3>1, OneMore
    <3> QED BY <2>2, <3>2
  <2> QED BY <2>1, <2>2
<1>8. ASSUME NEW q \in 1 .. Len(walk')
      PROVE  \E at, parent : walk'[q] = WimFrame(at, parent)
  <2>1. CASE q = L + 1
    BY <1>2, <1>7, <1>8, <2>1 DEF last
  <2>2. CASE q = L
    <3>1. walk'[q] = moved
      BY <1>2, <1>5, <1>7, <2>2
    <3> QED BY <3>1 DEF moved
  <2>3. CASE q # L + 1 /\ q # L
    <3>1. q \in 1..L /\ q # L
      BY <1>2, <1>7, <1>8, <2>3
    <3>2. walk'[q] = walk[q]
      BY <1>5, <1>7, <3>1
    <3> QED BY <3>1, <3>2 DEF WimLost
  <2> QED BY <2>1, <2>2, <2>3
<1>9. PICK q \in 1..L, j \in DOMAIN file.fault : OnTheWay(file, walk, q, j)
  BY DEF WimLost
<1>12. Len(walk') <= StackFrames
  BY <1>1, <1>2, <1>7, TreesAssumption DEF WimLost
<1>10. CASE q # L
  <2>1. q \in 1 .. Len(walk') /\ OnTheWay(file, walk', q, j)
    BY <1>2, <1>5, <1>7, <1>9, <1>10 DEF OnTheWay
  <2> QED BY <1>7, <1>8, <1>9, <1>12, <2>1 DEF WimLost
<1>11. CASE q = L
  <2> DEFINE s == file.fault[j]
  <2>1. M!Top.at = s.at /\ s.depth = L
    BY <1>9, <1>11 DEF M!Top, OnTheWay
  <2>2. There(file, s.at) /\ M!Dent = Dents(file)[s.at]
    BY <1>1, <2>1 DEF M!Parses, M!Dent, There, Dents
  <2>3. ~(~M!Dent.dir /\ M!Dent.hash # M!NoHash /\ M!Bodies(file, M!Dent.hash) = {})
    BY <1>1 DEF M!Resolved, M!Bodied
  <2>10. ~(s.depth > StackFrames)
    BY <1>2, <2>1, TreesAssumption DEF WimLost
  <2>4. j # Len(file.fault)
    BY <1>1, <2>2, <2>3, <2>10 DEF WimLost, WimFault
  <2>5. j \in 1 .. Len(file.fault) - 1 /\ j + 1 \in DOMAIN file.fault
    BY <1>2, <1>9, <2>4
  <2>6. \/ file.fault[j + 1] = Hop(M!Dent.next, L)
        \/ file.fault[j + 1] = Hop(M!Dent.below, L + 1) /\ M!Dent.below # 0
    <3>1. file.fault[j + 1] \in Onward(M!Dent, s)
      BY <2>2, <2>5 DEF WimLost, WimFault
    <3> QED BY <2>1, <3>1 DEF Onward, Hop
  <2>7. walk'[L] = moved /\ moved.at = M!Dent.next /\ last.at = M!Dent.below /\ L \in 1 .. Len(walk')
    <3>1. L \in 1..L /\ L \in 1 .. Len(walk')
      BY <1>2, <1>7
    <3> QED BY <1>5, <1>7, <3>1 DEF moved, last, WimFrame
  <2>8. M!Dent.below # 0 => L + 1 \in 1 .. Len(walk') /\ walk'[L + 1] = last
    BY <1>2, <1>7
  <2>9. \E x \in 1 .. Len(walk'), y \in DOMAIN file.fault : OnTheWay(file, walk', x, y)
    <3> HIDE DEF next
    <3>1. CASE file.fault[j + 1] = Hop(M!Dent.next, L)
      <4>1. OnTheWay(file, walk', L, j + 1)
        BY <2>7, <3>1 DEF OnTheWay, Hop
      <4> QED BY <2>5, <2>7, <4>1
    <3>2. CASE file.fault[j + 1] = Hop(M!Dent.below, L + 1) /\ M!Dent.below # 0
      <4>1. OnTheWay(file, walk', L + 1, j + 1)
        BY <2>7, <2>8, <3>2 DEF OnTheWay, Hop
      <4> QED BY <2>5, <2>8, <3>2, <4>1
    <3> QED BY <2>6, <3>1, <3>2
  <2> QED BY <1>7, <1>8, <1>12, <2>9 DEF WimLost
<1> QED BY <1>10, <1>11

LEMMA WimLeaveLost == ASSUME M!Leave, WimLost(file, walk) PROVE WimLost(file, walk')
<1>1. walk # <<>> /\ M!Parses /\ M!Dent.last /\ walk' = SubSeq(walk, 1, Len(walk) - 1)
  BY DEF M!Leave, M!Walking
<1> DEFINE L == Len(walk)
<1>2. /\ L \in Nat \ {0} /\ IsSeq(walk)
      /\ DOMAIN file.fault = 1 .. Len(file.fault) /\ Len(file.fault) \in Nat \ {0}
  BY <1>1, WimLostType
<1>3. IsSeq(walk') /\ Len(walk') = L - 1 /\ \A j \in 1 .. L - 1 : walk'[j] = walk[j]
  BY <1>1, <1>2, WithoutLast
<1>4. PICK q \in 1..L, j \in DOMAIN file.fault : OnTheWay(file, walk, q, j)
  BY DEF WimLost
<1>5. q # L
  <2> SUFFICES ASSUME q = L PROVE FALSE
    OBVIOUS
  <2> DEFINE s == file.fault[j]
  <2>1. M!Top.at = s.at /\ s.depth = L
    BY <1>4 DEF M!Top, OnTheWay
  <2>2. There(file, s.at) /\ Dents(file)[s.at].last
    BY <1>1, <2>1 DEF M!Parses, M!Dent, There, Dents
  <2>5. ~(s.depth > StackFrames)
    BY <1>2, <2>1, TreesAssumption DEF WimLost
  <2>3. CASE j = Len(file.fault)
    BY <2>2, <2>3, <2>5 DEF WimLost, WimFault
  <2>4. CASE j # Len(file.fault)
    <3>1. j \in 1 .. Len(file.fault) - 1
      BY <1>2, <1>4, <2>4
    <3> QED BY <2>2, <3>1 DEF WimLost, WimFault
  <2> QED BY <2>3, <2>4
<1>6. q \in 1 .. Len(walk') /\ OnTheWay(file, walk', q, j)
  BY <1>2, <1>3, <1>4, <1>5 DEF OnTheWay
<1>8. Len(walk') <= StackFrames
  BY <1>2, <1>3, TreesAssumption DEF WimLost
<1>7. ASSUME NEW x \in 1 .. Len(walk')
      PROVE  \E at, parent : walk'[x] = WimFrame(at, parent)
  <2>1. x \in 1..L /\ walk'[x] = walk[x]
    BY <1>2, <1>3
  <2> QED BY <2>1 DEF WimLost
<1> QED BY <1>3, <1>4, <1>6, <1>7, <1>8 DEF WimLost

----------------------------------------------------------------------------
LEMMA WimWalks == ASSUME WimInv, status = "walking"
  PROVE  WimKept(file) /\ WimWalk(file, walk, listing) /\ answers = <<>>
BY DEF WimInv

LEMMA WimGoesOn == ASSUME WimInv, M!Visit \/ M!Leave PROVE WimInv'
<1>1. /\ status = "walking" /\ status' = status /\ file' = file /\ answers' = answers
      /\ M!Leave => listing' = listing
  BY DEF M!Visit, M!Leave, M!Walking
<1>2. WimKept(file) /\ WimWalk(file, walk, listing) /\ answers = <<>>
  BY <1>1, WimWalks
<1>3. WimWalk(file, walk', listing')
  <2>1. CASE /\ file.damage # "told" /\ WimTree(file) /\ WimListed(file, listing)
             /\ WimAt(file, walk, Len(listing))
    BY <1>1, <2>1, WimVisitTree, WimLeaveTree DEF WimWalk
  <2>2. CASE file.damage # "none" /\ WimLost(file, walk)
    BY <2>2, WimVisitLost, WimLeaveLost DEF WimWalk
  <2> QED BY <1>2, <2>1, <2>2 DEF WimWalk
<1> QED BY <1>1, <1>2, <1>3 DEF WimInv, WimEnds

LEMMA WimCannot == ASSUME WimInv, M!CannotParse \/ M!Unresolved PROVE WimInv'
<1>1. /\ status = "walking" /\ M!Walking /\ M!Refuse("Corrupt")
      /\ M!Parses => ~M!Dent.last /\ ~M!Resolved
  BY DEF M!CannotParse, M!Unresolved, M!Walking
<1>2. WimWalk(file, walk, listing)
  BY <1>1, WimWalks
<1>3. file.damage # "none"
  <2> SUFFICES ASSUME WimTree(file), WimAt(file, walk, Len(listing)) PROVE FALSE
    BY <1>2 DEF WimWalk
  <2>1. PICK node, nth : /\ On(WimT(file), node, nth, Len(listing))
                         /\ WimFrames(file, walk, node, nth)
    BY DEF WimAt
  <2> DEFINE k == node[Len(node)]
             i == nth[Len(nth)]
             c == Len(Cuts(WimT(file), k))
             at == DentAt(file, k, i)
  <2>2. /\ c \in Nat /\ i \in 1..c /\ M!Parses /\ M!Dent = Dents(file)[at]
        /\ i = c => M!Dent.last
        /\ i < c => WimIs(file, file.members[Child(WimT(file), k, i)], at)
    BY <1>1, <2>1, WimAtHand
  <2> HIDE DEF k, i, c, at
  <2>3. i < c
    BY <1>1, <2>2
  <2>4. M!Resolved
    BY <2>2, <2>3 DEF WimIs, M!Resolved, M!Bodied
  <2> QED BY <1>1, <2>2, <2>4
<1> QED BY <1>1, <1>3, WimRefuses DEF WimEnds

\* A tree that fits the stack is never too deep for it.
LEMMA WimOverflows == ASSUME WimInv, M!Overflow PROVE WimInv'
<1>1. /\ status = "walking" /\ M!Walking /\ ~M!Dent.last /\ M!Refuse("overflow")
      /\ M!Dent.below # 0 /\ ~(Len(walk) < StackFrames)
  BY DEF M!Overflow, M!Walking, M!Room
<1>2. WimWalk(file, walk, listing)
  BY <1>1, WimWalks
<1>3. file.damage # "none"
  <2> SUFFICES ASSUME WimTree(file), WimAt(file, walk, Len(listing)) PROVE FALSE
    BY <1>2 DEF WimWalk
  <2>1. PICK node, nth : /\ On(WimT(file), node, nth, Len(listing))
                         /\ WimFrames(file, walk, node, nth)
    BY DEF WimAt
  <2> DEFINE t == WimT(file)
             k == node[Len(node)]
             i == nth[Len(nth)]
             at == DentAt(file, k, i)
             child == Child(t, k, i)
             c == Len(Cuts(t, k))
  <2>2. /\ k \in Nodes(t) /\ c \in Nat /\ i \in 1..c /\ i < c /\ Len(node) = Len(walk)
        /\ M!Top = WimFrame(at, PathOf(t, k)) /\ M!Dent = Dents(file)[at]
        /\ Listed(t, k, i, M!Dent.name) /\ WimIs(file, file.members[child], at)
    <3>1. /\ k \in Nodes(t) /\ c \in Nat /\ i \in 1..c /\ Len(node) = Len(walk)
          /\ M!Top = WimFrame(at, PathOf(t, k)) /\ M!Dent = Dents(file)[at]
          /\ i = c => M!Dent.last
          /\ i < c => /\ Listed(t, k, i, M!Dent.name)
                      /\ WimIs(file, file.members[child], at)
      BY <1>1, <2>1, WimAtHand
    <3> HIDE DEF t, k, i, at, child, c
    <3>2. i < c
      BY <1>1, <3>1
    <3> QED BY <3>1, <3>2
  <2>3. Len(M!Path) = Len(walk)
    BY <1>1, <2>1, <2>2, WimPathLen
  <2>4. /\ t.members = file.members /\ Len(t.members) \in Nat
        /\ Cuts(t, k) \in Seq(Nat) /\ child <= Len(t.members)
        /\ t.members[child].path = Append(PathOf(t, k), M!Dent.name)
    BY <2>2, WimCut DEF Cut, Listed, WimT, Tree
  <2>5. child \in Nat \ {0} /\ child \in Nodes(t)
    <3>1. Cuts(t, k)[i] \in Nat
      BY <2>2, <2>4
    <3> HIDE DEF t, k, i
    <3> QED BY <2>4, <3>1 DEF Child, Nodes
  <2>6. PathOf(t, child) = M!Path
    <3> HIDE DEF child, t, k, at
    <3> QED BY <2>2, <2>4, <2>5 DEF PathOf, M!Path, WimFrame
  <2>7. Under(file, child) = M!Dent.below
    <3> HIDE DEF child, at
    <3> QED BY <2>2, <2>5 DEF Under, WimIs
  <2>8. WimNode(file, child)
    BY <2>5 DEF WimTree
  <2> HIDE DEF child
  <2>9. Len(PathOf(t, child)) < StackFrames
    BY <1>1, <2>7, <2>8 DEF WimNode
  <2> QED BY <1>1, <2>3, <2>6, <2>9
<1> QED BY <1>1, <1>3, WimRefuses DEF WimEnds

LEMMA WimFinish == ASSUME WimInv, M!Finish PROVE WimInv'
<1>1. /\ status = "walking" /\ walk = <<>> /\ status' = "open"
      /\ answers' = [i \in DOMAIN listing |-> M!NotRead]
      /\ file' = file /\ listing' = listing
  BY DEF M!Finish
<1>2. WimKept(file) /\ WimWalk(file, walk, listing) /\ Len(walk) = 0
  BY <1>1, WimWalks
<1>3. ~WimLost(file, walk)
  BY <1>2 DEF WimLost
<1>4. /\ file.damage # "told" /\ WimTree(file) /\ WimListed(file, listing)
      /\ WimAt(file, walk, Len(listing))
  BY <1>2, <1>3 DEF WimWalk
<1>5. PICK node, nth : On(WimT(file), node, nth, Len(listing)) /\ WimFrames(file, walk, node, nth)
  BY <1>4 DEF WimAt
<1>6. node \in Seq(Nat) /\ Len(node) = 0
  BY <1>2, <1>5 DEF WimFrames, On
<1>7. Len(listing) = Len(file.members)
  <2>1. node = <<>>
    BY <1>6
  <2> QED BY <1>5, <2>1 DEF On, WimT, Tree
<1>8. M!NotRead.said # "ok"
  BY DEF M!NotRead, M!Answer
<1>9. DOMAIN answers' = DOMAIN listing /\ \A i \in DOMAIN listing : answers'[i].said # "ok"
  BY <1>1, <1>8
<1> QED BY <1>1, <1>2, <1>4, <1>7, <1>9 DEF WimInv, WimEnds

----------------------------------------------------------------------------
\* The two modules' concatenation is one.
LEMMA FlattenSame == ASSUME NEW s PROVE M!FlattenSeq(s) = FlattenSeq(s)
BY DEF M!FlattenSeq, FlattenSeq

\* A body that was read whole and was decoded without an error.
LEMMA WimGives ==
  ASSUME NEW f, f.len \in Nat, f.chunk \in Nat, NEW r, NEW m, WimBody(f, r, m), M!ReadResource(f, r).said = "ok"
  PROVE  M!ReadResource(f, r).given = m.content
<1> DEFINE reach == Reach(f, r.at, r.onDisk)
           raw == Bytes(f, r.at, r.onDisk)
           got == Bytes(f, r.at, reach)
           n == M!ChunksOf(r.size, f.chunk)
           cut == r.packed /\ r.size > 0 /\ f.chunk > 0
<1>1. /\ m.content \in Seq(Nat) /\ r.size = Len(m.content) /\ r.at \in Nat /\ r.onDisk \in Nat
      /\ ~r.packed => m.content = raw
      /\ cut => n \in Nat \ {0}
      /\ cut /\ n = 1 =>
           M!DecodeOneChunk(raw, r.size) \in {Answer("ok", m.content), Answer("Corrupt", <<>>)}
      /\ cut /\ n > 1 =>
           /\ IsSeq(m.pieces) /\ Len(m.pieces) = n /\ m.content = FlattenSeq(m.pieces)
           /\ M!EndsFit(raw, n) =>
                \A k \in 1..n : M!ChunkRead(raw, r.size, f.chunk, n, k)
                                  \in {Answer("ok", m.pieces[k]), Answer("Corrupt", <<>>)}
  BY DEF WimBody
<1>2. reach \in Nat /\ reach <= r.onDisk
  BY <1>1 DEF Reach
<1>3. Len(got) = reach
  <2> HIDE DEF reach
  <2>1. got = [k \in 1..reach |-> ByteAt(f, r.at + k - 1)]
    BY DEF Bytes
  <2> QED BY <1>2, <2>1
<1>4. M!Bytes(f, r.at, M!Reach(f, r.at, r.onDisk)) = got
  BY DEF M!Bytes, Bytes, M!ByteAt, ByteAt, M!Reach, Reach
<1> HIDE DEF got
<1>5. /\ ~(Len(got) < r.onDisk)
      /\ ~r.packed => M!ReadResource(f, r) = Answer("ok", got)
      /\ r.packed => M!ReadResource(f, r) = M!DecodeChunked(got, r.size, f.chunk)
  BY <1>4 DEF M!ReadResource, M!Answer, Answer
<1>6. got = raw
  <2>1. reach = r.onDisk
    BY <1>1, <1>2, <1>3, <1>5
  <2> HIDE DEF reach
  <2> QED BY <2>1 DEF got
<1> HIDE DEF raw
<1>7. CASE ~r.packed
  BY <1>1, <1>5, <1>6, <1>7 DEF Answer
<1>8. CASE r.packed /\ ~(r.size > 0)
  <2>1. r.size = 0 /\ m.content = <<>>
    BY <1>1, <1>8
  <2>2. M!DecodeChunked(raw, r.size, f.chunk) = Answer("ok", <<>>)
    BY <2>1 DEF M!DecodeChunked, M!Answer, Answer
  <2> QED BY <1>5, <1>6, <1>8, <2>1, <2>2 DEF Answer
<1>11. f.chunk \in Nat
  OBVIOUS
<1>12. ~(r.packed /\ r.size > 0 /\ f.chunk = 0)
  <2> SUFFICES ASSUME r.packed, r.size > 0, f.chunk = 0 PROVE FALSE
    OBVIOUS
  <2>1. r.size # 0
    BY <1>1
  <2>2. M!DecodeChunked(raw, r.size, f.chunk) = Answer("panic", <<>>)
    BY <2>1 DEF M!DecodeChunked, M!Answer, Answer
  <2> QED BY <1>5, <1>6, <2>2 DEF Answer
<1>9. CASE cut /\ n = 1
  <2>1. M!DecodeChunked(raw, r.size, f.chunk) = M!DecodeOneChunk(raw, r.size)
    BY <1>1, <1>9, <1>11 DEF M!DecodeChunked
  <2> QED BY <1>1, <1>5, <1>6, <1>9, <2>1 DEF Answer
<1>10. CASE cut /\ n # 1
  <2> DEFINE part(k) == M!ChunkRead(raw, r.size, f.chunk, n, k)
             whole == M!FlattenSeq([k \in 1..n |-> part(k).given])
  <2>1. n \in Nat /\ n > 1
    BY <1>1, <1>10
  <2>2. M!DecodeChunked(raw, r.size, f.chunk) =
          IF M!EndsFit(raw, n) /\ \A k \in 1..n : part(k).said = "ok"
          THEN Answer("ok", whole) ELSE Answer("Corrupt", <<>>)
    <3>1. ~(r.size = 0) /\ r.size > 0 /\ f.chunk > 0 /\ f.chunk # 0 /\ n > 1 /\ n # 1
      BY <1>1, <1>10, <1>11, <2>1
    <3> QED BY <3>1 DEF M!DecodeChunked, M!Answer, Answer
  <2>3. M!DecodeChunked(raw, r.size, f.chunk).said = "ok"
    BY <1>5, <1>6, <1>10
  <2> HIDE DEF whole
  <2>4. /\ M!EndsFit(raw, n) /\ \A k \in 1..n : part(k).said = "ok"
        /\ M!DecodeChunked(raw, r.size, f.chunk).given = whole
    BY <2>2, <2>3 DEF Answer
  <2>5. IsSeq(m.pieces) /\ Len(m.pieces) = n /\ m.content = FlattenSeq(m.pieces)
    BY <1>1, <1>10, <2>1
  <2>6. ASSUME NEW k \in 1..n PROVE part(k).given = m.pieces[k]
    <3>1. part(k) \in {Answer("ok", m.pieces[k]), Answer("Corrupt", <<>>)}
      BY <1>1, <1>10, <2>1, <2>4
    <3>2. part(k).said = "ok"
      BY <2>4
    <3> HIDE DEF part
    <3> QED BY <3>1, <3>2 DEF Answer
  <2>7. m.pieces = [k \in 1..n |-> m.pieces[k]]
    BY <2>1, <2>5 DEF IsSeq
  <2> HIDE DEF n
  <2>8. [k \in 1..n |-> part(k).given] = m.pieces
    <3> HIDE DEF part
    <3> QED BY <2>6, <2>7
  <2>9. whole = m.content
    BY <2>5, <2>8, FlattenSame DEF whole
  <2> QED BY <1>5, <1>6, <1>10, <2>4, <2>9
<1> QED BY <1>7, <1>8, <1>9, <1>10, <1>11, <1>12

LEMMA WimReads == ASSUME WimInv, NEW i \in DOMAIN listing, M!ReadEntry(i) PROVE WimInv'
<1>1. /\ status = "open" /\ status' = status /\ listing' = listing /\ file' = file
      /\ answers' = [answers EXCEPT ![i] = M!ReadBody(listing[i])]
  BY DEF M!ReadEntry
<1>2. /\ WimKept(file) /\ file.damage # "told" /\ WimListed(file, listing)
      /\ Len(listing) = Len(file.members) /\ DOMAIN answers = DOMAIN listing
  BY <1>1 DEF WimInv
<1> DEFINE x == listing[i]
           m == file.members[i]
           a == M!ReadBody(x)
<1>3. WimStands(file, x, m)
  BY <1>2 DEF WimListed
<1> HIDE DEF x, m
<1>4. a.said = "ok" /\ x.kind = "file" => a.given = m.content
  <2> SUFFICES ASSUME a.said = "ok", x.kind = "file" PROVE a.given = m.content
    OBVIOUS
  <2>1. CASE x.body = <<>>
    <3>1. a.given = <<>>
      BY <2>1 DEF M!ReadBody, M!Answer
    <3>2. m.content = <<>>
      BY <1>3, <2>1 DEF WimStands
    <3> QED BY <3>1, <3>2
  <2>2. CASE x.body # <<>>
    <3>1. PICK r : x.body = <<r>> /\ WimBody(file, r, m)
      BY <1>3, <2>2 DEF WimStands
    <3>2. x.body[1] = r
      BY <3>1
    <3>3. a = M!ReadResource(file, r)
      BY <2>2, <3>2 DEF M!ReadBody
    <3> HIDE DEF a
    <3> QED BY <1>2, <3>1, <3>3, WimGives DEF WimKept
  <2> QED BY <2>1, <2>2
<1>5. DOMAIN answers' = DOMAIN listing
  BY <1>1, <1>2
<1> HIDE DEF a
<1>6. ASSUME NEW k \in DOMAIN listing
      PROVE  answers'[k].said = "ok" /\ listing[k].kind = "file" =>
               answers'[k].given = file.members[k].content
  <2>1. CASE k = i
    <3>1. answers'[k] = a
      BY <1>1, <1>2, <2>1 DEF a, x
    <3> QED BY <1>4, <2>1, <3>1 DEF x, m
  <2>2. CASE k # i
    BY <1>1, <1>2, <2>2 DEF WimInv
  <2> QED BY <2>1, <2>2
<1> QED BY <1>1, <1>2, <1>5, <1>6 DEF WimInv

LEMMA WimShrinks == ASSUME WimInv, M!Shrink PROVE WimInv'
<1>1. PICK n \in TreeCuts : n <= file.len /\ file' = [file EXCEPT !.len = @ - n, !.shrunk = TRUE]
  BY DEF M!Shrink
<1>2. status = "open" /\ walk' = walk /\ listing' = listing /\ status' = status /\ answers' = answers
  BY DEF M!Shrink
<1>3. /\ WimKept(file) /\ file.damage # "told" /\ WimListed(file, listing)
      /\ Len(listing) = Len(file.members) /\ DOMAIN answers = DOMAIN listing
  BY <1>2 DEF WimInv
<1>4. n \in Nat
  BY TreesAssumption
<1>5. /\ file'.format = file.format /\ file'.members = file.members /\ file'.damage = file.damage
      /\ file'.byte = file.byte /\ file'.chunk = file.chunk
      /\ file'.len = file.len - n /\ DOMAIN file' = DOMAIN file
      /\ file' = [x \in DOMAIN file |-> file'[x]]
  BY <1>1, <1>3 DEF WimKept, HasFields
<1>6. WimKept(file')
  BY <1>1, <1>3, <1>4, <1>5 DEF WimKept, HasFields
<1>7. ASSUME NEW r, NEW m, WimBody(file, r, m) PROVE WimBody(file', r, m)
  <2>1. \A p, k : Bytes(file', p, k) = Bytes(file, p, k)
    BY <1>5 DEF Bytes, ByteAt
  <2> QED BY <1>5, <1>7, <2>1 DEF WimBody
<1>8. WimListed(file', listing)
  <2> SUFFICES ASSUME NEW i \in DOMAIN listing PROVE WimStands(file', listing[i], file.members[i])
    BY <1>3, <1>5 DEF WimListed
  <2>1. WimStands(file, listing[i], file.members[i])
    BY <1>3 DEF WimListed
  <2> QED BY <1>7, <2>1 DEF WimStands
<1>9. \A i \in DOMAIN listing :
         answers[i].said = "ok" /\ listing[i].kind = "file" =>
           answers[i].given = file.members[i].content
  BY <1>2 DEF WimInv
<1> QED BY <1>2, <1>3, <1>5, <1>6, <1>8, <1>9 DEF WimInv

LEMMA WimNext == ASSUME WimInv, M!Next PROVE WimInv'
<1>1. ASSUME \/ M!RefuseStream \/ M!RefuseHeader \/ M!RefuseSpanned \/ M!RefuseTables
             \/ M!Panic
      PROVE  WimInv'
  <2>0. M!TablesPanic(file) => ~M!SoundTables(file)
    BY DEF M!TablesPanic, M!SoundTables
  <2>1. WrittenWim(file) /\ ~WimOpens(file) /\ status = "new"
    BY <1>1, <2>0 DEF M!RefuseStream, M!RefuseHeader, M!RefuseSpanned, M!RefuseTables, M!Panic,
                      WimInv, WimOpens
  <2>2. file.damage # "none"
    BY <2>1 DEF WrittenWim
  <2> QED BY <1>1, <2>1, <2>2, WimRefuses
       DEF M!RefuseStream, M!RefuseHeader, M!RefuseSpanned, M!RefuseTables, M!Panic, WimEnds
<1> QED BY <1>1, WimStart, WimGoesOn, WimCannot, WimOverflows, WimFinish, WimReads, WimShrinks DEF M!Next

LEMMA WimSame == ASSUME WimInv, UNCHANGED vars PROVE WimInv'
BY DEF WimInv, WimEnds, vars

LEMMA WimKeeps == ASSUME WimInv PROVE ListsTheTree /\ DamageIsTold /\ TreeOkIsContent
<1>1. file.format = "wim" /\ status \in {"new", "walking", "open"} \union WimEnds
  BY DEF WimInv, WimKept
<1>2. DamageIsTold
  BY DEF WimInv, DamageIsTold
<1>3. TreeOkIsContent
  <2> SUFFICES ASSUME NEW k \in DOMAIN answers, answers[k].said = "ok", listing[k].kind = "file"
               PROVE  answers[k].given = Member(k).content
    BY DEF TreeOkIsContent
  <2>1. status = "open"
    BY DEF WimInv
  <2> QED BY <2>1 DEF WimInv, Member
<1>4. ListsTheTree
  <2> SUFFICES ASSUME file.damage = "none"
               PROVE  /\ ~Refused /\ ~Aborted
                      /\ \A k \in DOMAIN listing : Matches(listing[k], Member(k))
                      /\ status = "open" => Len(listing) = Len(file.members)
    BY DEF ListsTheTree
  <2>1. ~Refused /\ ~Aborted
    BY <1>1 DEF Refused, Errors, Aborted, WimInv, WimEnds
  <2>2. ASSUME NEW k \in DOMAIN listing PROVE Matches(listing[k], Member(k))
    <3>1. WimListed(file, listing)
      BY <1>1, <2>2 DEF WimInv, WimWalk
    <3> DEFINE x == listing[k]
               m == file.members[k]
    <3>2. WimStands(file, x, m)
      BY <3>1 DEF WimListed
    <3> HIDE DEF x, m
    <3>3. x.kind = "file" => x.size = Len(m.content)
      <4>1. Len(<<>>) = 0
        OBVIOUS
      <4> QED BY <3>2, <4>1 DEF WimStands, WimBody
    <3> QED BY <3>2, <3>3 DEF WimStands, Matches, Member, x, m
  <2>3. status = "open" => Len(listing) = Len(file.members)
    BY DEF WimInv
  <2> QED BY <2>1, <2>2, <2>3
<1> QED BY <1>2, <1>3, <1>4

----------------------------------------------------------------------------
(***************************************************************************)
(* Directories before what is in them, in the listings of Xar and Wim.     *)
(***************************************************************************)
\* What is listed, and what is queued below it: a place under an entry that is
\* a directory, or at the root.
Inside(l, p) ==
  IsSeq(p) /\ (p = <<>> \/ \E j \in 1 .. Len(l) : l[j].kind = "dir" /\ l[j].path = p)

Placed(l) ==
  IsSeq(l) /\ \A i \in 1 .. Len(l) :
    \/ Len(l[i].path) = 1
    \/ \E j \in 1 .. i - 1 : /\ l[j].kind = "dir"
                             /\ l[i].path = Append(l[j].path, l[i].path[Len(l[i].path)])

LEMMA PlacedIs == Placed(listing) => ParentsFirst
<1>1. IsSeq(listing) => DOMAIN listing = 1 .. Len(listing)
  BY DEF IsSeq
<1> QED BY <1>1 DEF Placed, ParentsFirst

LEMMA NonePlaced == Placed(<<>>)
<1>1. Len(<<>>) = 0 /\ IsSeq(<<>>)
  BY DEF IsSeq
<1> QED BY <1>1 DEF Placed

LEMMA InsideMore ==
  ASSUME NEW l, IsSeq(l), NEW x, NEW p, Inside(l, p)
  PROVE  Inside(Append(l, x), p)
<1> DEFINE more == Append(l, x)
<1>1. /\ Len(l) \in Nat /\ Len(more) = Len(l) + 1
      /\ \A i \in 1 .. Len(l) : more[i] = l[i]
  BY AppendIsSeq
<1> HIDE DEF more
<1>2. IsSeq(p) /\ (p = <<>> \/ \E j \in 1 .. Len(l) : l[j].kind = "dir" /\ l[j].path = p)
  BY DEF Inside
<1>3. CASE p = <<>>
  BY <1>2, <1>3 DEF Inside, more
<1>4. CASE p # <<>>
  <2>1. PICK j \in 1 .. Len(l) : l[j].kind = "dir" /\ l[j].path = p
    BY <1>2, <1>4
  <2>2. j \in 1 .. Len(more) /\ more[j] = l[j]
    BY <1>1
  <2>3. Inside(more, p)
    BY <1>2, <2>1, <2>2 DEF Inside
  <2> QED BY <2>3 DEF more
<1> QED BY <1>3, <1>4

\* An entry below a place that is listed.
LEMMA PlacedMore ==
  ASSUME NEW l, Placed(l), NEW x, NEW p, NEW name, Inside(l, p), x.path = Append(p, name)
  PROVE  /\ Placed(Append(l, x)) /\ IsSeq(x.path)
         /\ x.kind = "dir" => Inside(Append(l, x), x.path)
<1> DEFINE more == Append(l, x)
           n == Len(l)
<1>1. IsSeq(l)
  BY DEF Placed
<1>2. /\ n \in Nat /\ IsSeq(more) /\ Len(more) = n + 1 /\ more[n + 1] = x
      /\ \A i \in 1..n : more[i] = l[i]
  BY <1>1, AppendIsSeq
<1>3. /\ IsSeq(p) /\ Len(p) \in Nat /\ IsSeq(x.path) /\ Len(x.path) = Len(p) + 1
      /\ x.path[Len(p) + 1] = name
  <2>1. IsSeq(p)
    BY DEF Inside
  <2>2. /\ Len(p) \in Nat /\ IsSeq(Append(p, name)) /\ Len(Append(p, name)) = Len(p) + 1
        /\ Append(p, name)[Len(p) + 1] = name
    BY <2>1, AppendIsSeq
  <2> QED BY <2>1, <2>2
<1> HIDE DEF more, n
<1>4. ASSUME NEW i \in 1..n
      PROVE  \/ Len(more[i].path) = 1
             \/ \E j \in 1 .. i - 1 :
                  /\ more[j].kind = "dir"
                  /\ more[i].path = Append(more[j].path, more[i].path[Len(more[i].path)])
  <2>1. \A j \in 1 .. i - 1 : more[j] = l[j]
    BY <1>2
  <2>2. more[i] = l[i]
    BY <1>2
  <2>3. \/ Len(l[i].path) = 1
        \/ \E j \in 1 .. i - 1 : /\ l[j].kind = "dir"
                                 /\ l[i].path = Append(l[j].path, l[i].path[Len(l[i].path)])
    BY DEF Placed, n
  <2> QED BY <2>1, <2>2, <2>3
<1>5. \/ Len(x.path) = 1
      \/ \E j \in 1..n : /\ more[j].kind = "dir"
                         /\ x.path = Append(more[j].path, x.path[Len(x.path)])
  <2>1. CASE p = <<>>
    BY <1>3, <2>1
  <2>2. CASE p # <<>>
    <3>1. PICK j \in 1..n : l[j].kind = "dir" /\ l[j].path = p
      BY <2>2 DEF Inside, n
    <3>2. more[j] = l[j]
      BY <1>2
    <3> QED BY <1>3, <3>1, <3>2
  <2> QED BY <2>1, <2>2
<1>6. ASSUME NEW i \in 1 .. n + 1
      PROVE  \/ Len(more[i].path) = 1
             \/ \E j \in 1 .. i - 1 :
                  /\ more[j].kind = "dir"
                  /\ more[i].path = Append(more[j].path, more[i].path[Len(more[i].path)])
  <2>1. CASE i = n + 1
    <3>1. i - 1 = n /\ more[i] = x
      BY <1>2, <2>1
    <3> QED BY <1>5, <3>1
  <2>2. CASE i # n + 1
    <3>1. i \in 1..n
      BY <1>2, <2>2
    <3> QED BY <1>4, <3>1
  <2> QED BY <2>1, <2>2
<1>7. Placed(more)
  BY <1>2, <1>6 DEF Placed
<1>8. x.kind = "dir" => Inside(more, x.path)
  <2>1. n + 1 \in 1 .. n + 1
    BY <1>2
  <2> QED BY <1>2, <1>3, <2>1 DEF Inside
<1> QED BY <1>3, <1>7, <1>8 DEF more

XarNested ==
  /\ Placed(listing)
  /\ status = "walking" =>
       /\ IsSeq(walk)
       /\ \A q \in 1 .. Len(walk) :
            \E e \in file.elements : \E path : walk[q] = Under1(e, path) /\ Inside(listing, path)

LEMMA XarNestStart == ASSUME XarInv, X!Start, XarNested PROVE XarNested'
<1>1. /\ status = "new" /\ walk' = X!Queue(file.toc, <<>>)
      /\ file' = file /\ listing' = listing
  BY DEF X!Start
<1>2. file.toc \in Seq(file.elements)
  BY <1>1 DEF XarInv, XarKept
<1> DEFINE n == Len(file.toc)
<1>3. /\ n \in Nat /\ IsSeq(walk') /\ Len(walk') = n
      /\ \A k \in 1..n : walk'[k] = Under1(file.toc[n + 1 - k], <<>>)
  BY <1>1, <1>2, QueueOf
<1>4. \A k \in 1..n : file.toc[k] \in file.elements
  BY <1>2
<1> HIDE DEF n
<1>5. Inside(listing, <<>>)
  BY DEF Inside, IsSeq
<1>6. ASSUME NEW q \in 1 .. Len(walk')
      PROVE  \E e \in file.elements : \E path : walk'[q] = Under1(e, path) /\ Inside(listing, path)
  <2>1. q \in 1..n /\ n + 1 - q \in 1..n
    BY <1>3
  <2> QED BY <1>3, <1>4, <1>5, <2>1
<1> QED BY <1>1, <1>3, <1>6 DEF XarNested

LEMMA XarNestSkip == ASSUME XarInv, X!Skip, XarNested PROVE XarNested'
<1>1. /\ status = "walking" /\ walk # <<>> /\ walk' = X!Rest
      /\ file' = file /\ listing' = listing
  BY DEF X!Skip
<1>2. /\ IsSeq(walk') /\ Len(walk') = Len(walk) - 1 /\ Len(walk) \in Nat
      /\ \A q \in 1 .. Len(walk) - 1 : walk'[q] = walk[q]
  BY <1>1, XarWalks
<1>3. ASSUME NEW q \in 1 .. Len(walk')
      PROVE  \E e \in file.elements : \E path : walk'[q] = Under1(e, path) /\ Inside(listing, path)
  <2>1. q \in 1 .. Len(walk) /\ walk'[q] = walk[q]
    BY <1>2
  <2> QED BY <1>1, <2>1 DEF XarNested
<1> QED BY <1>1, <1>2, <1>3 DEF XarNested

LEMMA XarNestCollect == ASSUME XarInv, X!Collect, XarNested PROVE XarNested'
<1>1. /\ status = "walking" /\ walk # <<>>
      /\ listing' = Append(listing, X!EntryAtHand)
      /\ walk' = X!Rest \o X!Queue(X!Node.kids, X!PathAtHand)
      /\ file' = file
  BY DEF X!Collect
<1>2. /\ XarKept(file) /\ Len(walk) \in Nat \ {0} /\ IsSeq(X!Rest) /\ Len(X!Rest) = Len(walk) - 1
      /\ \A q \in 1 .. Len(walk) - 1 : X!Rest[q] = walk[q]
  BY <1>1, XarWalks
<1>3. Len(walk) \in 1 .. Len(walk)
  BY <1>2
<1>4. PICK e \in file.elements : \E p : walk[Len(walk)] = Under1(e, p) /\ Inside(listing, p)
  BY <1>1, <1>3 DEF XarNested
<1>5. PICK p : walk[Len(walk)] = Under1(e, p) /\ Inside(listing, p)
  BY <1>4
<1>6. /\ X!Node.kids = e.kids /\ X!PathAtHand = Append(p, X!Component(e.names))
      /\ X!EntryAtHand = XarEntry(X!PathAtHand, e)
  BY <1>2, <1>5, XarAtHand
<1>7. e.kids \in Seq(file.elements) /\ (e.kids # <<>> => e.type = "directory")
  BY <1>2 DEF XarKept, XarElement
<1> DEFINE x == X!EntryAtHand
           path == X!PathAtHand
           kids == X!Node.kids
           r == X!Rest
           m == Len(r)
           n == Len(kids)
<1>8. x.path = path /\ x.kind = XarKind(e)
  BY <1>6 DEF XarEntry
<1>9. IsSeq(listing) /\ Placed(listing)
  BY DEF XarNested, Placed
<1>10. Placed(listing') /\ (x.kind = "dir" => Inside(listing', path))
  <2> HIDE DEF x, path
  <2>1. x.path = Append(p, X!Component(e.names))
    BY <1>6, <1>8 DEF path
  <2>2. Placed(Append(listing, x)) /\ (x.kind = "dir" => Inside(Append(listing, x), x.path))
    BY <1>5, <1>9, <2>1, PlacedMore
  <2> QED BY <1>1, <1>8, <2>2 DEF x
<1>11. \A z : Inside(listing, z) => Inside(listing', z)
  BY <1>1, <1>9, InsideMore
<1>12. kids # <<>> => Inside(listing', path)
  BY <1>6, <1>7, <1>8, <1>10 DEF XarKind
<1>13. kids \in Seq(file.elements)
  BY <1>6, <1>7
<1> HIDE DEF x, path, kids, r
<1>14. /\ m \in Nat /\ n \in Nat /\ IsSeq(walk') /\ Len(walk') = m + n
       /\ \A q \in 1..m : walk'[q] = r[q]
       /\ \A k \in 1..n : walk'[m + k] = Under1(kids[n + 1 - k], path)
  <2>1. IsSeq(r) /\ walk' = r \o X!Queue(kids, path)
    BY <1>1, <1>2 DEF r, kids, path
  <2> QED BY <1>13, <2>1, QueueMore
<1>15. /\ \A k \in 1..n : kids[k] \in file.elements
       /\ n # 0 => kids # <<>>
       /\ m = Len(walk) - 1 /\ \A q \in 1..m : walk'[q] = walk[q]
  BY <1>2, <1>13, <1>14 DEF r
<1> HIDE DEF m, n
<1>16. ASSUME NEW q \in 1 .. m + n
       PROVE  \E d \in file.elements : \E z : walk'[q] = Under1(d, z) /\ Inside(listing', z)
  <2>1. CASE q \in 1..m
    <3>1. q \in 1 .. Len(walk) /\ walk'[q] = walk[q]
      BY <1>2, <1>14, <1>15, <2>1
    <3>2. PICK d \in file.elements : \E z : walk[q] = Under1(d, z) /\ Inside(listing, z)
      BY <1>1, <3>1 DEF XarNested
    <3> QED BY <1>11, <3>1, <3>2
  <2>2. CASE q \notin 1..m
    <3>1. q - m \in 1..n /\ m + (q - m) = q /\ n + 1 - (q - m) \in 1..n /\ n # 0
      BY <1>14, <2>2
    <3>2. walk'[q] = Under1(kids[n + 1 - (q - m)], path) /\ kids[n + 1 - (q - m)] \in file.elements
      BY <1>14, <1>15, <3>1
    <3> QED BY <1>12, <1>15, <3>1, <3>2
  <2> QED BY <2>1, <2>2
<1> QED BY <1>1, <1>10, <1>14, <1>16 DEF XarNested

LEMMA XarNestOther ==
  ASSUME XarNested, \/ listing' = <<>> /\ status' # "walking"
                    \/ listing' = listing /\ status' # "walking"
                    \/ UNCHANGED vars
  PROVE  XarNested'
BY NonePlaced DEF XarNested, vars

LEMMA XarNestNext == ASSUME XarInv, X!Next, XarNested PROVE XarNested'
<1>1. CASE X!RefuseStream \/ X!RefuseToc \/ X!RefuseStyle
  <2>1. listing' = <<>> /\ status' # "walking"
    BY <1>1 DEF X!RefuseStream, X!RefuseToc, X!RefuseStyle, X!Refuse
  <2> QED BY <2>1, XarNestOther
<1>2. CASE X!Finish \/ X!Shrink \/ \E i \in DOMAIN listing : X!ReadEntry(i)
  <2>1. listing' = listing /\ status' # "walking"
    BY <1>2 DEF X!Finish, X!Shrink, X!ReadEntry
  <2> QED BY <2>1, XarNestOther
<1> QED BY <1>1, <1>2, XarNestStart, XarNestSkip, XarNestCollect DEF X!Next

LEMMA XarNestInit == ASSUME X!Init PROVE XarNested
<1>1. listing = <<>> /\ status # "walking"
  BY DEF X!Init
<1> QED BY <1>1, NonePlaced DEF XarNested

----------------------------------------------------------------------------
WimNested ==
  /\ Placed(listing)
  /\ status \in {"new", "walking"} =>
       \A at \in DOMAIN Dents(file) : Dents(file)[at].below # 0 => Dents(file)[at].dir
  /\ status = "walking" =>
       /\ IsSeq(walk)
       /\ \A q \in 1 .. Len(walk) :
            \E at, parent : walk[q] = WimFrame(at, parent) /\ Inside(listing, parent)

LEMMA WimNestStart == ASSUME WimNested, M!Start PROVE WimNested'
<1> DEFINE first == WimFrame(M!Root.below, <<>>)
<1>1. /\ status = "new" /\ file' = file /\ listing' = listing
      /\ walk' = IF M!Root.last \/ M!Root.below = 0 THEN <<>> ELSE <<first>>
  BY DEF M!Start, WimFrame
<1>2. Inside(listing, <<>>)
  BY DEF Inside, IsSeq
<1> HIDE DEF first
<1>3. /\ IsSeq(<<>>) /\ Len(<<>>) = 0 /\ Len(<<first>>) = 1 /\ <<first>>[1] = first
      /\ IsSeq(<<first>>)
  <2>1. <<first>> \in Seq({first})
    OBVIOUS
  <2>2. IsSeq(<<first>>)
    BY <2>1, SeqIsSeq
  <2> QED BY <2>2 DEF IsSeq
<1>4. IsSeq(walk') /\ \A q \in 1 .. Len(walk') : walk'[q] = first
  <2>1. CASE walk' = <<>>
    BY <1>3, <2>1
  <2>2. CASE walk' = <<first>>
    <3>1. \A q \in 1 .. 1 : q = 1
      OBVIOUS
    <3> QED BY <1>3, <2>2, <3>1
  <2> QED BY <1>1, <2>1, <2>2
<1> QED BY <1>1, <1>2, <1>4 DEF WimNested, first

LEMMA WimNestLeave == ASSUME WimNested, M!Leave PROVE WimNested'
<1>1. /\ status = "walking" /\ status' = status /\ walk # <<>> /\ file' = file /\ listing' = listing
      /\ walk' = SubSeq(walk, 1, Len(walk) - 1) /\ IsSeq(walk)
  BY DEF M!Leave, M!Walking, WimNested
<1>2. /\ IsSeq(walk') /\ Len(walk') = Len(walk) - 1 /\ Len(walk) \in Nat \ {0}
      /\ \A j \in 1 .. Len(walk) - 1 : walk'[j] = walk[j]
  BY <1>1, WithoutLast
<1>3. ASSUME NEW q \in 1 .. Len(walk')
      PROVE  \E at, parent : walk'[q] = WimFrame(at, parent) /\ Inside(listing, parent)
  <2>1. q \in 1 .. Len(walk) /\ walk'[q] = walk[q]
    BY <1>2
  <2> QED BY <1>1, <2>1 DEF WimNested
<1> QED BY <1>1, <1>2, <1>3 DEF WimNested

LEMMA WimNestVisit == ASSUME WimNested, M!Visit PROVE WimNested'
<1>1. /\ status = "walking" /\ status' = status /\ walk # <<>> /\ M!Parses /\ walk' = M!Onwards
      /\ listing' = Append(listing, M!EntryAtHand) /\ file' = file
  BY DEF M!Visit, M!Walking
<1> DEFINE L == Len(walk)
           next == M!Dent.next
           x == M!EntryAtHand
<1>2. L \in Nat \ {0} /\ IsSeq(walk) /\ L \in 1..L
  BY <1>1 DEF WimNested, IsSeq
<1>3. PICK at, parent : walk[L] = WimFrame(at, parent) /\ Inside(listing, parent)
  BY <1>1, <1>2 DEF WimNested
<1> DEFINE moved == WimFrame(next, parent)
           walk1 == [walk EXCEPT ![Len(walk)].at = next]
           last == WimFrame(M!Dent.below, M!Path)
<1>4. [walk[L] EXCEPT !.at = next] = moved
  BY <1>3 DEF WimFrame
<1>5. walk1 = [walk EXCEPT ![L] = moved]
  BY <1>4
<1>6. /\ IsSeq(walk1) /\ Len(walk1) = L /\ walk1[L] = moved
      /\ \A j \in 1..L : j # L => walk1[j] = walk[j]
  <2> DEFINE s == walk
             r == [s EXCEPT ![L] = moved]
  <2>0. Len(s) = L
    OBVIOUS
  <2>1. IsSeq(s) /\ L \in 1 .. Len(s)
    BY <1>2
  <2> HIDE DEF s, L, moved, walk1, next, last
  <2>2. /\ IsSeq(r) /\ Len(r) = Len(s) /\ r[L] = moved
        /\ \A j \in 1..Len(s) : j # L => r[j] = s[j]
    BY <2>1, ExceptIsSeq
  <2> QED BY <1>5, <2>0, <2>1, <2>2 DEF s
<1>7. walk' = walk1 \o IF M!Dent.below # 0 THEN <<last>> ELSE <<>>
  BY <1>1 DEF M!Onwards, WimFrame
<1>8. M!Path = Append(parent, M!Dent.name)
  BY <1>3 DEF M!Path, M!Top, WimFrame
<1>9. x.path = M!Path /\ x.kind = IF M!Dent.dir THEN "dir" ELSE "file"
  BY DEF M!EntryAtHand
<1>10. M!Dent.below # 0 => M!Dent.dir
  BY <1>1 DEF WimNested, M!Parses, M!Dent, Dents
<1> HIDE DEF walk1, last, moved, x
<1>11. IsSeq(listing) /\ Placed(listing)
  BY DEF WimNested, Placed
<1>12. Placed(listing') /\ (x.kind = "dir" => Inside(listing', M!Path))
  <2>1. x.path = Append(parent, M!Dent.name)
    BY <1>8, <1>9
  <2>2. Placed(Append(listing, x)) /\ (x.kind = "dir" => Inside(Append(listing, x), x.path))
    BY <1>3, <1>11, <2>1, PlacedMore
  <2> QED BY <1>1, <1>9, <2>2 DEF x
<1>13. \A z : Inside(listing, z) => Inside(listing', z)
  BY <1>1, <1>11, InsideMore
<1>14. /\ IsSeq(walk')
       /\ M!Dent.below = 0 => Len(walk') = L
       /\ M!Dent.below # 0 => Len(walk') = L + 1 /\ walk'[L + 1] = last
       /\ \A j \in 1..L : walk'[j] = walk1[j]
  <2>1. CASE M!Dent.below = 0
    <3>1. walk' = walk1
      BY <1>6, <1>7, <2>1, OneMore
    <3> QED BY <1>6, <2>1, <3>1
  <2>2. CASE M!Dent.below # 0
    <3>1. walk' = walk1 \o <<last>>
      BY <1>7, <2>2
    <3> HIDE DEF L, next
    <3>2. /\ IsSeq(walk') /\ Len(walk') = L + 1 /\ walk'[L + 1] = last
          /\ \A j \in 1..L : walk'[j] = walk1[j]
      BY <1>6, <3>1, OneMore
    <3> QED BY <2>2, <3>2
  <2> QED BY <2>1, <2>2
<1>15. ASSUME NEW q \in 1 .. Len(walk')
       PROVE  \E a, z : walk'[q] = WimFrame(a, z) /\ Inside(listing', z)
  <2>1. CASE q = L + 1
    <3>1. M!Dent.below # 0
      BY <1>2, <1>14, <2>1
    <3>2. walk'[q] = last /\ Inside(listing', M!Path)
      BY <1>9, <1>10, <1>12, <1>14, <2>1, <3>1
    <3> QED BY <3>2 DEF last
  <2>2. CASE q = L
    <3>1. walk'[q] = moved
      BY <1>2, <1>6, <1>14, <2>2
    <3>2. Inside(listing', parent)
      BY <1>3, <1>13
    <3> QED BY <3>1, <3>2 DEF moved
  <2>3. CASE q # L + 1 /\ q # L
    <3>1. q \in 1..L /\ q # L
      BY <1>2, <1>14, <2>3
    <3>2. walk'[q] = walk[q]
      BY <1>6, <1>14, <3>1
    <3>3. PICK a, z : walk[q] = WimFrame(a, z) /\ Inside(listing, z)
      BY <1>1, <3>1 DEF WimNested
    <3> QED BY <1>13, <3>2, <3>3
  <2> QED BY <2>1, <2>2, <2>3
<1> QED BY <1>1, <1>12, <1>14, <1>15 DEF WimNested

LEMMA WimNestOther ==
  ASSUME WimNested, \/ listing' \in {<<>>, listing} /\ status' \notin {"new", "walking"}
                    \/ UNCHANGED vars
  PROVE  WimNested'
BY NonePlaced DEF WimNested, vars

LEMMA WimNestNext == ASSUME M!Next, WimNested PROVE WimNested'
<1>1. CASE \/ M!RefuseStream \/ M!RefuseHeader \/ M!RefuseSpanned \/ M!RefuseTables \/ M!Panic
           \/ M!CannotParse \/ M!Unresolved \/ M!Overflow
  <2>1. listing' = <<>> /\ status' \notin {"new", "walking"}
    BY <1>1 DEF M!RefuseStream, M!RefuseHeader, M!RefuseSpanned, M!RefuseTables, M!Panic,
                M!CannotParse, M!Unresolved, M!Overflow, M!Refuse
  <2> QED BY <2>1, WimNestOther
<1>2. CASE M!Finish \/ M!Shrink \/ \E i \in DOMAIN listing : M!ReadEntry(i)
  <2>1. listing' = listing /\ status' \notin {"new", "walking"}
    BY <1>2 DEF M!Finish, M!Shrink, M!ReadEntry
  <2> QED BY <2>1, WimNestOther
<1> QED BY <1>1, <1>2, WimNestStart, WimNestLeave, WimNestVisit DEF M!Next

LEMMA WimNestInit == ASSUME M!Init PROVE WimNested
<1>1. listing = <<>> /\ status = "new" /\ WrittenWim(file)
  BY TreesAssumption DEF M!Init
<1> QED BY <1>1, NonePlaced DEF WimNested, WrittenWim
============================================================================
