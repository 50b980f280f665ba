--------------------------- MODULE VolumesProofs ---------------------------
(***************************************************************************)
(* Proofs about Volumes: the stream of ConcatReader has no gap, for every   *)
(* number and length of volumes, every slice but the empty one, and every   *)
(* volume that comes or goes while it is read.                              *)
(***************************************************************************)
EXTENDS Volumes, TLAPS

\* Where the reader stands: the volume it reads or opens next, and how much of
\* it has been delivered.
AtVol == IF current = Closed THEN idx + 1 ELSE current.vol
AtPart == IF current = Closed THEN 0 ELSE current.at

Emptied(from, to) == \A v \in from .. to : Length[v] = 0

\* What was delivered last is what comes before the place the reader stands at.
StandsAfter ==
  IF delivered = <<>> THEN AtPart = 0 /\ Emptied(1, AtVol - 1)
  ELSE LET q == delivered[Len(delivered)]
       IN \/ AtPart > 0 /\ q = <<AtVol, AtPart>>
          \/ /\ AtPart = 0 /\ q[1] < AtVol /\ q[2] = Length[q[1]]
             /\ Emptied(q[1] + 1, AtVol - 1)

ListInv ==
  /\ \A i \in 1..Len(files) : files[i] = i
  /\ phase = "listing" => idx = 0 /\ ~busy
  /\ busy => room \in OutSizes

IndInv == TypeOK /\ ListInv /\ NothingIsSkipped /\ StandsAfter

----------------------------------------------------------------------------
LEMMA InitInd == Init => IndInv
<1> SUFFICES ASSUME Init PROVE IndInv
  OBVIOUS
<1> USE VolumesAssumption
<1>1. TypeOK
  <2>1. Closed \in [vol : 0..Last, at : Nat] /\ 0 \in 0..Moves
    BY DEF Closed
  <2>2. <<>> \in Seq(Numbers) /\ <<>> \in Seq(Numbers \X Nat) /\ 0 \in 0..Len(<<>>)
    OBVIOUS
  <2> QED BY <2>1, <2>2 DEF Init, TypeOK
<1>2. ListInv
  BY DEF Init, ListInv
<1>3. NothingIsSkipped
  BY DEF Init, NothingIsSkipped
<1>4. StandsAfter
  BY DEF Init, StandsAfter, AtVol, AtPart, Emptied, Closed
<1> QED BY <1>1, <1>2, <1>3, <1>4 DEF IndInv

\* E is D and after it the parts of volume v from one place to another.
Grown(D, E, v, from, to) ==
  /\ D \in Seq(Numbers \X Nat) /\ E \in Seq(Numbers \X Nat)
  /\ v \in Numbers /\ from \in Nat /\ to \in Nat /\ from < to
  /\ Len(E) = Len(D) + (to - from)
  /\ \A k \in 1..Len(D) : E[k] = D[k]
  /\ \A k \in 1 .. to - from : E[Len(D) + k] = <<v, from + k>>

Gapless(D) == \A k \in 1 .. Len(D) - 1 : Follows(D[k], D[k + 1])

\* What a read adds comes after what was delivered, part by part.
LEMMA Added ==
  ASSUME NEW D \in Seq(Numbers \X Nat), NEW v \in Numbers, NEW from \in Nat, NEW to \in Nat,
         from < to
  PROVE  Grown(D, D \o Parts(v, from, to), v, from, to)
<1> DEFINE P == Parts(v, from, to)
<1>1. \A k \in 1 .. to - from : <<v, from + k>> \in Numbers \X Nat
  OBVIOUS
<1>2. P = [k \in 1 .. to - from |-> <<v, from + k>>] /\ to - from \in Nat
  BY DEF Parts
<1>3. P \in Seq(Numbers \X Nat)
  BY <1>1, <1>2
<1>4. Len(P) = to - from
  BY <1>2
<1>5. \A k \in 1 .. to - from : P[k] = <<v, from + k>>
  BY <1>2
<1> HIDE DEF P
<1>6. Len(D) \in Nat /\ Len(D \o P) = Len(D) + (to - from) /\ D \o P \in Seq(Numbers \X Nat)
  BY <1>2, <1>3, <1>4
<1>7. \A k \in 1..Len(D) : (D \o P)[k] = D[k]
  BY <1>3
<1>8. ASSUME NEW k \in 1 .. to - from PROVE (D \o P)[Len(D) + k] = <<v, from + k>>
  <2>1. Len(D) + k \in 1 .. Len(D) + Len(P) /\ Len(D) + k > Len(D) /\ (Len(D) + k) - Len(D) = k
    BY <1>2, <1>4, <1>6
  <2>2. (D \o P)[Len(D) + k] = P[k]
    BY <1>3, <2>1
  <2> QED BY <1>5, <2>2
<1> QED BY <1>6, <1>7, <1>8 DEF P, Grown

\* A run without gaps that is added where the stream stands leaves no gap.
LEMMA Chained ==
  ASSUME NEW D, NEW E, NEW v, NEW at, NEW to, Grown(D, E, v, at, to),
         D # <<>>, Gapless(D), Follows(D[Len(D)], <<v, at + 1>>)
  PROVE  Gapless(E)
<1> DEFINE n == Len(D)
           m == to - at
<1>0. /\ at \in Nat /\ m \in Nat /\ n \in Nat \ {0} /\ Len(E) = n + m
      /\ \A k \in 1..n : E[k] = D[k]
      /\ \A k \in 1..m : E[n + k] = <<v, at + k>>
      /\ \A k \in 1 .. n - 1 : Follows(D[k], D[k + 1])
      /\ Follows(D[n], <<v, at + 1>>)
  <2>1. at \in Nat /\ to \in Nat /\ at < to /\ D \in Seq(Numbers \X Nat)
    BY DEF Grown
  <2>2. m \in Nat /\ n \in Nat \ {0}
    BY <2>1
  <2> QED BY <2>1, <2>2 DEF Grown, Gapless
<1> HIDE DEF n, m
<1> SUFFICES ASSUME NEW k \in 1 .. (n + m) - 1 PROVE Follows(E[k], E[k + 1])
  BY <1>0 DEF Gapless
<1>1. CASE k < n
  <2> k \in 1 .. n - 1 /\ k \in 1..n /\ k + 1 \in 1..n
    BY <1>0, <1>1
  <2> QED BY <1>0
<1>2. CASE k = n
  <2>1. 1 \in 1..m
    BY <1>0, <1>2
  <2>2. E[n + 1] = <<v, at + 1>> /\ E[n] = D[n]
    BY <1>0, <2>1
  <2> QED BY <1>0, <1>2, <2>2
<1>3. CASE k > n
  <2>0. PICK j \in Nat : 1 <= j /\ j < m /\ k = n + j
    <3> k - n \in Nat /\ 1 <= k - n /\ k - n < m /\ k = n + (k - n)
      BY <1>0, <1>3
    <3> QED OBVIOUS
  <2> j \in 1..m /\ j + 1 \in 1..m
    BY <1>0, <2>0
  <2>1. E[n + j] = <<v, at + j>> /\ E[n + (j + 1)] = <<v, at + (j + 1)>>
    BY <1>0
  <2>2. n + (j + 1) = k + 1 /\ at + (j + 1) = (at + j) + 1
    BY <1>0, <2>0
  <2> QED BY <2>0, <2>1, <2>2 DEF Follows
<1> QED BY <1>0, <1>1, <1>2, <1>3

\* A read takes up the stream where it stands.
LEMMA ReadSomeInd ==
  ASSUME IndInv, ReadSome PROVE IndInv'
<1>1. PICK v \in Numbers, at \in Nat, n \in Nat, to \in Nat :
         /\ v = current.vol /\ at = current.at /\ n = Len(delivered)
         /\ at < to /\ to <= Length[v]
         /\ delivered' = delivered \o Parts(v, at, to)
         /\ current' = [current EXCEPT !.at = to]
  <2>1. PICK to \in current.at + 1 .. Length[current.vol] :
           /\ delivered' = delivered \o Parts(current.vol, current.at, to)
           /\ current' = [current EXCEPT !.at = to]
    BY DEF ReadSome
  <2>2. current.vol \in Numbers /\ current.at \in Nat /\ Length[current.vol] \in Nat
    BY VolumesAssumption DEF ReadSome, IndInv, TypeOK
  <2>3. Len(delivered) \in Nat
    BY DEF IndInv, TypeOK
  <2>4. to \in Nat /\ current.at < to /\ to <= Length[current.vol]
    BY <2>2
  <2> QED BY <2>1, <2>2, <2>3, <2>4
<1>2. /\ current # Closed /\ idx \in 1..Len(files) /\ v = files[idx] /\ v = idx
      /\ Length[v] \in Nat
  BY <1>1, VolumesAssumption DEF ReadSome, IndInv, TypeOK, ListInv
<1>3. delivered \in Seq(Numbers \X Nat) /\ n \in Nat
  BY <1>1 DEF IndInv, TypeOK
<1>4. Grown(delivered, delivered', v, at, to)
  <2>1. Grown(delivered, delivered \o Parts(v, at, to), v, at, to)
    BY <1>1, <1>3, Added
  <2> QED BY <1>1, <2>1
<1>5. current' = [vol |-> v, at |-> to] /\ current' # Closed
  <2>1. current \in [vol : 0..Last, at : Nat] /\ v # 0
    BY VolumesAssumption DEF IndInv, TypeOK, Numbers
  <2>2. current' = [vol |-> v, at |-> to]
    BY <1>1, <2>1
  <2> QED BY <2>1, <2>2 DEF Closed
<1>6. AtVol = v /\ AtPart = at
  BY <1>1, <1>2 DEF AtVol, AtPart
<1>7. TypeOK'
  BY <1>1, <1>2, <1>4, <1>5 DEF IndInv, TypeOK, ReadSome, Return, Grown
<1>8. ListInv'
  BY DEF IndInv, ListInv, ReadSome, Return
<1>9. NothingIsSkipped'
  <2>1. CASE delivered = <<>>
    <3>1. at = 0 /\ Emptied(1, v - 1)
      BY <1>6, <2>1 DEF IndInv, StandsAfter
    <3>2. delivered'[1] = <<v, 1>>
      <4> 1 \in 1 .. to - at /\ Len(delivered) = 0
        BY <1>1, <2>1
      <4> QED BY <1>4, <3>1 DEF Grown
    <3>3. Gapless(delivered')
      <4>1. Len(delivered) = 0 /\ to - at \in Nat /\ Len(delivered') = to - at
            /\ \A k \in 1 .. to - at : delivered'[k] = <<v, at + k>>
        BY <1>1, <1>4, <2>1 DEF Grown
      <4> SUFFICES ASSUME NEW k \in Nat, 1 <= k, k < to - at
                   PROVE  Follows(delivered'[k], delivered'[k + 1])
        BY <4>1 DEF Gapless
      <4>2. k \in 1 .. to - at /\ k + 1 \in 1 .. to - at /\ at + (k + 1) = (at + k) + 1
        BY <4>1
      <4>3. delivered'[k] = <<v, at + k>> /\ delivered'[k + 1] = <<v, at + (k + 1)>>
        BY <4>1, <4>2
      <4> QED BY <4>2, <4>3 DEF Follows
    <3> QED BY <3>1, <3>2, <3>3 DEF NothingIsSkipped, Emptied, Gapless
  <2>2. CASE delivered # <<>>
    <3>1. n \in Nat \ {0} /\ delivered[n] \in Numbers \X Nat
      BY <1>1, <1>3, <2>2
    <3>2. delivered'[1] = delivered[1] /\ 1 \in 1..n /\ delivered' # <<>>
      BY <1>1, <1>4, <3>1 DEF Grown
    <3>3. Follows(delivered[n], <<v, at + 1>>)
      BY <1>1, <1>2, <1>6, <2>2, <3>1 DEF IndInv, StandsAfter, Follows, Emptied
    <3>4. Gapless(delivered)
      BY DEF IndInv, NothingIsSkipped, Gapless
    <3>5. Gapless(delivered')
      BY <1>1, <1>4, <2>2, <3>3, <3>4, Chained
    <3> QED BY <2>2, <3>2, <3>5 DEF IndInv, NothingIsSkipped, Gapless
  <2> QED BY <2>1, <2>2
<1>10. StandsAfter'
  <2>1. AtVol' = v /\ AtPart' = to
    BY <1>1, <1>5 DEF AtVol, AtPart
  <2>2. delivered' # <<>> /\ delivered'[Len(delivered')] = <<v, to>>
    <3>1. to - at \in 1 .. to - at
      BY <1>1, <1>2
    <3>2. delivered'[n + (to - at)] = <<v, at + (to - at)>>
      BY <1>1, <1>4, <3>1 DEF Grown
    <3>3. n + (to - at) = Len(delivered') /\ at + (to - at) = to /\ Len(delivered') # 0
      BY <1>1, <1>4 DEF Grown
    <3> QED BY <3>2, <3>3
  <2> QED BY <1>1, <1>2, <2>1, <2>2 DEF StandsAfter
<1> QED BY <1>7, <1>8, <1>9, <1>10 DEF IndInv

\* Every step keeps the invariant; an empty slice would not (DropVolume).
LEMMA NextInd ==
  ASSUME 0 \notin OutSizes
  PROVE  IndInv /\ [Next]_vars => IndInv'
<1> SUFFICES ASSUME IndInv, [Next]_vars PROVE IndInv'
  OBVIOUS
<1> USE VolumesAssumption
<1>1. CASE Move
  <2>1. present' \subseteq Numbers /\ moved' \in 0..Moves
    BY <1>1 DEF Move, IndInv, TypeOK
  <2> QED BY <1>1, <2>1 DEF Move, IndInv, TypeOK, ListInv, NothingIsSkipped, StandsAfter,
                            AtVol, AtPart, reader
<1>2. CASE \E n \in OutSizes : Read(n)
  BY <1>2 DEF Read, IndInv, TypeOK, ListInv, NothingIsSkipped, StandsAfter, AtVol, AtPart
<1>3. CASE FindVolume
  <2>1. files' \in Seq(Numbers) /\ Len(files') = Len(files) + 1 /\ idx = 0
        /\ \A i \in 1..Len(files') : files'[i] = i
    BY <1>3 DEF FindVolume, Candidate, IndInv, TypeOK, ListInv
  <2>2. current = Closed
    BY <2>1 DEF IndInv, TypeOK
  <2> QED BY <1>3, <2>1, <2>2
      DEF FindVolume, IndInv, TypeOK, ListInv, NothingIsSkipped, StandsAfter, AtVol, AtPart,
          reader
<1>4. CASE EndList
  BY <1>4 DEF EndList, IndInv, TypeOK, ListInv, NothingIsSkipped, StandsAfter, AtVol, AtPart,
              reader
<1>5. CASE ReadEnd
  BY <1>5 DEF ReadEnd, Return, IndInv, TypeOK, ListInv, NothingIsSkipped, StandsAfter, AtVol,
              AtPart
<1>6. CASE OpenNext
  <2>1. /\ current = Closed /\ idx' = idx + 1 /\ idx + 1 \in 1..Len(files)
        /\ current' = [vol |-> idx + 1, at |-> 0] /\ current' # Closed
        /\ files[idx + 1] = idx + 1 /\ Length[idx + 1] \in Nat
    <3>1. current = Closed /\ idx' = idx + 1 /\ idx + 1 \in 1..Len(files)
          /\ current' = [vol |-> files[idx + 1], at |-> 0]
      BY <1>6 DEF OpenNext, IndInv, TypeOK
    <3>2. files[idx + 1] = idx + 1 /\ files[idx + 1] \in Numbers
      BY <3>1 DEF IndInv, TypeOK, ListInv
    <3> QED BY <3>1, <3>2 DEF Closed, Numbers
  <2>2. AtVol' = AtVol /\ AtPart' = AtPart
    BY <2>1 DEF AtVol, AtPart
  <2>3. TypeOK'
    <3>1. files' = files /\ idx' \in 0..Len(files') /\ idx' > 0 /\ idx + 1 \in Numbers
      BY <1>6, <2>1 DEF OpenNext, IndInv, TypeOK
    <3>2. current' \in [vol : 0..Last, at : Nat]
      BY <2>1, <3>1 DEF Numbers
    <3>3. current'.vol = files'[idx'] /\ current'.at <= Length[current'.vol]
      BY <2>1, <3>1
    <3> QED BY <1>6, <3>1, <3>2, <3>3 DEF OpenNext, IndInv, TypeOK
  <2> QED BY <1>6, <2>2, <2>3 DEF OpenNext, IndInv, ListInv, NothingIsSkipped, StandsAfter
<1>7. CASE OpenFails \/ ReadFails
  BY <1>7 DEF OpenFails, ReadFails, Return, IndInv, TypeOK, ListInv, NothingIsSkipped, StandsAfter,
              AtVol, AtPart
<1>8. CASE ReadSome
  BY <1>8, ReadSomeInd
<1>9. CASE DropVolume
  <2>1. /\ current # Closed /\ idx \in 1..Len(files) /\ current.vol = idx
        /\ current.at = Length[idx] /\ current' = Closed /\ idx' = idx
        /\ Length[idx] \in Nat
    BY <1>9 DEF DropVolume, IndInv, TypeOK, ListInv, Numbers
  <2>2. AtVol = idx /\ AtPart = Length[idx] /\ AtVol' = idx + 1 /\ AtPart' = 0
    BY <2>1 DEF AtVol, AtPart
  <2>3. StandsAfter'
    <3>1. CASE delivered = <<>>
      BY <1>9, <2>1, <2>2, <3>1 DEF DropVolume, IndInv, StandsAfter, Emptied
    <3>2. CASE delivered # <<>>
      <4> DEFINE q == delivered[Len(delivered)]
      <4>1. q \in Numbers \X Nat
        BY <3>2 DEF IndInv, TypeOK
      <4>2. CASE AtPart > 0 /\ q = <<AtVol, AtPart>>
        BY <1>9, <2>1, <2>2, <3>2, <4>2 DEF DropVolume, StandsAfter, Emptied
      <4>3. CASE AtPart = 0 /\ q[1] < AtVol /\ q[2] = Length[q[1]]
                 /\ Emptied(q[1] + 1, AtVol - 1)
        <5>1. Emptied(q[1] + 1, (idx + 1) - 1)
          <6>1. Length[idx] = 0 /\ Emptied(q[1] + 1, idx - 1) /\ q[1] \in Nat /\ idx \in Nat
            BY <2>1, <2>2, <4>1, <4>3 DEF Numbers
          <6> HIDE DEF q
          <6> QED BY <6>1 DEF Emptied
        <5>2. q[1] < idx + 1
          BY <2>1, <2>2, <4>1, <4>3 DEF Numbers
        <5>3. delivered' = delivered
          BY <1>9 DEF DropVolume
        <5> QED BY <2>2, <3>2, <4>3, <5>1, <5>2, <5>3 DEF StandsAfter
      <4> QED BY <3>2, <4>2, <4>3 DEF IndInv, StandsAfter
    <3> QED BY <3>1, <3>2
  <2>4. TypeOK'
    <3>1. Closed \in [vol : 0..Last, at : Nat]
      BY DEF Closed
    <3> QED BY <1>9, <2>1, <3>1 DEF DropVolume, IndInv, TypeOK
  <2> QED BY <1>9, <2>3, <2>4 DEF DropVolume, IndInv, ListInv, NothingIsSkipped
<1>10. CASE UNCHANGED vars
  BY <1>10 DEF vars, reader, IndInv, TypeOK, ListInv, NothingIsSkipped, StandsAfter, AtVol,
               AtPart
<1> QED BY <1>1, <1>2, <1>3, <1>4, <1>5, <1>6, <1>7, <1>8, <1>9, <1>10 DEF Next, Step

\* The variables keep their types and the reader stays among the volumes listed,
\* as long as no caller reads into an empty slice (ConcatReader).
THEOREM TypeCorrect ==
  ASSUME 0 \notin OutSizes
  PROVE  Spec => []TypeOK
<1>1. IndInv => TypeOK
  BY DEF IndInv
<1>2. IndInv /\ [Next]_vars => IndInv'
  BY NextInd
<1> QED BY <1>1, <1>2, InitInd, PTL DEF Spec

\* What is read is read in order and without a gap, however many volumes there
\* are and whichever come and go, as long as no caller reads into an empty
\* slice (ConcatReader::read).
THEOREM NoGap ==
  ASSUME 0 \notin OutSizes
  PROVE  Spec => []NothingIsSkipped
<1>1. IndInv => NothingIsSkipped
  BY DEF IndInv
<1>2. IndInv /\ [Next]_vars => IndInv'
  BY NextInd
<1> QED BY <1>1, <1>2, InitInd, PTL DEF Spec
----------------------------------------------------------------------------
\* The last part of volume i has been delivered.
Given(i) == \E k \in 1..Len(delivered) : delivered[k] = <<i, Length[i]>>

\* What the reader has passed was given to its end, an end of file is answered
\* behind the last volume only, and an untouched directory is as it was listed.
EndInv ==
  /\ \A i \in 1..Len(files) : i < AtVol /\ Length[i] > 0 => Given(i)
  /\ said = "eof" => current = Closed /\ idx = Len(files) /\ phase # "listing"
  /\ moved = 0 => \A i \in 1..Len(files) : i \in present
  /\ moved = 0 /\ phase # "listing" => Len(files) + 1 \notin present

LEMMA InitEnd == Init => EndInv
  BY DEF Init, EndInv

\* A read only adds to what was delivered.
LEMMA GivenStays ==
  ASSUME IndInv, ReadSome, NEW i, Given(i) PROVE Given(i)'
<1>1. PICK to \in current.at + 1 .. Length[current.vol] :
        delivered' = delivered \o Parts(current.vol, current.at, to)
  BY DEF ReadSome
<1>2. current.vol \in Numbers /\ current.at \in Nat /\ Length[current.vol] \in Nat
  BY VolumesAssumption DEF ReadSome, IndInv, TypeOK
<1>3. delivered \in Seq(Numbers \X Nat)
  BY DEF IndInv, TypeOK
<1>4. Grown(delivered, delivered', current.vol, current.at, to)
  <2>1. to \in Nat /\ current.at < to
    BY <1>2
  <2>2. Grown(delivered, delivered \o Parts(current.vol, current.at, to),
              current.vol, current.at, to)
    BY <1>2, <1>3, <2>1, Added
  <2> QED BY <1>1, <2>2
<1>5. PICK k \in 1..Len(delivered) : delivered[k] = <<i, Length[i]>>
  BY DEF Given
<1>6. k \in 1..Len(delivered') /\ delivered'[k] = delivered[k]
  <2>1. Len(delivered) \in Nat /\ to - current.at \in Nat
    BY <1>2, <1>3
  <2>2. Len(delivered') = Len(delivered) + (to - current.at)
        /\ delivered'[k] = delivered[k]
    BY <1>4, <1>5 DEF Grown
  <2>3. k \in Nat /\ 1 <= k /\ k <= Len(delivered)
    BY <1>5, <2>1
  <2> QED BY <2>1, <2>2, <2>3
<1> QED BY <1>5, <1>6 DEF Given

LEMMA NextEnd ==
  ASSUME 0 \notin OutSizes
  PROVE  IndInv /\ EndInv /\ [Next]_vars => EndInv'
<1> SUFFICES ASSUME IndInv, EndInv, [Next]_vars PROVE EndInv'
  OBVIOUS
<1> USE VolumesAssumption
<1>1. CASE Move
  <2>1. moved' # 0
    BY <1>1 DEF Move, IndInv, TypeOK
  <2> QED BY <1>1, <2>1 DEF Move, reader, EndInv, AtVol, Given
<1>2. CASE \E n \in OutSizes : Read(n)
  BY <1>2 DEF Read, EndInv, AtVol, Given
<1>3. CASE FindVolume
  <2>1. /\ Len(files') = Len(files) + 1 /\ Len(files) \in Nat /\ idx = 0 /\ current = Closed
        /\ Len(files) + 1 \in present /\ phase = "listing" /\ idx' = 0 /\ current' = Closed
    BY <1>3 DEF FindVolume, Candidate, reader, IndInv, TypeOK, ListInv
  <2>2. \A i \in 1..Len(files') : ~(i < AtVol')
    BY <2>1 DEF AtVol
  <2>3. moved' = 0 => \A i \in 1..Len(files') : i \in present'
    BY <1>3, <2>1 DEF FindVolume, EndInv
  <2> QED BY <1>3, <2>1, <2>2, <2>3 DEF FindVolume, reader, EndInv
<1>4. CASE EndList
  BY <1>4 DEF EndList, Candidate, reader, EndInv, AtVol, Given
<1>5. CASE ReadEnd
  BY <1>5 DEF ReadEnd, Return, IndInv, ListInv, EndInv, AtVol, Given
<1>6. CASE OpenNext
  <2>1. /\ current = Closed /\ idx < Len(files) /\ idx \in Nat /\ Len(files) \in Nat
        /\ files[idx + 1] = idx + 1 /\ current' = [vol |-> files[idx + 1], at |-> 0]
    BY <1>6 DEF OpenNext, IndInv, TypeOK, ListInv
  <2>2. AtVol' = AtVol /\ said # "eof"
    BY <1>6, <2>1 DEF OpenNext, AtVol, Closed, EndInv
  <2> QED BY <1>6, <2>2 DEF OpenNext, EndInv, Given
<1>7. CASE OpenFails \/ ReadFails
  BY <1>7 DEF OpenFails, ReadFails, Return, EndInv, AtVol, Given
<1>8. CASE ReadSome
  <2>1. AtVol' = AtVol
    BY <1>8 DEF ReadSome, AtVol, Closed, IndInv, TypeOK
  <2>2. \A i : Given(i) => Given(i)'
    BY <1>8, GivenStays
  <2>3. UNCHANGED <<files, moved, phase, present>> /\ said' # "eof"
    BY <1>8 DEF ReadSome, Return
  <2>4. \A i \in 1..Len(files') : i < AtVol' /\ Length[i] > 0 => Given(i)'
    BY <2>1, <2>2, <2>3 DEF EndInv
  <2> QED BY <2>3, <2>4 DEF EndInv
<1>9. CASE DropVolume
  <2>1. /\ current # Closed /\ idx \in 1..Len(files) /\ current.vol = idx
        /\ current.at = Length[idx] /\ current' = Closed /\ idx' = idx
        /\ Length[idx] \in Nat
    BY <1>9 DEF DropVolume, IndInv, TypeOK, ListInv, Numbers
  <2>2. AtVol = idx /\ AtPart = Length[idx] /\ AtVol' = idx + 1
    BY <2>1 DEF AtVol, AtPart
  <2>3. Length[idx] > 0 => Given(idx)
    <3>1. Length[idx] > 0 => delivered # <<>> /\ delivered[Len(delivered)] = <<idx, Length[idx]>>
      BY <2>1, <2>2 DEF IndInv, StandsAfter
    <3>2. delivered # <<>> => Len(delivered) \in 1..Len(delivered)
      BY DEF IndInv, TypeOK
    <3> QED BY <3>1, <3>2 DEF Given
  <2>4. \A i \in 1..Len(files) : i < idx + 1 => i < idx \/ i = idx
    BY <2>1
  <2>5. UNCHANGED <<files, moved, phase, present, said, delivered>>
    BY <1>9 DEF DropVolume
  <2>6. \A i \in 1..Len(files) : i < AtVol' /\ Length[i] > 0 => Given(i)
    BY <2>2, <2>3, <2>4 DEF EndInv
  <2>7. said # "eof"
    BY <2>1 DEF EndInv
  <2> QED BY <2>5, <2>6, <2>7 DEF EndInv, Given
<1>10. CASE UNCHANGED vars
  BY <1>10 DEF vars, reader, EndInv, AtVol, Given
<1> QED BY <1>1, <1>2, <1>3, <1>4, <1>5, <1>6, <1>7, <1>8, <1>9, <1>10 DEF Next, Step

LEMMA EndSound == IndInv /\ EndInv => EndIsTheEnd
<1> SUFFICES ASSUME IndInv, EndInv, said = "eof" PROVE EndIsTheEnd
  BY DEF EndIsTheEnd
<1>1. AtVol = Len(files) + 1 /\ Len(files) \in Nat
  BY DEF EndInv, AtVol, IndInv, TypeOK
<1>2. \A i \in 1..Len(files) : files[i] = i
  BY DEF IndInv, ListInv
<1>3. \A i \in 1..Len(files) : Length[i] > 0 => Given(i)
  BY <1>1 DEF EndInv
<1>4. Complete
  BY <1>2, <1>3 DEF Complete, Given
<1> QED BY <1>2, <1>4 DEF EndIsTheEnd, EndInv

\* An end of file is answered only behind the last byte of the last volume that
\* was listed, and in a directory nobody touched the list is complete, however
\* many volumes there are, as long as no caller reads into an empty slice
\* (volume_members, ConcatReader::read).
THEOREM EndMeansAll ==
  ASSUME 0 \notin OutSizes
  PROVE  Spec => []EndIsTheEnd
<1>1. IndInv /\ [Next]_vars => IndInv'
  BY NextInd
<1>2. IndInv /\ EndInv /\ [Next]_vars => EndInv'
  BY NextEnd
<1> QED BY <1>1, <1>2, InitInd, InitEnd, EndSound, PTL DEF Spec
===========================================================================
