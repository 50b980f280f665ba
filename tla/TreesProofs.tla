---------------------------- MODULE TreesProofs ----------------------------
(***************************************************************************)
(* Proofs about the readers of Trees, side by side.  Xar, Iso and Wim are in *)
(* TreeReadersProofs; here are the two file systems, each with an invariant *)
(* of the same kind, and the disk image, which is first a raw image half   *)
(* written and then a list of places with one volume among them.  Whatever *)
(* has been opened is in one of these, and that implies every property.    *)
(***************************************************************************)
EXTENDS TreeReadersProofs

\* An entry and the member that it stands for.
ApfsStands(x, m) ==
  /\ x.path = m.path /\ x.kind = m.kind /\ x.id = m.is
  /\ m.kind = "file" => x.size = Len(m.content)
  /\ m.kind = "link" => x.target = m.target

ApfsListed(f, l) ==
  Len(l) <= Len(f.members) /\ \A i \in DOMAIN l : ApfsStands(l[i], f.members[i])

\* The walk of a tree, after n members.
ApfsFrames(f, w, node, nth) ==
  LET v == ApfsV(f)
      t == ApfsT(f)
  IN /\ Len(w) = Len(node)
     /\ \A j \in 1 .. Len(node) :
          /\ IsDir(t, node[j]) /\ Len(PathOf(t, node[j])) = j - 1
          /\ w[j].dir = ApfsDir(v, t, node[j]) /\ w[j].prefix = PathOf(t, node[j])
          /\ nth[j] = IF w[j].next = 0 THEN 1 ELSE w[j].next

ApfsAt(f, w, n) == \E node, nth : On(ApfsT(f), node, nth, n) /\ ApfsFrames(f, w, node, nth)

\* Somewhere in the walk is a directory on the way to the fault, not yet past it.
ApfsLost(v, w) ==
  \E j \in DOMAIN v.fault :
    j <= Len(w) /\ w[j].dir = v.fault[j].dir /\ w[j].next <= v.fault[j].nth

ApfsWhole(f) == ApfsBears(f) /\ ApfsTree(ApfsV(f), ApfsT(f))

ApfsErrors == {"Corrupt", "UnknownFormat", "Unsupported"}

ApfsGood ==
  /\ status = "walking" => ApfsListed(file, listing) /\ ApfsAt(file, walk, Len(listing))
  /\ status = "open" => ApfsListed(file, listing) /\ Len(listing) = Len(file.members)
  /\ status \in ApfsErrors => ~ApfsOpens(file)

ApfsBad ==
  status # "open" /\ (status = "walking" => ApfsLost(ApfsV(file), walk))

ApfsGiven ==
  \A i \in DOMAIN answers :
    answers[i].said = "ok" /\ listing[i].kind = "file" =>
      answers[i].given = file.members[i].content

ApfsInv ==
  /\ IndInv
  /\ status \in {"walking", "open"} => file.path /\ ApfsBears(file) /\ ApfsV(file).mounts
  /\ status # "open" => answers = <<>>
  /\ status \in ApfsErrors => listing = <<>>
  /\ ApfsWhole(file) => ApfsGood
  /\ ApfsFault(ApfsV(file)) => ApfsBad
  /\ ApfsHolds(file) => ApfsGiven

----------------------------------------------------------------------------
LEMMA ApfsCut ==
  ASSUME NEW f, ApfsWhole(f)
  PROVE  /\ Cut(ApfsT(f)) /\ Len(f.members) \in Nat /\ ApfsT(f).members = f.members
         /\ IsSeq(f.members)
         /\ \A k \in Nodes(ApfsT(f)) : ~IsDir(ApfsT(f), k) => Len(Cuts(ApfsT(f), k)) = 1
<1>1. Counted(ApfsT(f)) /\ \A k \in Nodes(ApfsT(f)) : ApfsNode(ApfsV(f), ApfsT(f), k)
  BY DEF ApfsWhole, ApfsTree
<1>2. ASSUME NEW k \in Nodes(ApfsT(f))
      PROVE  /\ Cuts(ApfsT(f), k) \in Seq(Nat) /\ Cuts(ApfsT(f), k) # <<>>
             /\ Cuts(ApfsT(f), k)[1] = k
             /\ ~IsDir(ApfsT(f), k) => Len(Cuts(ApfsT(f), k)) = 1
  <2>1. PICK n \in Nat : Divided(ApfsT(f), k, n) /\ (~IsDir(ApfsT(f), k) => n = 0)
    BY <1>1 DEF ApfsNode, Divided
  <2>2. /\ Cuts(ApfsT(f), k) \in Seq(Nat) /\ Cuts(ApfsT(f), k)[1] = k
        /\ Len(Cuts(ApfsT(f), k)) = n + 1
    BY <2>1 DEF Divided
  <2>3. Cuts(ApfsT(f), k) # <<>>
    BY <2>2
  <2> QED BY <2>1, <2>2, <2>3
<1>3. Len(f.members) \in Nat /\ ApfsT(f).members = f.members /\ IsSeq(f.members)
  BY <1>1 DEF Counted, IsSeq, ApfsT, Tree
<1> QED BY <1>1, <1>2, <1>3 DEF Cut

\* The volume that is being walked is the one the image bears.
LEMMA ApfsSigned == (Signed <=> ApfsBears(file)) /\ Volume = ApfsV(file)
BY DEF Signed, ApfsBears, Bears, Mark, Volume, ApfsV, VolumeAt

LEMMA ApfsRefuses ==
  ASSUME ApfsInv, IndInv', NEW error \in ApfsErrors, Refuse(error), status # "open",
         ApfsWhole(file) => ~ApfsOpens(file)
  PROVE  ApfsInv'
<1>1. /\ status' = error /\ listing' = <<>> /\ file' = file /\ answers' = answers /\ answers = <<>>
      /\ error # "open" /\ error # "walking"
  BY DEF Refuse, ApfsErrors, ApfsInv
<1>2. (ApfsWhole(file) => ApfsGood)'
  BY <1>1 DEF ApfsGood
<1>3. (ApfsFault(ApfsV(file)) => ApfsBad)'
  BY <1>1 DEF ApfsBad
<1>4. (ApfsHolds(file) => ApfsGiven)'
  BY <1>1 DEF ApfsGiven
<1> QED BY <1>1, <1>2, <1>3, <1>4 DEF ApfsInv

LEMMA ApfsMounts == ASSUME ApfsInv, IndInv', Mount PROVE ApfsInv'
<1> DEFINE w == <<[dir |-> Volume.root, prefix |-> <<>>, next |-> 0]>>
<1>1. /\ status = "new" /\ file.path /\ Signed /\ Volume.mounts /\ walk' = w
      /\ status' = "walking" /\ file' = file /\ listing' = listing /\ answers' = answers
  BY DEF Mount
<1>2. listing = <<>> /\ answers = <<>> /\ ApfsBears(file) /\ ApfsV(file).mounts
      /\ Volume = ApfsV(file)
  BY <1>1, ApfsSigned DEF ApfsInv, IndInv
<1>3. Len(w) = 1 /\ w[1].dir = ApfsV(file).root /\ w[1].prefix = <<>> /\ w[1].next = 0
  BY <1>2
<1> HIDE DEF w
<1>4. ASSUME ApfsWhole(file) PROVE ApfsListed(file, listing) /\ ApfsAt(file, w, 0)
  <2> DEFINE t == ApfsT(file)
  <2>1. Cut(t) /\ Len(file.members) \in Nat
    BY <1>4, ApfsCut
  <2>2. On(t, <<0>>, <<1>>, 0)
    BY <2>1, AtRoot
  <2>3. ApfsFrames(file, w, <<0>>, <<1>>)
    BY <1>3 DEF ApfsFrames, IsDir, PathOf, ApfsDir
  <2>4. ApfsAt(file, w, 0)
    BY <2>2, <2>3 DEF ApfsAt
  <2> QED BY <1>2, <2>1, <2>4 DEF ApfsListed
<1>5. ASSUME ApfsFault(ApfsV(file)) PROVE ApfsLost(ApfsV(file), w)
  <2> DEFINE u == ApfsV(file).fault
  <2>1. u \in Seq(Way) /\ u # <<>> /\ u[1].dir = ApfsV(file).root /\ \A j \in DOMAIN u : u[j].nth > 0
    BY <1>5 DEF ApfsFault
  <2>2. 1 \in 1 .. Len(u) /\ DOMAIN u = 1 .. Len(u)
    BY <2>1
  <2>3. u[1] \in Way
    BY <2>1, <2>2, Element
  <2>4. u[1].nth \in Nat
    BY <2>3 DEF Way
  <2> QED BY <1>3, <2>1, <2>2, <2>4 DEF ApfsLost
<1>6. Len(listing) = 0
  BY <1>2
<1>7. (ApfsWhole(file) => ApfsGood)'
  BY <1>1, <1>4, <1>6 DEF ApfsGood, ApfsErrors
<1>8. (ApfsFault(ApfsV(file)) => ApfsBad)'
  BY <1>1, <1>5 DEF ApfsBad
<1>9. (ApfsHolds(file) => ApfsGiven)'
  BY <1>1, <1>2 DEF ApfsGiven
<1> QED BY <1>1, <1>2, <1>7, <1>8, <1>9 DEF ApfsInv, ApfsErrors

----------------------------------------------------------------------------
\* What is known of the directory at hand, if the image is whole.
ApfsHand(node, nth) ==
  LET t == ApfsT(file)
      k == node[Len(node)]
  IN /\ On(t, node, nth, Len(listing)) /\ ApfsFrames(file, walk, node, nth)
     /\ node \in Seq(Nat) /\ nth \in Seq(Nat) /\ node # <<>> /\ Len(nth) = Len(node)
     /\ Len(walk) = Len(node) /\ Len(walk) \in Nat \ {0}
     /\ k \in Nodes(t) /\ IsDir(t, k)
     /\ Top.prefix = PathOf(t, k) /\ Top.prefix \in Seq(STRING)
     /\ nth[Len(node)] = (IF Top.next = 0 THEN 1 ELSE Top.next)
     /\ Listable /\ Depth <= MaxDepth /\ Len(Top.prefix) = Len(walk) - 1
     /\ Len(Cuts(t, k)) = Len(Children) + 1
     /\ \A i \in DOMAIN Children :
          /\ Listed(t, k, i, Children[i].name)
          /\ ApfsIs(file.members[Child(t, k, i)], ApfsV(file), Children[i].id)

LEMMA ApfsAtHand ==
  ASSUME IndInv, Walking, ApfsWhole(file), ApfsAt(file, walk, Len(listing))
  PROVE  \E node, nth : ApfsHand(node, nth)
<1> DEFINE t == ApfsT(file)
           n == Len(listing)
           v == ApfsV(file)
<1>1. PICK node, nth : On(t, node, nth, n) /\ ApfsFrames(file, walk, node, nth)
  BY DEF ApfsAt
<1>2. /\ walk \in Seq(Frame) /\ Len(walk) \in Nat \ {0} /\ Top = walk[Len(walk)] /\ Top \in Frame
  BY TopType
<1>3. node \in Seq(Nat) /\ nth \in Seq(Nat) /\ Len(nth) = Len(node) /\ Len(walk) = Len(node)
  BY <1>1 DEF On, ApfsFrames
<1> DEFINE L == Len(node)
           k == node[L]
<1>4. L \in 1..L /\ L \in Nat \ {0} /\ node # <<>>
  BY <1>2, <1>3
<1>5. k \in Nodes(t)
  BY <1>1, <1>4 DEF On
<1>6. /\ IsDir(t, k) /\ Len(PathOf(t, k)) = L - 1 /\ Top.dir = ApfsDir(v, t, k)
      /\ Top.prefix = PathOf(t, k) /\ nth[L] = IF Top.next = 0 THEN 1 ELSE Top.next
  BY <1>1, <1>2, <1>3, <1>4 DEF ApfsFrames
<1>7. ApfsNode(v, t, k) /\ Volume = v
  BY <1>5, ApfsSigned DEF ApfsWhole, ApfsTree
<1>8. /\ Top.dir \in DOMAIN v.dirs /\ Len(PathOf(t, k)) <= MaxDepth
      /\ Divided(t, k, Len(v.dirs[Top.dir]))
      /\ \A i \in DOMAIN v.dirs[Top.dir] :
            /\ Listed(t, k, i, v.dirs[Top.dir][i].name)
            /\ ApfsIs(t.members[Child(t, k, i)], v, v.dirs[Top.dir][i].id)
  BY <1>6, <1>7 DEF ApfsNode
<1>9. Children = v.dirs[Top.dir] /\ t.members = file.members
  BY <1>7 DEF Children, ApfsT, Tree
<1>10. Len(Cuts(t, k)) = Len(Children) + 1
  BY <1>8, <1>9 DEF Divided
<1>11. Listable /\ Depth <= MaxDepth
  BY <1>2, <1>3, <1>6, <1>7, <1>8 DEF Listable, Depth
<1>12. Top.prefix \in Seq(STRING)
  BY <1>2 DEF Frame
<1>13. Len(Top.prefix) = Len(walk) - 1
  BY <1>3, <1>6
<1>14. ApfsHand(node, nth)
  BY <1>1, <1>2, <1>3, <1>4, <1>5, <1>6, <1>8, <1>9, <1>10, <1>11, <1>12, <1>13 DEF ApfsHand
<1> QED BY <1>14

LEMMA ApfsTooDeep == ASSUME ApfsInv, IndInv', TooDeep \/ CannotList PROVE ApfsInv'
<1>1. Walking /\ Refuse("Corrupt") /\ (Depth > MaxDepth \/ ~Listable) /\ status = "walking"
  BY DEF TooDeep, CannotList, Entering, Walking
<1>2. ASSUME ApfsWhole(file) PROVE FALSE
  <2>1. ApfsAt(file, walk, Len(listing)) /\ IndInv
    BY <1>1, <1>2 DEF ApfsInv, ApfsGood
  <2>2. Listable /\ Depth <= MaxDepth
    BY <1>1, <1>2, <2>1, ApfsAtHand DEF ApfsHand
  <2>3. Depth \in Int
    BY <1>1, <2>1, TopType DEF Depth
  <2> QED BY <1>1, <2>2, <2>3, ApfsAssumption
<1> QED BY <1>1, <1>2, ApfsRefuses DEF ApfsErrors

LEMMA AdvancedNext ==
  ASSUME IndInv, Walking
  PROVE  /\ DOMAIN Advanced = DOMAIN walk /\ Advanced[Len(walk)].next = Top.next + 1
         /\ Top.next \in Nat /\ Len(walk) \in Nat \ {0} /\ DOMAIN walk = 1 .. Len(walk)
<1>1. walk \in Seq(Frame) /\ Len(walk) \in Nat \ {0} /\ Top = walk[Len(walk)] /\ Top \in Frame
  BY TopType
<1> DEFINE after == [Top EXCEPT !.next = @ + 1]
<1>2. Advanced = [walk EXCEPT ![Len(walk)] = after]
  BY <1>1 DEF Advanced
<1>3. after.next = Top.next + 1 /\ Top.next \in Nat
  BY <1>1 DEF Frame
<1> HIDE DEF after
<1> QED BY <1>1, <1>2, <1>3

\* The directory at hand, and how far into it the walk is.
LEMMA ApfsAdvances ==
  ASSUME IndInv, Walking, NEW node, NEW nth, ApfsFrames(file, walk, node, nth),
         node \in Seq(Nat), nth \in Seq(Nat), Len(nth) = Len(node)
  PROVE  /\ Top.next = 0 => ApfsFrames(file, Advanced, node, nth)
         /\ Top.next # 0 =>
              ApfsFrames(file, Advanced, node, [nth EXCEPT ![Len(nth)] = nth[Len(nth)] + 1])
<1> DEFINE L == Len(node)
           after == [nth EXCEPT ![Len(nth)] = nth[Len(nth)] + 1]
<1>1. /\ DOMAIN Advanced = DOMAIN walk /\ Advanced[Len(walk)].next = Top.next + 1
      /\ Top.next \in Nat /\ Len(walk) \in Nat \ {0} /\ DOMAIN walk = 1 .. Len(walk)
  BY AdvancedNext
<1>2. /\ Len(Advanced) = Len(walk) /\ Top = walk[Len(walk)]
      /\ \A k \in DOMAIN walk : /\ Advanced[k].prefix = walk[k].prefix
                                /\ Advanced[k].dir = walk[k].dir
                                /\ k # Len(walk) => Advanced[k] = walk[k]
  BY AdvancedType, TopType
<1>3. L = Len(walk) /\ nth[L] = (IF Top.next = 0 THEN 1 ELSE Top.next) /\ L \in 1..L
  BY <1>1, <1>2 DEF ApfsFrames
<1>4. after[L] = nth[L] + 1 /\ \A j \in 1..L : j # L => after[j] = nth[j]
  BY <1>3
<1> HIDE DEF after
<1>5. ASSUME NEW j \in 1..L
      PROVE  /\ IsDir(ApfsT(file), node[j]) /\ Len(PathOf(ApfsT(file), node[j])) = j - 1
             /\ Advanced[j].dir = ApfsDir(ApfsV(file), ApfsT(file), node[j])
             /\ Advanced[j].prefix = PathOf(ApfsT(file), node[j])
             /\ Top.next = 0 => nth[j] = IF Advanced[j].next = 0 THEN 1 ELSE Advanced[j].next
             /\ Top.next # 0 => after[j] = IF Advanced[j].next = 0 THEN 1 ELSE Advanced[j].next
  <2>1. /\ IsDir(ApfsT(file), node[j]) /\ Len(PathOf(ApfsT(file), node[j])) = j - 1
        /\ walk[j].dir = ApfsDir(ApfsV(file), ApfsT(file), node[j])
        /\ walk[j].prefix = PathOf(ApfsT(file), node[j])
        /\ nth[j] = IF walk[j].next = 0 THEN 1 ELSE walk[j].next
    BY DEF ApfsFrames
  <2>2. Advanced[j].dir = walk[j].dir /\ Advanced[j].prefix = walk[j].prefix
    BY <1>1, <1>2, <1>3
  <2>3. CASE j = L
    BY <1>1, <1>2, <1>3, <1>4, <2>1, <2>2, <2>3
  <2>4. CASE j # L
    BY <1>1, <1>2, <1>3, <1>4, <2>1, <2>2, <2>4
  <2> QED BY <2>3, <2>4
<1>6. Len(Advanced) = L
  BY <1>2, <1>3
<1>7. Top.next = 0 => ApfsFrames(file, Advanced, node, nth)
  BY <1>5, <1>6 DEF ApfsFrames
<1>8. Top.next # 0 => ApfsFrames(file, Advanced, node, after)
  BY <1>5, <1>6 DEF ApfsFrames
<1> QED BY <1>7, <1>8 DEF after

\* What stays as it is when the walk goes on.
LEMMA ApfsGoesOn ==
  ASSUME ApfsInv, IndInv', status = "walking", status' = status, file' = file, answers' = answers,
         ApfsWhole(file) => ApfsListed(file, listing') /\ ApfsAt(file, walk', Len(listing')),
         ApfsFault(ApfsV(file)) => ApfsLost(ApfsV(file), walk')
  PROVE  ApfsInv'
<1>1. (ApfsWhole(file) => ApfsGood)'
  BY DEF ApfsGood, ApfsErrors
<1>2. (ApfsFault(ApfsV(file)) => ApfsBad)'
  BY DEF ApfsBad
<1>3. answers = <<>>
  BY DEF ApfsInv
<1>4. (ApfsHolds(file) => ApfsGiven)'
  BY <1>3 DEF ApfsGiven
<1> QED BY <1>1, <1>2, <1>3, <1>4 DEF ApfsInv, ApfsErrors

\* On the way to the fault.
LEMMA ApfsOnTheWay ==
  ASSUME NEW v, ApfsFault(v), NEW j \in DOMAIN v.fault
  PROVE  /\ v.fault[j].dir \in Nat /\ v.fault[j].nth \in Nat \ {0}
         /\ DOMAIN v.fault = 1 .. Len(v.fault) /\ Len(v.fault) \in Nat
         /\ j # Len(v.fault) =>
              j + 1 \in DOMAIN v.fault /\ LeadsOn(v, v.fault[j], v.fault[j + 1].dir)
<1> DEFINE u == v.fault
<1>1. u \in Seq(Way) /\ \A k \in DOMAIN u : u[k].nth > 0
  BY DEF ApfsFault
<1>2. j \in 1 .. Len(u) /\ Len(u) \in Nat
  BY <1>1
<1>3. u[j] \in Way
  BY <1>1, <1>2, Element
<1>4. j # Len(u) => j + 1 \in 1 .. Len(u) /\ j \in 1 .. Len(u) - 1
  BY <1>2
<1>5. DOMAIN u = 1 .. Len(u)
  BY <1>1
<1> HIDE DEF u
<1>5a. j \in DOMAIN u
  BY <1>2, <1>5
<1>6. u[j].dir \in Nat /\ u[j].nth \in Nat
  BY <1>3 DEF Way
<1>7. u[j].nth # 0
  BY <1>1, <1>5a, <1>6
<1> QED BY <1>2, <1>4, <1>5, <1>6, <1>7 DEF ApfsFault, u

LEMMA ApfsEnters == ASSUME ApfsInv, IndInv', Enter PROVE ApfsInv'
<1>1. /\ Walking /\ Top.next = 0 /\ Listable /\ walk' = Advanced /\ IndInv /\ status = "walking"
      /\ file' = file /\ listing' = listing /\ status' = status /\ answers' = answers
  BY DEF Enter, Entering, ApfsInv, Walking
<1>2. ASSUME ApfsWhole(file) PROVE ApfsListed(file, listing') /\ ApfsAt(file, walk', Len(listing'))
  <2>1. ApfsListed(file, listing) /\ ApfsAt(file, walk, Len(listing))
    BY <1>1, <1>2 DEF ApfsInv, ApfsGood
  <2>2. PICK node, nth : ApfsHand(node, nth)
    BY <1>1, <1>2, <2>1, ApfsAtHand
  <2>3. ApfsFrames(file, Advanced, node, nth)
    BY <1>1, <2>2, ApfsAdvances DEF ApfsHand
  <2> QED BY <1>1, <2>1, <2>2, <2>3 DEF ApfsHand, ApfsAt
<1>3. ASSUME ApfsFault(ApfsV(file)) PROVE ApfsLost(ApfsV(file), walk')
  <2> DEFINE u == ApfsV(file).fault
  <2>1. PICK j \in DOMAIN u : j <= Len(walk) /\ walk[j].dir = u[j].dir /\ walk[j].next <= u[j].nth
    BY <1>1, <1>3 DEF ApfsInv, ApfsBad, ApfsLost
  <2>2. u[j].nth \in Nat \ {0} /\ j \in 1 .. Len(u) /\ Len(u) \in Nat
    BY <1>3, <2>1, ApfsOnTheWay
  <2> HIDE DEF u
  <2>3. j \in DOMAIN walk /\ Advanced[Len(walk)].next = 1 /\ Top = walk[Len(walk)]
    BY <1>1, <2>1, <2>2, AdvancedNext, TopType
  <2>4. /\ Len(Advanced) = Len(walk) /\ Advanced[j].dir = walk[j].dir
        /\ j # Len(walk) => Advanced[j] = walk[j]
    BY <1>1, <2>3, AdvancedType
  <2>5. j <= Len(walk') /\ walk'[j].dir = u[j].dir /\ walk'[j].next <= u[j].nth
    BY <1>1, <2>1, <2>2, <2>3, <2>4
  <2> QED BY <2>1, <2>5 DEF ApfsLost, u
<1> QED BY <1>1, <1>2, <1>3, ApfsGoesOn

\* The record at hand is the next member.
ApfsNext(node, nth) ==
  LET t == ApfsT(file)
      n == Len(listing)
      after == [nth EXCEPT ![Len(nth)] = nth[Len(nth)] + 1]
  IN /\ ApfsHand(node, nth) /\ n \in Nat /\ n + 1 \in 1 .. Len(file.members)
     /\ n + 1 \in Nodes(t) /\ PathOf(t, n + 1) = file.members[n + 1].path
     /\ file.members[n + 1].path = Append(Top.prefix, Rec.name)
     /\ ApfsIs(file.members[n + 1], ApfsV(file), Rec.id)
     /\ Len(Cuts(t, n + 1)) = 1 => On(t, node, after, n + 1)
     /\ On(t, Append(node, n + 1), Append(after, 1), n + 1)

LEMMA ApfsRecord ==
  ASSUME IndInv, Visiting, ApfsWhole(file), ApfsAt(file, walk, Len(listing))
  PROVE  \E node, nth : ApfsNext(node, nth)
<1>1. Walking /\ Top.next # 0 /\ Top.next <= Len(Children) /\ status = "walking"
  BY DEF Visiting, Walking
<1>2. PICK node, nth : ApfsHand(node, nth)
  BY <1>1, ApfsAtHand
<1> DEFINE t == ApfsT(file)
           k == node[Len(node)]
           n == Len(listing)
           i == Top.next
<1>3. Cut(t) /\ t.members = file.members /\ Len(file.members) \in Nat /\ IsSeq(file.members)
  BY ApfsCut
<1>4. Children \in Seq([name : STRING, id : Nat]) /\ i \in Nat
  BY <1>1, <1>2, TopType DEF ApfsHand, Listable, Children, ApfsVolume, Frame
<1>5. i \in DOMAIN Children /\ Len(Children) \in Nat
  BY <1>1, <1>4
<1>6. /\ On(t, node, nth, n) /\ node # <<>> /\ nth[Len(nth)] = i /\ k \in Nodes(t)
      /\ Len(Cuts(t, k)) = Len(Children) + 1 /\ Rec = Children[i]
      /\ Listed(t, k, i, Rec.name)
      /\ ApfsIs(file.members[Child(t, k, i)], ApfsV(file), Rec.id)
      /\ Top.prefix = PathOf(t, k)
  BY <1>1, <1>2, <1>5 DEF ApfsHand, Rec
<1>7. nth[Len(nth)] < Len(Cuts(t, k))
  BY <1>1, <1>4, <1>5, <1>6
<1>8. Listed(t, k, nth[Len(nth)], Rec.name)
  BY <1>6
<1> DEFINE after == [nth EXCEPT ![Len(nth)] = nth[Len(nth)] + 1]
           name == Rec.name
<1> HIDE DEF t, k, n, i, after, name
<1>9. /\ n + 1 \in DOMAIN t.members /\ n + 1 \in Nodes(t)
      /\ Child(t, k, nth[Len(nth)]) = n + 1
      /\ t.members[n + 1].path = Append(PathOf(t, k), name)
      /\ Len(Cuts(t, n + 1)) = 1 => On(t, node, after, n + 1)
      /\ On(t, Append(node, n + 1), Append(after, 1), n + 1)
  BY <1>3, <1>6, <1>7, <1>8, Descends DEF after, k, name
<1>10. n \in Nat
  BY DEF IndInv, TypeOK, n
<1>11. n + 1 \in 1 .. Len(file.members)
  BY <1>3, <1>9 DEF IsSeq
<1>12. PathOf(t, n + 1) = file.members[n + 1].path
  BY <1>3, <1>10 DEF PathOf
<1>13. ApfsIs(file.members[n + 1], ApfsV(file), Rec.id)
  BY <1>6, <1>9
<1>14. ApfsNext(node, nth)
  BY <1>2, <1>3, <1>6, <1>9, <1>10, <1>11, <1>12, <1>13 DEF ApfsNext, t, n, name, after
<1> QED BY <1>14

LEMMA ApfsTooMany == ASSUME ApfsInv, IndInv', TooMany PROVE ApfsInv'
<1>1. /\ Visiting /\ Refuse("Corrupt") /\ Len(listing) >= MaxEntries /\ status = "walking" /\ IndInv
  BY DEF TooMany, Visiting, Walking, Full, ApfsInv
<1>2. ASSUME ApfsWhole(file) PROVE ~ApfsOpens(file)
  <2>1. ApfsAt(file, walk, Len(listing))
    BY <1>1, <1>2 DEF ApfsInv, ApfsGood
  <2>2. PICK node, nth : ApfsNext(node, nth)
    BY <1>1, <1>2, <2>1, ApfsRecord
  <2>3. Len(listing) \in Nat /\ Len(listing) + 1 <= Len(file.members) /\ Len(file.members) \in Nat
    BY <1>2, <2>2, ApfsCut DEF ApfsNext
  <2> QED BY <1>1, <2>3, ApfsAssumption DEF ApfsOpens
<1> QED BY <1>1, <1>2, ApfsRefuses DEF ApfsErrors

LEMMA ApfsCannotLoad == ASSUME ApfsInv, IndInv', CannotLoad PROVE ApfsInv'
<1>1. Visiting /\ Refuse("Corrupt") /\ ~Loads /\ status = "walking" /\ IndInv
  BY DEF CannotLoad, Visiting, Walking, ApfsInv
<1>2. ASSUME ApfsWhole(file) PROVE FALSE
  <2>1. ApfsAt(file, walk, Len(listing))
    BY <1>1, <1>2 DEF ApfsInv, ApfsGood
  <2>2. PICK node, nth : ApfsNext(node, nth)
    BY <1>1, <1>2, <2>1, ApfsRecord
  <2> QED BY <1>1, <2>2, ApfsSigned DEF ApfsNext, ApfsIs, Loads
<1> QED BY <1>1, <1>2, ApfsRefuses DEF ApfsErrors

LEMMA ApfsVisits == ASSUME ApfsInv, IndInv', Visit PROVE ApfsInv'
<1>1. /\ Visiting /\ Loads /\ status = "walking" /\ IndInv /\ Walking /\ Top.next # 0
      /\ listing' = Append(listing, EntryAtHand)
      /\ walk' = IF Found.kind = "dir" THEN Append(Advanced, Below) ELSE Advanced
      /\ file' = file /\ status' = status /\ answers' = answers
  BY DEF Visit, Visiting, Walking, ApfsInv
<1>2. /\ Volume = ApfsV(file) /\ Found = ApfsV(file).inodes[Rec.id]
      /\ Found.kind \in {"file", "dir", "link"}
  BY <1>1, ApfsSigned, RecType DEF Found, Inode
<1>3. ASSUME ApfsWhole(file) PROVE ApfsListed(file, listing') /\ ApfsAt(file, walk', Len(listing'))
  <2> DEFINE t == ApfsT(file)
             n == Len(listing)
             e == EntryAtHand
  <2>1. ApfsListed(file, listing) /\ ApfsAt(file, walk, n)
    BY <1>1, <1>3 DEF ApfsInv, ApfsGood
  <2>2. PICK node, nth : ApfsNext(node, nth)
    BY <1>1, <1>3, <2>1, ApfsRecord
  <2> DEFINE m == file.members[n + 1]
             after == [nth EXCEPT ![Len(nth)] = nth[Len(nth)] + 1]
  <2>3. /\ ApfsHand(node, nth) /\ n \in Nat /\ n + 1 \in 1 .. Len(file.members)
        /\ n + 1 \in Nodes(t) /\ PathOf(t, n + 1) = m.path
        /\ m.path = Append(Top.prefix, Rec.name)
        /\ ApfsIs(m, ApfsV(file), Rec.id)
        /\ Len(Cuts(t, n + 1)) = 1 => On(t, node, after, n + 1)
        /\ On(t, Append(node, n + 1), Append(after, 1), n + 1)
    BY <2>2 DEF ApfsNext
  <2>4. ApfsStands(e, m)
    BY <1>1, <1>2, <2>3 DEF ApfsStands, EntryAtHand, ApfsIs, FileSize
  <2>5. listing \in Seq(Entry)
    BY <1>1 DEF IndInv, TypeOK
  <2>6. Len(listing') = n + 1 /\ listing'[n + 1] = e /\ \A i \in 1..n : listing'[i] = listing[i]
    <3>1. IsSeq(listing)
      BY <2>5, SeqIsSeq
    <3> HIDE DEF e
    <3> QED BY <1>1, <3>1, AppendIsSeq DEF e
  <2>7. ApfsListed(file, listing')
    <3>1. listing' \in Seq(Entry)
      BY DEF IndInv, TypeOK
    <3>2. DOMAIN listing' = 1 .. n + 1 /\ DOMAIN listing = 1..n
      BY <2>5, <2>6, <3>1
    <3>3. n + 1 <= Len(file.members)
      BY <1>3, <2>3, ApfsCut
    <3>4. ASSUME NEW i \in 1 .. n + 1 PROVE ApfsStands(listing'[i], file.members[i])
      <4>1. CASE i = n + 1
        BY <2>4, <2>6, <4>1
      <4>2. CASE i # n + 1
        <5>1. i \in 1..n
          BY <2>3, <4>2
        <5> QED BY <2>1, <2>6, <3>2, <5>1 DEF ApfsListed
      <4> QED BY <4>1, <4>2
    <3> QED BY <2>6, <3>2, <3>3, <3>4 DEF ApfsListed
  <2>8. ApfsFrames(file, Advanced, node, after) /\ Len(after) = Len(node)
    BY <1>1, <2>3, ApfsAdvances DEF ApfsHand
  <2>9. m.kind = Found.kind /\ m.is = Rec.id
    BY <1>2, <2>3 DEF ApfsIs
  <2>10. t.members = file.members
    BY <1>3, ApfsCut
  <2>11. CASE Found.kind # "dir"
    <3>1. ~IsDir(t, n + 1)
      BY <2>3, <2>9, <2>10, <2>11 DEF IsDir
    <3>2. On(t, node, after, n + 1)
      BY <1>3, <2>3, <3>1, ApfsCut
    <3>3. ApfsAt(file, Advanced, n + 1)
      BY <2>8, <3>2 DEF ApfsAt
    <3> QED BY <1>1, <2>6, <2>7, <2>11, <3>3
  <2>12. CASE Found.kind = "dir"
    <3> DEFINE b == Below
               w == Advanced
               x == Append(w, b)
               L == Len(node)
    <3>1. /\ b.dir = Rec.id /\ b.prefix = m.path /\ b.next = 0
      BY <2>3 DEF Below
    <3>2. IsSeq(w) /\ Len(w) = L /\ L \in Nat \ {0} /\ node \in Seq(Nat)
      BY <1>1, <2>3, AdvancedType, SeqIsSeq DEF ApfsHand
    <3>3. IsDir(t, n + 1) /\ ApfsDir(ApfsV(file), t, n + 1) = Rec.id
      BY <2>3, <2>9, <2>10, <2>12 DEF IsDir, ApfsDir
    <3>4. Len(PathOf(t, n + 1)) = L
      <4>1. Top.prefix \in Seq(STRING) /\ Len(Top.prefix) = L - 1
        BY <2>3 DEF ApfsHand
      <4>2. IsSeq(Top.prefix)
        BY <4>1, SeqIsSeq
      <4> QED BY <2>3, <3>2, <4>1, <4>2, AppendIsSeq
    <3> HIDE DEF b, w, L
    <3>5. Len(x) = L + 1 /\ x[L + 1] = b /\ \A j \in 1..L : x[j] = w[j]
      BY <3>2, AppendIsSeq
    <3> DEFINE node2 == Append(node, n + 1)
               nth2 == Append(after, 1)
    <3>6. Len(node2) = L + 1 /\ node2[L + 1] = n + 1 /\ \A j \in 1..L : node2[j] = node[j]
      <4>1. IsSeq(node)
        BY <3>2, SeqIsSeq
      <4> HIDE DEF n
      <4> QED BY <4>1, AppendIsSeq DEF L
    <3>7. nth2[L + 1] = 1 /\ \A j \in 1..L : nth2[j] = after[j]
      <4>1. nth \in Seq(Nat) /\ L \in 1..L /\ Len(nth) = L
        BY <2>3, <3>2 DEF ApfsHand, L
      <4>2. after \in Seq(Nat) /\ Len(after) = L
        BY <4>1, Element
      <4>3. IsSeq(after)
        BY <4>2, SeqIsSeq
      <4> HIDE DEF after
      <4> QED BY <4>2, <4>3, AppendIsSeq
    <3>8. ASSUME NEW j \in 1..L
          PROVE  /\ IsDir(t, node[j]) /\ Len(PathOf(t, node[j])) = j - 1
                 /\ w[j].dir = ApfsDir(ApfsV(file), t, node[j]) /\ w[j].prefix = PathOf(t, node[j])
                 /\ after[j] = IF w[j].next = 0 THEN 1 ELSE w[j].next
      BY <2>8 DEF ApfsFrames, L, w
    <3> HIDE DEF x, node2, nth2, after, t, n, m
    <3>9. ASSUME NEW j \in 1 .. L + 1
          PROVE  /\ IsDir(t, node2[j]) /\ Len(PathOf(t, node2[j])) = j - 1
                 /\ x[j].dir = ApfsDir(ApfsV(file), t, node2[j]) /\ x[j].prefix = PathOf(t, node2[j])
                 /\ nth2[j] = IF x[j].next = 0 THEN 1 ELSE x[j].next
      <4>1. CASE j = L + 1
        <5>1. x[j] = b /\ node2[j] = n + 1 /\ nth2[j] = 1 /\ j - 1 = L
          BY <3>2, <3>5, <3>6, <3>7, <4>1
        <5> QED BY <2>3, <3>1, <3>3, <3>4, <5>1
      <4>2. CASE j # L + 1
        <5>1. j \in 1..L
          BY <3>2, <4>2
        <5>2. x[j] = w[j] /\ node2[j] = node[j] /\ nth2[j] = after[j]
          BY <3>5, <3>6, <3>7, <5>1
        <5> QED BY <3>8, <5>1, <5>2
      <4> QED BY <4>1, <4>2
    <3>10. ApfsFrames(file, x, node2, nth2)
      BY <3>5, <3>6, <3>9 DEF ApfsFrames, t
    <3>11. On(t, node2, nth2, n + 1)
      BY <2>3 DEF node2, nth2
    <3>12. ApfsAt(file, x, n + 1)
      BY <3>10, <3>11 DEF ApfsAt, t
    <3>13. walk' = x
      BY <1>1, <2>12 DEF x, w, b
    <3> QED BY <2>6, <2>7, <3>12, <3>13 DEF n
  <2> QED BY <2>11, <2>12
<1>4. ASSUME ApfsFault(ApfsV(file)) PROVE ApfsLost(ApfsV(file), walk')
  <2> DEFINE v == ApfsV(file)
             u == v.fault
  <2>1. PICK j \in DOMAIN u : j <= Len(walk) /\ walk[j].dir = u[j].dir /\ walk[j].next <= u[j].nth
    BY <1>1, <1>4 DEF ApfsInv, ApfsBad, ApfsLost
  <2>2. /\ u[j].nth \in Nat \ {0} /\ j \in 1 .. Len(u) /\ Len(u) \in Nat
        /\ j # Len(u) => j + 1 \in DOMAIN u /\ LeadsOn(v, u[j], u[j + 1].dir)
    BY <1>4, <2>1, ApfsOnTheWay
  <2>3. /\ j \in DOMAIN walk /\ Advanced[Len(walk)].next = Top.next + 1 /\ Top = walk[Len(walk)]
        /\ Top.next \in Nat /\ Len(walk) \in Nat \ {0}
    BY <1>1, <2>1, <2>2, AdvancedNext, TopType
  <2>4. /\ Len(Advanced) = Len(walk) /\ Advanced[j].dir = walk[j].dir
        /\ j # Len(walk) => Advanced[j] = walk[j]
    BY <1>1, <2>3, AdvancedType
  <2>5. /\ Len(walk') >= Len(walk) /\ walk'[j] = Advanced[j] /\ Len(walk') \in Nat
        /\ Found.kind = "dir" => Len(walk') = Len(walk) + 1 /\ walk'[Len(walk) + 1] = Below
    <3> DEFINE w == Advanced
               b == Below
    <3>1. IsSeq(w)
      BY <1>1, AdvancedType, SeqIsSeq
    <3>2. walk' = IF Found.kind = "dir" THEN Append(w, b) ELSE w
      BY <1>1
    <3>3. j \in 1 .. Len(w)
      BY <2>1, <2>2, <2>3, <2>4
    <3>4. Len(w) = Len(walk)
      BY <2>4
    <3> HIDE DEF w, b
    <3>5. Len(w) \in Nat /\ Len(Append(w, b)) = Len(w) + 1 /\ Append(w, b)[Len(w) + 1] = b
          /\ Append(w, b)[j] = w[j]
      BY <3>1, <3>3, AppendIsSeq
    <3>6. /\ Len(walk') >= Len(w) /\ walk'[j] = w[j] /\ Len(walk') \in Nat
          /\ Found.kind = "dir" => Len(walk') = Len(w) + 1 /\ walk'[Len(w) + 1] = b
      <4>1. CASE Found.kind = "dir"
        <5> DEFINE x == Append(w, b)
        <5>1. walk' = x
          BY <3>2, <4>1
        <5>2. Len(w) \in Nat /\ Len(x) = Len(w) + 1 /\ x[Len(w) + 1] = b /\ x[j] = w[j]
          BY <3>5
        <5> HIDE DEF x
        <5>3. Len(x) >= Len(w) /\ Len(x) \in Nat
          BY <5>2
        <5> QED BY <5>1, <5>2, <5>3
      <4>2. CASE Found.kind # "dir"
        <5>1. walk' = w
          BY <3>2, <4>2
        <5> QED BY <3>5, <4>2, <5>1
      <4> QED BY <4>1, <4>2
    <3> QED BY <3>4, <3>6 DEF w, b
  <2>6. CASE j # Len(walk) \/ walk[j].next # u[j].nth
    <3>1. j <= Len(walk') /\ walk'[j].dir = u[j].dir
      BY <2>1, <2>2, <2>3, <2>4, <2>5
    <3>2. walk'[j].next <= u[j].nth
      BY <2>1, <2>2, <2>3, <2>4, <2>5, <2>6
    <3> QED BY <2>1, <3>1, <3>2 DEF ApfsLost
  <2>7. CASE j = Len(walk) /\ walk[j].next = u[j].nth
    <3>1. /\ Top.dir = u[j].dir /\ Top.next = u[j].nth /\ walk[j].next # 0 /\ Volume = v
          /\ Rec = v.dirs[u[j].dir][u[j].nth] /\ Children = v.dirs[u[j].dir]
      BY <1>1, <1>2, <2>1, <2>3, <2>7 DEF Rec, Children
    <3>2. u[j].dir \in DOMAIN v.dirs /\ j <= MaxDepth + 1
      BY <1>1, <2>1, <2>3, <3>1 DEF IndInv, ListedInv, DepthInv
    <3>3. Rec.id \in DOMAIN v.inodes /\ v.inodes[Rec.id].sound
      BY <1>1, <1>2 DEF Loads
    <3>4. j # Len(u)
      <4>1. ~DeadEnd(v, u[j])
        BY <3>1, <3>2, <3>3 DEF DeadEnd
      <4>2. ~(j > MaxDepth + 1)
        BY <2>2, <3>2, ApfsAssumption
      <4> QED BY <1>4, <4>1, <4>2 DEF ApfsFault
    <3>5. /\ j + 1 \in DOMAIN u /\ Rec.id = u[j + 1].dir /\ Found.kind = "dir"
      BY <1>2, <2>2, <3>1, <3>4 DEF LeadsOn
    <3>6. /\ walk'[j + 1].dir = u[j + 1].dir /\ walk'[j + 1].next = 0 /\ j + 1 <= Len(walk')
      BY <2>3, <2>5, <2>7, <3>5 DEF Below
    <3>7. u[j + 1].nth \in Nat
      BY <1>4, <3>5, ApfsOnTheWay
    <3>8. walk'[j + 1].next <= u[j + 1].nth
      BY <3>6, <3>7
    <3> QED BY <3>5, <3>6, <3>8 DEF ApfsLost
  <2> QED BY <2>6, <2>7
<1> QED BY <1>1, <1>3, <1>4, ApfsGoesOn

LEMMA ApfsLeaves == ASSUME ApfsInv, IndInv', Leave PROVE ApfsInv'
<1>1. /\ Walking /\ Top.next # 0 /\ Top.next > Len(Children) /\ status = "walking" /\ IndInv
      /\ walk' = SubSeq(walk, 1, Len(walk) - 1)
      /\ file' = file /\ listing' = listing /\ status' = status /\ answers' = answers
  BY DEF Leave, Walking, ApfsInv
<1>2. /\ walk \in Seq(Frame) /\ Len(walk) \in Nat \ {0} /\ Top = walk[Len(walk)] /\ Top \in Frame
      /\ Volume = ApfsV(file) /\ DOMAIN walk = 1 .. Len(walk)
  BY <1>1, TopType, ApfsSigned
<1>3. /\ Len(walk') = Len(walk) - 1 /\ \A q \in 1 .. Len(walk) - 1 : walk'[q] = walk[q]
  <2>1. IsSeq(walk) /\ walk # <<>>
    BY <1>2, SeqIsSeq
  <2> QED BY <1>1, <2>1, WithoutLast
<1>4. ASSUME ApfsWhole(file) PROVE ApfsListed(file, listing') /\ ApfsAt(file, walk', Len(listing'))
  <2> DEFINE t == ApfsT(file)
             n == Len(listing)
  <2>1. ApfsListed(file, listing) /\ ApfsAt(file, walk, n)
    BY <1>1, <1>4 DEF ApfsInv, ApfsGood
  <2>2. PICK node, nth : ApfsHand(node, nth)
    BY <1>1, <1>4, <2>1, ApfsAtHand
  <2> DEFINE L == Len(node)
             k == node[L]
             node2 == SubSeq(node, 1, L - 1)
             nth2 == SubSeq(nth, 1, L - 1)
  <2>3. /\ On(t, node, nth, n) /\ ApfsFrames(file, walk, node, nth)
        /\ node \in Seq(Nat) /\ nth \in Seq(Nat) /\ node # <<>> /\ Len(nth) = L
        /\ Len(walk) = L /\ L \in Nat \ {0} /\ Cut(t)
        /\ nth[L] = Top.next /\ Len(Cuts(t, k)) = Len(Children) + 1
        /\ nth[L] \in 1 .. Len(Cuts(t, k)) /\ Len(Children) \in Nat
    <3>1. Children \in Seq([name : STRING, id : Nat])
      BY <1>1, <2>2, TopType DEF ApfsHand, Listable, Children, ApfsVolume
    <3>2. On(t, node, nth, n) /\ L \in 1..L
      BY <2>2 DEF ApfsHand
    <3>3. nth[L] \in 1 .. Len(Cuts(t, k))
      BY <3>2 DEF On
    <3> QED BY <1>1, <1>4, <2>2, <3>1, <3>3, ApfsCut DEF ApfsHand
  <2>4. nth[Len(nth)] = Len(Cuts(t, k))
    <3> HIDE DEF t, k, L, n
    <3> QED BY <1>1, <1>2, <2>3 DEF Frame
  <2>5. On(t, node2, SubSeq(nth, 1, Len(nth) - 1), n)
    BY <2>3, <2>4, Leaves
  <2>6. On(t, node2, nth2, n)
    BY <2>3, <2>5
  <2>7. Len(node2) = L - 1 /\ \A q \in 1 .. L - 1 : node2[q] = node[q]
    <3>1. IsSeq(node)
      BY <2>3, SeqIsSeq
    <3> QED BY <2>3, <3>1, WithoutLast
  <2>8. \A q \in 1 .. L - 1 : nth2[q] = nth[q]
    <3>1. IsSeq(nth) /\ nth # <<>>
      BY <2>3, SeqIsSeq
    <3> QED BY <2>3, <3>1, WithoutLast
  <2> HIDE DEF node2, nth2, L, t, n, k
  <2>9. ASSUME NEW q \in 1 .. L - 1
        PROVE  /\ IsDir(t, node2[q]) /\ Len(PathOf(t, node2[q])) = q - 1
               /\ walk'[q].dir = ApfsDir(ApfsV(file), t, node2[q])
               /\ walk'[q].prefix = PathOf(t, node2[q])
               /\ nth2[q] = IF walk'[q].next = 0 THEN 1 ELSE walk'[q].next
    <3>1. q \in 1..L
      BY <2>3
    <3>2. walk'[q] = walk[q] /\ node2[q] = node[q] /\ nth2[q] = nth[q]
      BY <1>3, <2>3, <2>7, <2>8
    <3> QED BY <2>3, <3>1, <3>2 DEF ApfsFrames, L, t
  <2>10. ApfsFrames(file, walk', node2, nth2)
    BY <1>3, <2>3, <2>7, <2>9 DEF ApfsFrames, t
  <2> QED BY <1>1, <2>1, <2>6, <2>10 DEF ApfsAt, t, n
<1>5. ASSUME ApfsFault(ApfsV(file)) PROVE ApfsLost(ApfsV(file), walk')
  <2> DEFINE v == ApfsV(file)
             u == v.fault
  <2>1. PICK j \in DOMAIN u : j <= Len(walk) /\ walk[j].dir = u[j].dir /\ walk[j].next <= u[j].nth
    BY <1>1, <1>5 DEF ApfsInv, ApfsBad, ApfsLost
  <2>2. /\ u[j].nth \in Nat \ {0} /\ j \in 1 .. Len(u) /\ Len(u) \in Nat
        /\ j # Len(u) => j + 1 \in DOMAIN u /\ LeadsOn(v, u[j], u[j + 1].dir)
    BY <1>5, <2>1, ApfsOnTheWay
  <2>3. j # Len(walk)
    <3> SUFFICES ASSUME j = Len(walk) PROVE FALSE
      OBVIOUS
    <3>1. Top.dir = u[j].dir /\ Top.next <= u[j].nth /\ Top.next > Len(Children) /\ walk[j].next # 0
          /\ Children = v.dirs[u[j].dir] /\ Top.next \in Nat
      BY <1>1, <1>2, <2>1 DEF Children, Frame
    <3>2. u[j].dir \in DOMAIN v.dirs /\ j <= MaxDepth + 1 /\ j \in DOMAIN walk
      BY <1>1, <1>2, <2>1, <2>2, <3>1 DEF IndInv, ListedInv, DepthInv
    <3>3. Children \in Seq([name : STRING, id : Nat])
      BY <1>1, <1>2, <3>1, <3>2, TopType DEF ApfsVolume
    <3>4. u[j].nth \notin DOMAIN v.dirs[u[j].dir]
      <4>1. DOMAIN Children = 1 .. Len(Children) /\ Len(Children) \in Nat
        BY <3>3
      <4>2. u[j].nth > Len(Children)
        BY <2>2, <3>1, <4>1
      <4> QED BY <2>2, <3>1, <4>1, <4>2
    <3>5. j = Len(u)
      BY <2>2, <3>4 DEF LeadsOn
    <3>6. ~DeadEnd(v, u[j])
      BY <3>2, <3>4 DEF DeadEnd
    <3>7. ~(j > MaxDepth + 1)
      BY <2>2, <3>2, ApfsAssumption
    <3> QED BY <1>5, <3>5, <3>6, <3>7 DEF ApfsFault
  <2>4. j \in 1 .. Len(walk) - 1
    BY <1>2, <2>1, <2>2, <2>3
  <2>5. walk'[j] = walk[j] /\ j <= Len(walk')
    BY <1>2, <1>3, <2>4
  <2> QED BY <2>1, <2>5 DEF ApfsLost
<1> QED BY <1>1, <1>4, <1>5, ApfsGoesOn

LEMMA ApfsFinishes == ASSUME ApfsInv, IndInv', Finish PROVE ApfsInv'
<1>1. /\ status = "walking" /\ walk = <<>> /\ status' = "open"
      /\ answers' = [i \in DOMAIN listing |-> NotRead]
      /\ file' = file /\ listing' = listing
  BY DEF Finish
<1>2. ASSUME ApfsWhole(file) PROVE ApfsListed(file, listing) /\ Len(listing) = Len(file.members)
  <2>1. ApfsListed(file, listing) /\ ApfsAt(file, walk, Len(listing))
    BY <1>1, <1>2 DEF ApfsInv, ApfsGood
  <2>2. PICK node, nth : On(ApfsT(file), node, nth, Len(listing)) /\ ApfsFrames(file, walk, node, nth)
    BY <2>1 DEF ApfsAt
  <2>3. node = <<>>
    <3>1. Len(node) = 0 /\ node \in Seq(Nat)
      BY <1>1, <2>2 DEF ApfsFrames, On
    <3> QED BY <3>1
  <2>4. Len(listing) = Len(ApfsT(file).members)
    BY <2>2, <2>3 DEF On
  <2> QED BY <1>2, <2>1, <2>4, ApfsCut
<1>3. ~ApfsFault(ApfsV(file))
  <2> SUFFICES ASSUME ApfsFault(ApfsV(file)) PROVE FALSE
    OBVIOUS
  <2>1. PICK j \in DOMAIN ApfsV(file).fault : j <= Len(walk)
    BY <1>1 DEF ApfsInv, ApfsBad, ApfsLost
  <2>2. j \in 1 .. Len(ApfsV(file).fault) /\ Len(ApfsV(file).fault) \in Nat
    BY <2>1, ApfsOnTheWay
  <2>3. Len(walk) = 0
    BY <1>1
  <2> QED BY <2>1, <2>2, <2>3
<1>4. NotRead.said # "ok"
  BY DEF NotRead, Answer
<1>5. (ApfsWhole(file) => ApfsGood)'
  BY <1>1, <1>2 DEF ApfsGood, ApfsErrors
<1>6. (ApfsFault(ApfsV(file)) => ApfsBad)'
  BY <1>1, <1>3
<1>7. (ApfsHolds(file) => ApfsGiven)'
  <2>1. \A i \in DOMAIN answers' : answers'[i].said # "ok"
    BY <1>1, <1>4
  <2> QED BY <2>1 DEF ApfsGiven
<1> QED BY <1>1, <1>5, <1>6, <1>7 DEF ApfsInv, ApfsErrors

----------------------------------------------------------------------------
\* A read that goes well gives the member's own bytes.
LEMMA ApfsGives ==
  ASSUME ApfsInv, status = "open", ApfsHolds(file), NEW i \in DOMAIN listing,
         listing[i].kind = "file", ReadBody(listing[i]).said = "ok"
  PROVE  ReadBody(listing[i]).given = file.members[i].content
<1>1. /\ ApfsWhole(file) /\ ApfsBodies(file, ApfsV(file)) /\ ApfsListed(file, listing)
      /\ Len(listing) = Len(file.members) /\ IndInv /\ Signed /\ Volume = ApfsV(file)
  BY ApfsSigned DEF ApfsInv, ApfsGood, ApfsWhole, ApfsHolds
<1> DEFINE m == file.members[i]
           inode == Volume.inodes[listing[i].id]
           at == file.offset + inode.at
           n == Reach(file, at, inode.stored)
           raw == Through(file, file.offset, inode.at, inode.stored)
<1>2. listing \in Seq(Entry) /\ IsSeq(file.members) /\ ApfsImage(file)
  BY <1>1, ApfsCut DEF IndInv, TypeOK
<1>3. i \in DOMAIN file.members /\ ApfsStands(listing[i], m)
  <2>1. DOMAIN listing = 1 .. Len(listing) /\ DOMAIN file.members = 1 .. Len(file.members)
    BY <1>2 DEF IsSeq
  <2> QED BY <1>1, <2>1 DEF ApfsListed
<1>4. m.kind = "file" /\ listing[i].id = m.is /\ m.content \in Seq(Nat)
  BY <1>1, <1>3 DEF ApfsStands, ApfsWhole, ApfsTree, Counted, ApfsT, Tree
<1>5. inode \in Inode /\ (inode.packed => inode.stored > 0)
  BY <1>1, VolumeType DEF IndInv, ApfsVolume, ApfsInv
<1>6. /\ inode.at \in Nat /\ inode.stored \in Nat /\ inode.packed \in BOOLEAN
      /\ file.len \in Nat /\ file.offset \in Nat
  BY <1>2, <1>5 DEF Inode, ApfsImage
<1>7. StoredAs(Bytes(file, at, inode.stored), inode.packed, m.content)
  BY <1>1, <1>3, <1>4 DEF ApfsBodies
<1>8. ReadBody(listing[i]) = ReadData(inode)
  BY DEF ReadBody
<1>9. raw = Bytes(file, at, n) /\ n \in 0 .. inode.stored /\ Len(raw) = n
  <2>1. n \in 0 .. inode.stored
    BY <1>6 DEF Reach
  <2> QED BY <2>1 DEF Through, Bytes
<1> HIDE DEF inode
<1>10. n = inode.stored
  <2>1. Len(raw) < inode.stored => ReadData(inode).said = "Corrupt"
    BY DEF ReadData, Answer
  <2> QED BY <1>6, <1>8, <1>9, <2>1
<1>11. raw = Bytes(file, at, inode.stored)
  BY <1>9, <1>10
<1>12. CASE ~inode.packed
  <2>1. ReadData(inode).given = raw
    BY <1>6, <1>9, <1>10, <1>12 DEF ReadData, Answer
  <2> QED BY <1>7, <1>8, <1>11, <1>12, <2>1 DEF StoredAs
<1>13. CASE inode.packed
  <2>1. ReadData(inode).given = Tail(raw)
    BY <1>6, <1>9, <1>10, <1>13 DEF ReadData, Answer
  <2> DEFINE c == m.content
  <2>2. raw = <<Len(c)>> \o c
    BY <1>7, <1>11, <1>13 DEF StoredAs
  <2>3. Tail(<<Len(c)>> \o c) = c
    <3> HIDE DEF c
    <3>0. c \in Seq(Nat) /\ Len(c) \in Nat
      BY <1>4 DEF c
    <3>1. <<Len(c)>> \o c \in Seq(Nat) /\ Len(<<Len(c)>> \o c) = Len(c) + 1
          /\ \A k \in 1 .. Len(c) : (<<Len(c)>> \o c)[k + 1] = c[k]
      BY <3>0
    <3> DEFINE b == <<Len(c)>> \o c
    <3> HIDE DEF b
    <3>2. Tail(b) \in Seq(Nat) /\ Len(Tail(b)) = Len(c) /\ \A k \in 1 .. Len(c) : Tail(b)[k] = b[k + 1]
      BY <3>0, <3>1 DEF b
    <3> QED BY <3>0, <3>1, <3>2 DEF b
  <2> QED BY <1>8, <2>1, <2>2, <2>3
<1> QED BY <1>6, <1>12, <1>13

LEMMA ApfsReads == ASSUME ApfsInv, IndInv', NEW i \in DOMAIN listing, ReadEntry(i) PROVE ApfsInv'
<1>1. /\ status = "open" /\ status' = status /\ listing' = listing /\ file' = file
      /\ answers' = [answers EXCEPT ![i] = ReadBody(listing[i])]
  BY DEF ReadEntry
<1>2. DOMAIN answers = DOMAIN listing /\ DOMAIN answers' = DOMAIN listing
  BY <1>1 DEF ApfsInv, IndInv
<1>3. ASSUME ApfsHolds(file) PROVE ApfsGiven'
  <2> SUFFICES ASSUME NEW k \in DOMAIN answers', answers'[k].said = "ok", listing[k].kind = "file"
               PROVE  answers'[k].given = file.members[k].content
    BY <1>1 DEF ApfsGiven
  <2>1. CASE k = i
    <3>1. answers'[k] = ReadBody(listing[i])
      BY <1>1, <1>2, <2>1
    <3> QED BY <1>1, <1>3, <2>1, <3>1, ApfsGives
  <2>2. CASE k # i
    BY <1>1, <1>2, <1>3, <2>2 DEF ApfsInv, ApfsGiven
  <2> QED BY <2>1, <2>2
<1>4. (ApfsWhole(file) => ApfsGood)'
  BY <1>1 DEF ApfsInv, ApfsGood, ApfsErrors
<1>5. (ApfsFault(ApfsV(file)) => ApfsBad)'
  BY <1>1 DEF ApfsInv, ApfsBad
<1> QED BY <1>1, <1>3, <1>4, <1>5 DEF ApfsInv, ApfsErrors

LEMMA ApfsNextKeeps == ASSUME ApfsInv, Next PROVE ApfsInv'
<1>0. IndInv'
  BY NextInd DEF ApfsInv
<1>1. CASE RefusePathless \/ RefuseUnsigned \/ CannotMount
  <2>1. PICK error \in ApfsErrors : Refuse(error) /\ status = "new"
    BY <1>1 DEF RefusePathless, RefuseUnsigned, CannotMount, ApfsErrors
  <2>2. ~ApfsOpens(file)
    BY <1>1, ApfsSigned DEF RefusePathless, RefuseUnsigned, CannotMount, ApfsOpens
  <2> QED BY <1>0, <2>1, <2>2, ApfsRefuses
<1> QED
  BY <1>0, <1>1, ApfsMounts, ApfsEnters, ApfsTooDeep, ApfsTooMany, ApfsCannotLoad, ApfsVisits,
     ApfsLeaves, ApfsFinishes, ApfsReads DEF Next

LEMMA ApfsSame == ASSUME ApfsInv, UNCHANGED vars PROVE ApfsInv'
<1>1. file' = file /\ walk' = walk /\ listing' = listing /\ status' = status /\ answers' = answers
  BY DEF vars
<1>2. IndInv'
  BY NextInd DEF ApfsInv
<1> QED BY <1>1, <1>2 DEF ApfsInv, ApfsGood, ApfsBad, ApfsGiven

\* A volume that nobody has opened yet.
Fresh == walk = <<>> /\ listing = <<>> /\ status = "new" /\ answers = <<>>

LEMMA ApfsFresh == Fresh /\ ApfsImage(file) => ApfsInv
<1> SUFFICES ASSUME Fresh, ApfsImage(file) PROVE ApfsInv
  OBVIOUS
<1>1. walk = <<>> /\ listing = <<>> /\ status = "new" /\ answers = <<>>
  BY DEF Fresh
<1>2. TypeOK
  <2>1. <<>> \in Seq(Frame) /\ <<>> \in Seq(Entry) /\ <<>> \in Seq(Answers)
    OBVIOUS
  <2> QED BY <1>1, <2>1 DEF TypeOK
<1>3. IndInv
  BY <1>1, <1>2, ApfsAssumption DEF IndInv, DepthInv, ParentsFirst
<1> QED BY <1>1, <1>3 DEF ApfsInv, ApfsGood, ApfsBad, ApfsGiven, ApfsErrors

\* What follows for the properties.
LEMMA ApfsShows ==
  ASSUME ApfsInv
  PROVE  /\ ApfsFails(file) => status # "open"
         /\ ApfsHolds(file) => ApfsGiven
         /\ ApfsHolds(file) =>
              /\ ApfsOpens(file) => status \notin ApfsErrors
              /\ \A k \in DOMAIN listing : Matches(listing[k], Member(k))
              /\ status = "open" => Len(listing) = Len(file.members)
         /\ status # "open" => answers = <<>>
         /\ status \in ApfsErrors => listing = <<>>
         /\ status \in {"new", "walking", "open"} \union ApfsErrors
<1>1. ASSUME ApfsFails(file) PROVE status # "open"
  <2> SUFFICES ASSUME status = "open" PROVE FALSE
    OBVIOUS
  <2>1. file.path /\ ApfsBears(file) /\ ApfsV(file).mounts
    BY DEF ApfsInv
  <2>2. CASE ApfsFault(ApfsV(file))
    BY <2>2 DEF ApfsInv, ApfsBad
  <2>3. CASE ApfsTree(ApfsV(file), ApfsT(file)) /\ Len(file.members) > MaxEntries
    <3>1. Len(listing) = Len(file.members) /\ Len(listing) <= MaxEntries /\ Len(listing) \in Nat
      BY <2>1, <2>3 DEF ApfsInv, ApfsWhole, ApfsGood, IndInv, TypeOK
    <3> QED BY <2>3, <3>1, ApfsAssumption
  <2> QED BY <1>1, <2>1, <2>2, <2>3 DEF ApfsFails
<1>2. ASSUME ApfsHolds(file)
      PROVE  /\ ApfsOpens(file) => status \notin ApfsErrors
             /\ \A k \in DOMAIN listing : Matches(listing[k], Member(k))
             /\ status = "open" => Len(listing) = Len(file.members)
  <2>1. ApfsOpens(file) \/ status \in {"walking", "open"} => ApfsWhole(file)
    BY <1>2 DEF ApfsInv, ApfsOpens, ApfsHolds, ApfsWhole
  <2>2. status \in {"new", "walking", "open"} \union ApfsErrors
    BY DEF ApfsInv, IndInv, TypeOK, ApfsErrors
  <2>3. ASSUME NEW k \in DOMAIN listing PROVE Matches(listing[k], Member(k))
    <3>1. status \in {"walking", "open"}
      BY <2>2 DEF ApfsInv, IndInv
    <3>2. ApfsStands(listing[k], file.members[k])
      BY <2>1, <3>1 DEF ApfsInv, ApfsGood, ApfsListed
    <3> QED BY <3>2 DEF ApfsStands, Matches, Member
  <2> QED BY <2>1, <2>3 DEF ApfsInv, ApfsGood
<1>3. status \in {"new", "walking", "open"} \union ApfsErrors
  BY DEF ApfsInv, IndInv, TypeOK, ApfsErrors
<1> QED BY <1>1, <1>2, <1>3 DEF ApfsInv

----------------------------------------------------------------------------
(***************************************************************************)
(* HfsPlus.  What the crate finds, without what is private.                *)
(***************************************************************************)
\* How a sequence is gone through for what is in a set.
KeptBy(s, S, g, m) ==
  /\ g[0] = <<>>
  /\ \A n \in 1..m : g[n] = IF s[n] \in S THEN Append(g[n - 1], s[n]) ELSE g[n - 1]

LEMMA AmongIsKept ==
  ASSUME NEW s, IsSeq(s), NEW S
  PROVE  \E g : KeptBy(s, S, g, Len(s)) /\ Among(s, S) = g[Len(s)]
<1> DEFINE L == Len(s)
           Goes(g, m) == g = [n \in 0..m |-> IF n = 0 THEN <<>>
                                             ELSE IF s[n] \in S THEN Append(g[n - 1], s[n])
                                             ELSE g[n - 1]]
           B == {m \in 0..L : ~ \E g : Goes(g, m)}
<1>1. L \in Nat
  BY DEF IsSeq
<1>2. B = {}
  <2> SUFFICES ASSUME B # {} PROVE FALSE
    OBVIOUS
  <2>1. PICK m \in B : \A j \in B : m <= j
    <3>1. B \subseteq Nat
      OBVIOUS
    <3> HIDE DEF B
    <3> QED BY <3>1, Smallest
  <2>2. m \in 0..L /\ m \in Nat
    BY <1>1
  <2>3. m # 0
    <3> DEFINE g == [n \in 0..0 |-> <<>>]
    <3>1. Goes(g, 0)
      OBVIOUS
    <3> QED BY <3>1
  <2>4. m - 1 \in 0..L /\ m - 1 \notin B
    <3>1. m - 1 \in 0..L /\ ~(m <= m - 1)
      BY <1>1, <2>2, <2>3
    <3> HIDE DEF B
    <3> QED BY <2>1, <3>1
  <2>5. PICK g : Goes(g, m - 1)
    BY <2>4
  <2> DEFINE next == IF s[m] \in S THEN Append(g[m - 1], s[m]) ELSE g[m - 1]
             h == [n \in 0..m |-> IF n = m THEN next ELSE g[n]]
  <2> HIDE DEF next
  <2>6. \A n \in 0..m : n # m => n \in 0 .. m - 1 /\ h[n] = g[n]
    BY <2>2
  <2>7. h[m] = next /\ h[m - 1] = g[m - 1]
    BY <2>2, <2>3
  <2>8. ASSUME NEW n \in 0..m
        PROVE  h[n] = IF n = 0 THEN <<>>
                      ELSE IF s[n] \in S THEN Append(h[n - 1], s[n]) ELSE h[n - 1]
    <3>1. CASE n = m
      BY <2>3, <2>7, <3>1 DEF next
    <3>2. CASE n # m
      <4>1. n \in 0 .. m - 1 /\ h[n] = g[n] /\ (n # 0 => n - 1 \in 0..m /\ n - 1 # m)
        BY <2>2, <2>6, <3>2
      <4>2. n # 0 => h[n - 1] = g[n - 1]
        BY <2>6, <4>1
      <4>3. g[n] = IF n = 0 THEN <<>>
                   ELSE IF s[n] \in S THEN Append(g[n - 1], s[n]) ELSE g[n - 1]
        BY <2>5, <4>1
      <4> QED BY <4>1, <4>2, <4>3
    <3> QED BY <3>1, <3>2
  <2>9. h = [n \in 0..m |-> h[n]]
    OBVIOUS
  <2> HIDE DEF h
  <2>10. Goes(h, m)
    BY <2>8, <2>9
  <2> QED BY <2>1, <2>10
<1>3. \E g : Goes(g, L)
  <2>1. L \in 0..L
    BY <1>1
  <2> QED BY <1>2, <2>1
<1> DEFINE kept == CHOOSE g : Goes(g, L)
<1>4. Goes(kept, L)
  BY <1>3
<1>5. Among(s, S) = kept[L]
  BY DEF Among
<1> HIDE DEF kept
<1>6. KeptBy(s, S, kept, L)
  <2>1. kept[0] = <<>>
    BY <1>1, <1>4
  <2>2. ASSUME NEW n \in 1..L
        PROVE  kept[n] = IF s[n] \in S THEN Append(kept[n - 1], s[n]) ELSE kept[n - 1]
    <3>1. n \in 0..L /\ n # 0
      BY <1>1
    <3> QED BY <1>4, <3>1
  <2> QED BY <2>1, <2>2 DEF KeptBy
<1> QED BY <1>5, <1>6

LEMMA AmongRange ==
  ASSUME NEW s, IsSeq(s), NEW S
  PROVE  /\ IsSeq(Among(s, S))
         /\ \A x : x \in Range(Among(s, S)) <=> x \in Range(s) /\ x \in S
<1> DEFINE L == Len(s)
<1>1. PICK g : KeptBy(s, S, g, L) /\ Among(s, S) = g[L]
  BY AmongIsKept
<1>2. L \in Nat /\ DOMAIN s = 1..L
  BY DEF IsSeq
<1> DEFINE Fits(m) == /\ IsSeq(g[m])
                      /\ \A x : x \in Range(g[m]) <=> (x \in S /\ \E i \in 1..m : s[i] = x)
           B == {m \in 0..L : ~Fits(m)}
<1>3. B = {}
  <2> SUFFICES ASSUME B # {} PROVE FALSE
    OBVIOUS
  <2>1. PICK m \in B : \A j \in B : m <= j
    <3>1. B \subseteq Nat
      OBVIOUS
    <3> HIDE DEF B
    <3> QED BY <3>1, Smallest
  <2>2. m \in 0..L /\ m \in Nat
    BY <1>2
  <2>3. m # 0
    <3>1. g[0] = <<>>
      BY <1>1 DEF KeptBy
    <3>2. Fits(0)
      BY <3>1 DEF IsSeq, Range
    <3> QED BY <3>2
  <2>4. m - 1 \in 0..L /\ m - 1 \notin B /\ m \in 1..L
    <3>1. m - 1 \in 0..L /\ m \in 1..L /\ ~(m <= m - 1)
      BY <1>2, <2>2, <2>3
    <3> HIDE DEF B
    <3> QED BY <2>1, <3>1
  <2>5. Fits(m - 1)
    BY <2>4
  <2>6. g[m] = IF s[m] \in S THEN Append(g[m - 1], s[m]) ELSE g[m - 1]
    BY <1>1, <2>4 DEF KeptBy
  <2>7. CASE s[m] \notin S
    <3>1. g[m] = g[m - 1]
      BY <2>6, <2>7
    <3>2. \A x \in S : (\E i \in 1..m : s[i] = x) <=> (\E i \in 1 .. m - 1 : s[i] = x)
      BY <2>2, <2>7
    <3>3. Fits(m)
      BY <2>5, <3>1, <3>2
    <3> QED BY <2>1, <3>3
  <2>8. CASE s[m] \in S
    <3> DEFINE a == g[m - 1]
               y == s[m]
               n == Len(a)
    <3>1. g[m] = Append(a, y) /\ IsSeq(a)
      BY <2>5, <2>6, <2>8
    <3>2. \A x : x \in Range(a) <=> (x \in S /\ \E i \in 1 .. m - 1 : s[i] = x)
      BY <2>5
    <3> HIDE DEF a
    <3>3. /\ n \in Nat /\ IsSeq(g[m]) /\ Len(g[m]) = n + 1 /\ g[m][n + 1] = y
          /\ \A i \in 1..n : g[m][i] = a[i]
      BY <3>1, AppendIsSeq
    <3>4. DOMAIN g[m] = 1 .. n + 1 /\ DOMAIN a = 1 .. n
      BY <3>1, <3>3 DEF IsSeq
    <3>5. ASSUME NEW x PROVE x \in Range(g[m]) <=> (x \in Range(a) \/ x = y)
      <4>1. \A i \in 1 .. n + 1 : i = n + 1 \/ i \in 1..n
        BY <3>3
      <4>2. \A i \in 1 .. n : i \in 1 .. n + 1
        BY <3>3
      <4>3. n + 1 \in 1 .. n + 1
        BY <3>3
      <4> HIDE DEF y, n
      <4> QED BY <3>3, <3>4, <4>1, <4>2, <4>3 DEF Range
    <3>6. ASSUME NEW x PROVE (\E i \in 1..m : s[i] = x) <=> ((\E i \in 1 .. m - 1 : s[i] = x) \/ x = y)
      BY <2>2, <2>4
    <3>7. ASSUME NEW x PROVE x \in Range(g[m]) <=> (x \in S /\ \E i \in 1..m : s[i] = x)
      BY <2>8, <3>2, <3>5, <3>6
    <3> QED BY <2>1, <3>3, <3>7
  <2> QED BY <2>7, <2>8
<1>4. Fits(L)
  <2>1. L \in 0..L
    BY <1>2
  <2> QED BY <1>3, <2>1
<1>5. ASSUME NEW x PROVE x \in Range(Among(s, S)) <=> x \in Range(s) /\ x \in S
  <2>1. x \in Range(s) <=> \E i \in 1..L : s[i] = x
    BY <1>2 DEF Range
  <2> QED BY <1>1, <1>4, <2>1
<1> QED BY <1>1, <1>4, <1>5

LEMMA AmongShown ==
  ASSUME NEW s, IsSeq(s), NEW S, NEW w, w \in Seq(DOMAIN s),
         Range(w) = {i \in DOMAIN s : s[i] \in S},
         \A j, k \in DOMAIN w : j < k => w[j] < w[k]
  PROVE  Among(s, S) = [k \in 1 .. Len(w) |-> s[w[k]]]
<1> DEFINE L == Len(s)
           K == Len(w)
<1>1. PICK g : KeptBy(s, S, g, L) /\ Among(s, S) = g[L]
  BY AmongIsKept
<1>2. L \in Nat /\ DOMAIN s = 1..L /\ K \in Nat /\ DOMAIN w = 1..K
  BY DEF IsSeq
<1>3. \A k \in 1..K : w[k] \in 1..L /\ w[k] \in Nat
  BY <1>2
<1>4. \A i \in 1..L : s[i] \in S <=> \E k \in 1..K : w[k] = i
  BY <1>2 DEF Range
<1>5. \A j, k \in 1..K : j < k => w[j] < w[k]
  BY <1>2
<1> DEFINE Fits(m) == \E c \in 0..K : /\ \A k \in 1..K : w[k] <= m <=> k <= c
                                      /\ g[m] = [k \in 1..c |-> s[w[k]]]
           B == {m \in 0..L : ~Fits(m)}
<1> HIDE DEF K
<1>6. B = {}
  <2> SUFFICES ASSUME B # {} PROVE FALSE
    OBVIOUS
  <2>1. PICK m \in B : \A j \in B : m <= j
    <3>1. B \subseteq Nat
      OBVIOUS
    <3> HIDE DEF B
    <3> QED BY <3>1, Smallest
  <2>2. m \in 0..L /\ m \in Nat
    BY <1>2
  <2>3. m # 0
    <3>1. g[0] = <<>>
      BY <1>1 DEF KeptBy
    <3>2. g[0] = [k \in 1..0 |-> s[w[k]]]
      BY <3>1
    <3>3. \A k \in 1..K : w[k] <= 0 <=> k <= 0
      BY <1>2, <1>3
    <3>4. 0 \in 0..K
      BY <1>2
    <3>5. Fits(0)
      BY <3>2, <3>3, <3>4
    <3> QED BY <3>5
  <2>4. m - 1 \in 0..L /\ m - 1 \notin B /\ m \in 1..L
    <3>1. m - 1 \in 0..L /\ m \in 1..L /\ ~(m <= m - 1)
      BY <1>2, <2>2, <2>3
    <3> HIDE DEF B
    <3> QED BY <2>1, <3>1
  <2>5. PICK c \in 0..K : /\ \A k \in 1..K : w[k] <= m - 1 <=> k <= c
                          /\ g[m - 1] = [k \in 1..c |-> s[w[k]]]
    BY <2>4
  <2>6. g[m] = IF s[m] \in S THEN Append(g[m - 1], s[m]) ELSE g[m - 1]
    BY <1>1, <2>4 DEF KeptBy
  <2>7. CASE s[m] \notin S
    <3>1. \A k \in 1..K : w[k] # m
      BY <1>4, <2>4, <2>7
    <3>2. \A k \in 1..K : w[k] <= m <=> k <= c
      <4> TAKE k \in 1..K
      <4>1. w[k] \in Nat /\ w[k] # m /\ (w[k] <= m - 1 <=> k <= c)
        BY <1>3, <2>5, <3>1
      <4> DEFINE x == w[k]
      <4>2. x \in Nat /\ x # m
        BY <4>1
      <4> HIDE DEF x, B
      <4>3. x <= m <=> x <= m - 1
        BY <2>2, <4>2
      <4> QED BY <4>1, <4>3 DEF x
    <3>3. g[m] = [k \in 1..c |-> s[w[k]]]
      BY <2>5, <2>6, <2>7
    <3>4. Fits(m)
      BY <3>2, <3>3
    <3> QED BY <2>1, <3>4
  <2>8. CASE s[m] \in S
    <3>1. PICK q \in 1..K : w[q] = m
      BY <1>4, <2>4, <2>8
    <3>2. q = c + 1
      <4>1. q > c /\ c + 1 \in 1..K
        BY <1>2, <1>3, <2>2, <2>5, <3>1
      <4>2. c + 1 < q => w[c + 1] < w[q]
        BY <1>5, <4>1
      <4>3. ~(w[c + 1] <= m - 1)
        BY <1>2, <2>5, <4>1
      <4> QED BY <1>2, <1>3, <2>2, <3>1, <4>1, <4>2, <4>3
    <3>3. ASSUME NEW k \in 1..K PROVE w[k] <= m <=> k <= c + 1
      <4>1. CASE k <= c
        <5>1. w[k] <= m - 1
          BY <2>5, <4>1
        <5> QED BY <1>2, <1>3, <2>2, <4>1, <5>1
      <4>2. CASE k = c + 1
        <5>1. w[k] = m /\ m <= m /\ k <= c + 1
          BY <1>2, <2>2, <3>1, <3>2, <4>2
        <5> QED BY <5>1
      <4>3. CASE k > c + 1
        <5>1. w[q] < w[k]
          BY <1>5, <3>2, <4>3
        <5> QED BY <1>2, <1>3, <2>2, <3>1, <4>3, <5>1
      <4> QED BY <1>2, <4>1, <4>2, <4>3
    <3> DEFINE a == g[m - 1]
               y == s[m]
    <3>4. g[m] = Append(a, y) /\ a = [k \in 1..c |-> s[w[k]]] /\ y = s[w[c + 1]]
      BY <2>5, <2>6, <2>8, <3>1, <3>2
    <3> DEFINE T == Range(s) \union {y}
    <3>5. /\ a \in Seq(T) /\ Len(a) = c /\ y \in T /\ c \in Nat /\ \A k \in 1..c : a[k] = s[w[k]]
      <4>1. \A k \in 1..c : k \in 1..K
        BY <1>2
      <4>2. \A k \in 1..c : s[w[k]] \in T
        BY <1>2, <1>3, <4>1 DEF Range
      <4> HIDE DEF T, y
      <4> QED BY <1>2, <3>4, <4>2 DEF T
    <3> HIDE DEF a, y, T
    <3>6. DOMAIN g[m] = 1 .. c + 1 /\ g[m] = [k \in 1 .. c + 1 |-> g[m][k]]
      BY <3>4, <3>5
    <3>7. \A k \in 1 .. c + 1 : g[m][k] = s[w[k]]
      <4> TAKE k \in 1 .. c + 1
      <4>1. CASE k = c + 1
        BY <3>4, <3>5, <4>1
      <4>2. CASE k # c + 1
        <5>0. c \in Nat
          BY <1>2
        <5> HIDE DEF B
        <5>1. k \in 1..c
          BY <4>2, <5>0
        <5>2. Append(a, y)[k] = a[k]
          BY <3>5, <5>1
        <5> QED BY <3>4, <3>5, <5>1, <5>2
      <4> QED BY <4>1, <4>2
    <3>8. g[m] = [k \in 1 .. c + 1 |-> s[w[k]]]
      BY <3>6, <3>7
    <3>9. c + 1 \in 0..K
      BY <1>2, <3>2
    <3>10. Fits(m)
      BY <3>3, <3>8, <3>9
    <3> QED BY <2>1, <3>10
  <2> QED BY <2>7, <2>8
<1>7. Fits(L)
  <2>1. L \in 0..L
    BY <1>2
  <2> QED BY <1>6, <2>1
<1>8. PICK c \in 0..K : /\ \A k \in 1..K : w[k] <= L <=> k <= c
                        /\ g[L] = [k \in 1..c |-> s[w[k]]]
  BY <1>7
<1>9. c = K
  <2>1. K # 0 => w[K] <= L /\ K \in 1..K
    BY <1>2, <1>3
  <2> QED BY <1>2, <1>8, <2>1
<1> QED BY <1>1, <1>8, <1>9 DEF K

----------------------------------------------------------------------------
\* What of a catalog is not private.
HfsSeen(f) == Among(HfsV(f).found, H!Public(HfsV(f).found))
HfsRecorded(f) == \A i \in DOMAIN HfsSeen(f) : HfsSeen(f)[i].id \in DOMAIN HfsV(f).record

LEMMA HfsWritten ==
  ASSUME NEW f, HfsBears(f)
  PROVE  /\ IsSeq(HfsV(f).found) /\ HfsShown(HfsV(f))
         /\ \A x : x \in H!Public(HfsV(f).found) <=> (x \in Range(HfsV(f).found) /\ HfsPublic(x))
<1>1. WrittenVolume(HfsV(f)) /\ HfsV(f).fs = "hfs"
  BY TreesAssumption DEF HfsBears, Bears, HfsV, VolumeAt
<1>2. \A x : HfsPublic(x) <=> ~H!IsHfsPrivate(x.path)
  BY DEF HfsPublic, H!IsHfsPrivate
<1>3. \A x : x \in H!Public(HfsV(f).found) <=> (x \in Range(HfsV(f).found) /\ HfsPublic(x))
  BY <1>2 DEF H!Public, H!Range, Range
<1> QED BY <1>1, <1>3 DEF WrittenVolume

LEMMA HfsSees ==
  ASSUME NEW f, HfsBears(f)
  PROVE  HfsSeen(f) = [k \in 1 .. Len(HfsV(f).shown) |-> HfsV(f).found[HfsV(f).shown[k]]]
<1> DEFINE s == HfsV(f).found
           S == H!Public(s)
           w == HfsV(f).shown
<1>1. /\ IsSeq(s) /\ HfsShown(HfsV(f))
      /\ \A x : x \in S <=> (x \in Range(s) /\ HfsPublic(x))
  BY HfsWritten
<1>2. /\ w \in Seq(DOMAIN s) /\ \A j, k \in DOMAIN w : j < k => w[j] < w[k]
      /\ Range(w) = {i \in DOMAIN s : HfsPublic(s[i])}
  BY <1>1 DEF HfsShown
<1> HIDE DEF s, w, S
<1>3. \A i \in DOMAIN s : s[i] \in S <=> HfsPublic(s[i])
  BY <1>1 DEF Range
<1>4. Range(w) = {i \in DOMAIN s : s[i] \in S}
  BY <1>2, <1>3
<1>5. Among(s, S) = [k \in 1 .. Len(w) |-> s[w[k]]]
  BY <1>1, <1>2, <1>4, AmongShown
<1> QED BY <1>5 DEF HfsSeen, s, w, S

LEMMA HfsIsSeen ==
  /\ H!Signed <=> HfsBears(file)
  /\ H!Volume = HfsV(file) /\ H!Visible = HfsSeen(file)
  /\ H!Recorded <=> HfsRecorded(file)
<1>1. (H!Signed <=> HfsBears(file)) /\ H!Volume = HfsV(file)
  BY DEF H!Signed, HfsBears, Bears, H!Mark, H!Volume, HfsV, VolumeAt, H!ByteAt, ByteAt
<1>2. \A s, S : H!Among(s, S) = Among(s, S)
  BY DEF H!Among, Among
<1>3. H!Visible = HfsSeen(file)
  BY <1>1, <1>2 DEF H!Visible, HfsSeen
<1> QED BY <1>1, <1>3 DEF H!Recorded, HfsRecorded

\* Whatever is not private is seen.
LEMMA HfsMisses == ASSUME NEW f, HfsFails(f), f.path, HfsBears(f), HfsV(f).walks PROVE ~HfsRecorded(f)
<1> DEFINE s == HfsV(f).found
           S == H!Public(s)
<1>1. PICK i \in DOMAIN s : HfsPublic(s[i]) /\ s[i].id \notin DOMAIN HfsV(f).record
  BY DEF HfsFails
<1>2. s[i] \in S /\ IsSeq(s) /\ s[i] \in Range(s)
  BY <1>1, HfsWritten DEF Range
<1>3. s[i] \in Range(HfsSeen(f))
  <2> HIDE DEF S, s
  <2>1. s[i] \in Range(Among(s, S))
    BY <1>2, AmongRange
  <2> QED BY <2>1 DEF HfsSeen, s, S
<1>4. PICK q \in DOMAIN HfsSeen(f) : HfsSeen(f)[q] = s[i]
  BY <1>3 DEF Range
<1> QED BY <1>1, <1>4 DEF HfsRecorded

\* An entry and the member, with what was found of it, that it stands for.
HfsStands(f, x, m) ==
  /\ x.path = m.path /\ x.kind = m.kind
  /\ m.kind = "file" => x.size = Len(m.content)
  /\ m.kind = "link" /\ f.damage = "none" => x.target = m.target
  /\ \E w : x.id = w.id /\ HfsIs(f, m, HfsV(f), w)

HfsErrors == {"Corrupt", "UnknownFormat", "Unsupported"}

HfsInv ==
  /\ file.offset \in Nat /\ file.len \in Nat
  /\ status \in {"new", "open"} \union HfsErrors
  /\ status # "open" => listing = <<>> /\ answers = <<>>
  /\ status \in HfsErrors => ~(HfsOpens(file) /\ HfsRecorded(file))
  /\ status = "open" => file.path /\ HfsBears(file) /\ HfsV(file).walks /\ HfsRecorded(file)
  /\ status = "open" => DOMAIN answers = DOMAIN listing
  /\ status = "open" /\ HfsHolds(file) =>
       /\ Len(listing) = Len(file.members)
       /\ \A i \in DOMAIN listing : HfsStands(file, listing[i], file.members[i])
  /\ HfsHolds(file) => ApfsGiven
  /\ ParentsFirst

LEMMA PackedTail == ASSUME NEW c \in Seq(Nat) PROVE Tail(<<Len(c)>> \o c) = c
<1>0. Len(c) \in Nat
  OBVIOUS
<1> DEFINE b == <<Len(c)>> \o c
<1>1. b \in Seq(Nat) /\ Len(b) = Len(c) + 1 /\ \A k \in 1 .. Len(c) : b[k + 1] = c[k]
  BY <1>0
<1> HIDE DEF b
<1>2. Tail(b) \in Seq(Nat) /\ Len(Tail(b)) = Len(c) /\ \A k \in 1 .. Len(c) : Tail(b)[k] = b[k + 1]
  BY <1>0, <1>1
<1> DEFINE y == Tail(b)
           n == Len(c)
<1>3. y \in Seq(Nat) /\ Len(y) = n /\ \A k \in 1..n : y[k] = c[k]
  BY <1>1, <1>2
<1>4. y = [k \in 1..n |-> y[k]] /\ c = [k \in 1..n |-> c[k]]
  <2> HIDE DEF y
  <2> QED BY <1>3
<1> HIDE DEF y, n
<1>5. y = c
  BY <1>3, <1>4
<1> QED BY <1>5 DEF b, y

\* What the crate reads, when it reads well.
LEMMA HfsGives ==
  ASSUME NEW id, NEW content \in Seq(Nat), HfsBody(file, HfsV(file).record[id], content),
         H!ReadFile(id).said = "ok"
  PROVE  H!ReadFile(id).given = content
<1> DEFINE r == HfsV(file).record[id]
           raw == Bytes(file, file.offset + r.at, r.stored)
<1>1. H!Volume.record[id] = r
  BY HfsIsSeen
<1>2. \A p, n : H!Bytes(file, p, n) = Bytes(file, p, n)
  BY DEF H!Bytes, Bytes, H!ByteAt, ByteAt
<1> HIDE DEF r
<1>3. H!ReadFile(id) = IF ~r.decodes \/ file.offset + r.at + r.stored > file.len
                       THEN H!Answer("Corrupt", <<>>)
                       ELSE H!Answer("ok", IF r.packed THEN Tail(raw) ELSE raw)
  BY <1>1, <1>2 DEF H!ReadFile
<1>4. H!ReadFile(id).given = IF r.packed THEN Tail(raw) ELSE raw
  BY <1>3 DEF H!Answer
<1>5. raw = IF r.packed THEN <<Len(content)>> \o content ELSE content
  BY DEF HfsBody, StoredAs, r
<1> QED BY <1>4, <1>5, PackedTail

LEMMA HfsRefuses ==
  ASSUME HfsInv, NEW error \in HfsErrors, H!Refuse(error), status = "new",
         ~(HfsOpens(file) /\ HfsRecorded(file))
  PROVE  HfsInv'
<1>1. /\ status' = error /\ file' = file /\ listing' = listing /\ answers' = answers
      /\ error # "open" /\ error # "new"
  BY DEF H!Refuse, HfsErrors
<1> QED BY <1>1 DEF HfsInv, ApfsGiven, ParentsFirst

\* What the crate comes by in order is listed in order.
LEMMA HfsPlaces == ASSUME HfsInv, H!Open PROVE ParentsFirst'
<1> DEFINE v == HfsV(file)
           w == v.shown
           n == Len(w)
<1>1. HfsBears(file) /\ HfsRecorded(file) /\ H!Volume = v
      /\ listing' = [i \in DOMAIN HfsSeen(file) |-> H!EntryOf(HfsSeen(file)[i])]
  BY HfsIsSeen DEF H!Open
<1>2. HfsSeen(file) = [k \in 1..n |-> v.found[w[k]]]
  BY <1>1, HfsSees
<1>3. HfsDescends(v) /\ w \in Seq(DOMAIN v.found)
  BY <1>1, TreesAssumption DEF HfsBears, Bears, HfsV, VolumeAt, WrittenVolume, HfsShown
<1>4. n \in Nat /\ DOMAIN w = 1..n
  BY <1>3
<1> HIDE DEF v, w, n
<1>5. ASSUME NEW k \in 1..n
      PROVE  /\ v.found[w[k]].id \in DOMAIN v.record
             /\ listing'[k].path = v.found[w[k]].path
             /\ listing'[k].kind = v.record[v.found[w[k]].id].kind
  <2>1. HfsSeen(file)[k] = v.found[w[k]] /\ k \in DOMAIN HfsSeen(file)
    BY <1>2
  <2>2. v.found[w[k]].id \in DOMAIN v.record
    BY <1>1, <2>1 DEF HfsRecorded, v
  <2>3. listing'[k] = H!EntryOf(v.found[w[k]])
    BY <1>1, <2>1
  <2> DEFINE x == v.found[w[k]]
             r == v.record[x.id]
  <2> HIDE DEF x
  <2>4. H!EntryOf(x) =
          [path |-> x.path, kind |-> r.kind, id |-> x.id,
           size |-> IF r.kind = "file" THEN r.size ELSE 0,
           target |-> IF r.kind = "link" THEN H!ReadFile(x.id).given ELSE <<>>]
    BY <1>1 DEF H!EntryOf
  <2> HIDE DEF r
  <2>5. H!EntryOf(x).path = x.path /\ H!EntryOf(x).kind = r.kind
    BY <2>4
  <2> QED BY <2>2, <2>3, <2>5 DEF x, r
<1>6. DOMAIN listing' = 1..n
  BY <1>1, <1>2
<1>7. ASSUME NEW k \in 1..n
      PROVE  LET path == listing'[k].path IN
             \/ Len(path) = 1
             \/ \E j \in 1 .. k - 1 : /\ listing'[j].kind = "dir"
                                      /\ path = Append(listing'[j].path, path[Len(path)])
  <2> DEFINE path == v.found[w[k]].path
  <2>1. listing'[k].path = path
    BY <1>5
  <2>2. CASE Len(path) = 1
    BY <2>1, <2>2
  <2>3. CASE Len(path) # 1
    <3>1. PICK j \in 1 .. k - 1 :
            /\ path = Append(v.found[w[j]].path, path[Len(path)])
            /\ v.found[w[j]].id \in DOMAIN v.record => v.record[v.found[w[j]].id].kind = "dir"
      BY <1>3, <1>4, <2>3 DEF HfsDescends, w
    <3>2. j \in 1..n
      BY <1>4
    <3> HIDE DEF path
    <3>3. listing'[j].kind = "dir" /\ path = Append(listing'[j].path, path[Len(path)])
      BY <1>5, <3>1, <3>2
    <3> QED BY <2>1, <3>3
  <2> QED BY <2>2, <2>3
<1> QED BY <1>6, <1>7 DEF ParentsFirst

LEMMA HfsOpen == ASSUME HfsInv, H!Open PROVE HfsInv'
<1>1. /\ status = "new" /\ file.path /\ HfsBears(file) /\ HfsV(file).walks /\ HfsRecorded(file)
      /\ listing' = [i \in DOMAIN HfsSeen(file) |-> H!EntryOf(HfsSeen(file)[i])]
      /\ answers' = [i \in DOMAIN HfsSeen(file) |-> H!NotRead]
      /\ status' = "open" /\ file' = file
  BY HfsIsSeen DEF H!Open
<1>2. H!NotRead.said # "ok"
  BY DEF H!NotRead, H!Answer
<1>3. ApfsGiven'
  <2>1. \A i \in DOMAIN answers' : answers'[i].said # "ok"
    BY <1>1, <1>2
  <2> QED BY <2>1 DEF ApfsGiven
<1>4. ASSUME HfsHolds(file)
      PROVE  /\ Len(listing') = Len(file.members)
             /\ \A i \in DOMAIN listing' : HfsStands(file, listing'[i], file.members[i])
  <2> DEFINE v == HfsV(file)
             n == Len(v.shown)
  <2>1. /\ IsSeq(file.members) /\ Len(file.members) = n /\ n \in Nat /\ DOMAIN file.members = 1..n
        /\ \A k \in 1..n : HfsIs(file, file.members[k], v, v.found[v.shown[k]])
    <3>1. /\ IsSeq(file.members) /\ Len(file.members) = Len(v.shown)
          /\ \A k \in DOMAIN file.members : HfsIs(file, file.members[k], v, v.found[v.shown[k]])
      BY <1>1, <1>4 DEF HfsHolds
    <3>2. DOMAIN file.members = 1 .. Len(file.members) /\ Len(file.members) \in Nat
      BY <3>1 DEF IsSeq
    <3> QED BY <3>1, <3>2
  <2>2. DOMAIN HfsSeen(file) = 1..n /\ \A k \in 1..n : HfsSeen(file)[k] = v.found[v.shown[k]]
    BY <1>1, HfsSees
  <2>3. listing' = [i \in 1..n |-> H!EntryOf(HfsSeen(file)[i])]
    BY <1>1, <2>2
  <2>4. Len(listing') = n /\ DOMAIN listing' = 1..n
    BY <2>1, <2>3
  <2>5. ASSUME NEW i \in 1..n PROVE HfsStands(file, listing'[i], file.members[i])
    <3> DEFINE w == v.found[v.shown[i]]
               m == file.members[i]
               r == v.record[w.id]
    <3>1. HfsIs(file, m, v, w) /\ listing'[i] = H!EntryOf(w)
      BY <2>1, <2>2, <2>3
    <3>2. H!Volume = v
      BY HfsIsSeen
    <3> HIDE DEF w
    <3>3. /\ m.path = w.path /\ m.kind = r.kind
          /\ m.kind = "file" => m.content \in Seq(Nat) /\ r.size = Len(m.content)
          /\ m.kind = "link" /\ file.damage = "none" =>
               /\ m.target \in Seq(Nat) /\ r.decodes /\ r.at \in Nat /\ r.stored \in Nat
               /\ file.offset + r.at + r.stored <= file.len
               /\ HfsBody(file, r, m.target)
      BY <3>1 DEF HfsIs
    <3>4. H!EntryOf(w) =
            [path |-> w.path, kind |-> r.kind, id |-> w.id,
             size |-> IF r.kind = "file" THEN r.size ELSE 0,
             target |-> IF r.kind = "link" THEN H!ReadFile(w.id).given ELSE <<>>]
      BY <3>2 DEF H!EntryOf
    <3> HIDE DEF r, m
    <3>5. /\ H!EntryOf(w).path = w.path /\ H!EntryOf(w).kind = r.kind /\ H!EntryOf(w).id = w.id
          /\ r.kind = "file" => H!EntryOf(w).size = r.size
          /\ r.kind = "link" => H!EntryOf(w).target = H!ReadFile(w.id).given
      BY <3>4
    <3>6. ASSUME m.kind = "link", file.damage = "none" PROVE H!ReadFile(w.id).given = m.target
      <4>1. ~(file.offset + r.at + r.stored > file.len) => H!ReadFile(w.id).said = "ok"
        BY <3>2, <3>3, <3>6 DEF H!ReadFile, H!Answer, r
      <4>2. HfsBody(file, HfsV(file).record[w.id], m.target) /\ m.target \in Seq(Nat)
        BY <3>3, <3>6 DEF r
      <4>3. H!ReadFile(w.id).said = "ok"
        <5>1. ~(file.offset + r.at + r.stored > file.len)
          BY <3>3, <3>6 DEF HfsInv
        <5> QED BY <4>1, <5>1
      <4> QED BY <4>2, <4>3, HfsGives
    <3> QED BY <3>1, <3>3, <3>5, <3>6 DEF HfsStands, m
  <2> QED BY <2>1, <2>4, <2>5
<1>5. DOMAIN answers' = DOMAIN listing'
  BY <1>1
<1>6. "open" \notin HfsErrors
  BY DEF HfsErrors
<1> QED BY <1>1, <1>3, <1>4, <1>5, <1>6, HfsPlaces DEF HfsInv

LEMMA HfsReads == ASSUME HfsInv, NEW i \in DOMAIN listing, H!ReadEntry(i) PROVE HfsInv'
<1> DEFINE a == IF listing[i].kind # "file" THEN H!Answer("ok", <<>>) ELSE H!ReadFile(listing[i].id)
<1>1. /\ status = "open" /\ status' = status /\ listing' = listing /\ file' = file
      /\ answers' = [answers EXCEPT ![i] = a]
  BY DEF H!ReadEntry
<1>2. DOMAIN answers = DOMAIN listing /\ DOMAIN answers' = DOMAIN listing
  BY <1>1 DEF HfsInv
<1>3. ASSUME HfsHolds(file) PROVE ApfsGiven'
  <2>1. ASSUME a.said = "ok", listing[i].kind = "file" PROVE a.given = file.members[i].content
    <3>1. HfsStands(file, listing[i], file.members[i])
      BY <1>1, <1>3 DEF HfsInv
    <3>2. PICK w : listing[i].id = w.id /\ HfsIs(file, file.members[i], HfsV(file), w)
      BY <3>1 DEF HfsStands
    <3>3. /\ file.members[i].kind = "file" /\ file.members[i].content \in Seq(Nat)
          /\ HfsBody(file, HfsV(file).record[listing[i].id], file.members[i].content)
      BY <2>1, <3>1, <3>2 DEF HfsStands, HfsIs
    <3> QED BY <2>1, <3>3, HfsGives
  <2> HIDE DEF a
  <2> SUFFICES ASSUME NEW k \in DOMAIN answers', answers'[k].said = "ok", listing[k].kind = "file"
               PROVE  answers'[k].given = file.members[k].content
    BY <1>1 DEF ApfsGiven
  <2>2. CASE k = i
    <3>1. answers'[k] = a
      BY <1>1, <1>2, <2>2
    <3> QED BY <2>1, <2>2, <3>1
  <2>3. CASE k # i
    BY <1>1, <1>2, <1>3, <2>3 DEF HfsInv, ApfsGiven
  <2> QED BY <2>2, <2>3
<1>4. "open" \notin HfsErrors
  BY DEF HfsErrors
<1> QED BY <1>1, <1>2, <1>3, <1>4 DEF HfsInv, ParentsFirst

LEMMA HfsNext == ASSUME HfsInv, H!Next PROVE HfsInv'
<1>1. CASE H!RefusePathless \/ H!RefuseUnsigned \/ H!RefuseCatalog
  <2>1. PICK error \in HfsErrors : H!Refuse(error) /\ status = "new"
    BY <1>1 DEF H!RefusePathless, H!RefuseUnsigned, H!RefuseCatalog, HfsErrors
  <2>2. ~(HfsOpens(file) /\ HfsRecorded(file))
    BY <1>1, HfsIsSeen DEF H!RefusePathless, H!RefuseUnsigned, H!RefuseCatalog, HfsOpens
  <2> QED BY <2>1, <2>2, HfsRefuses
<1> QED BY <1>1, HfsOpen, HfsReads DEF H!Next

LEMMA HfsSame == ASSUME HfsInv, UNCHANGED vars PROVE HfsInv'
<1>1. file' = file /\ listing' = listing /\ status' = status /\ answers' = answers
  BY DEF vars
<1> QED BY <1>1 DEF HfsInv, ApfsGiven, ParentsFirst

LEMMA HfsFresh == Fresh /\ ApfsImage(file) => HfsInv
<1> SUFFICES ASSUME Fresh, ApfsImage(file) PROVE HfsInv
  OBVIOUS
<1>1. listing = <<>> /\ status = "new" /\ answers = <<>> /\ file.offset \in Nat /\ file.len \in Nat
  BY DEF Fresh, ApfsImage
<1> QED BY <1>1 DEF HfsInv, HfsErrors, ApfsGiven, ParentsFirst

\* A volume of which everything shown is a member has a record of it all.
LEMMA HfsWhole == ASSUME NEW f, HfsHolds(f), HfsBears(f) PROVE HfsRecorded(f)
<1> DEFINE v == HfsV(f)
<1>1. /\ IsSeq(f.members) /\ Len(f.members) = Len(v.shown)
      /\ \A k \in DOMAIN f.members : HfsIs(f, f.members[k], v, v.found[v.shown[k]])
  BY DEF HfsHolds
<1>2. DOMAIN f.members = 1 .. Len(v.shown)
  BY <1>1 DEF IsSeq
<1>3. DOMAIN HfsSeen(f) = 1 .. Len(v.shown)
      /\ \A k \in 1 .. Len(v.shown) : HfsSeen(f)[k] = v.found[v.shown[k]]
  BY HfsSees
<1> QED BY <1>1, <1>2, <1>3 DEF HfsRecorded, HfsIs

LEMMA HfsShows ==
  ASSUME HfsInv
  PROVE  /\ HfsFails(file) => status # "open"
         /\ HfsHolds(file) => ApfsGiven
         /\ HfsHolds(file) =>
              /\ HfsOpens(file) => status \notin HfsErrors
              /\ file.damage = "none" => \A k \in DOMAIN listing : Matches(listing[k], Member(k))
              /\ status = "open" => Len(listing) = Len(file.members)
         /\ status # "open" => listing = <<>> /\ answers = <<>>
         /\ status \in {"new", "open"} \union HfsErrors
<1>1. ASSUME HfsFails(file) PROVE status # "open"
  BY <1>1, HfsMisses DEF HfsInv
<1>2. ASSUME HfsHolds(file)
      PROVE  /\ HfsOpens(file) => status \notin HfsErrors
             /\ file.damage = "none" => \A k \in DOMAIN listing : Matches(listing[k], Member(k))
             /\ status = "open" => Len(listing) = Len(file.members)
  <2>1. HfsOpens(file) => HfsRecorded(file)
    BY <1>2, HfsWhole DEF HfsOpens
  <2>2. ASSUME file.damage = "none", NEW k \in DOMAIN listing PROVE Matches(listing[k], Member(k))
    <3>1. status = "open"
      BY DEF HfsInv
    <3>2. HfsStands(file, listing[k], file.members[k])
      BY <1>2, <3>1 DEF HfsInv
    <3> QED BY <2>2, <3>2 DEF HfsStands, Matches, Member
  <2> QED BY <1>2, <2>1, <2>2 DEF HfsInv
<1> QED BY <1>1, <1>2 DEF HfsInv

----------------------------------------------------------------------------
(***************************************************************************)
(* Dmg.  Where in a raw image a volume may begin.                          *)
(***************************************************************************)
LEMMA TailIs ==
  ASSUME NEW w, IsSeq(w), w # <<>>
  PROVE  /\ IsSeq(Tail(w)) /\ w[1] \in Range(w)
         /\ \A x : x \in Range(w) <=> x = w[1] \/ x \in Range(Tail(w))
<1> DEFINE n == Len(w)
           r == Tail(w)
<1>1. w \in Seq(Range(w)) /\ n \in Nat \ {0} /\ DOMAIN w = 1..n
  BY DEF IsSeq
<1>2. r \in Seq(Range(w)) /\ Len(r) = n - 1 /\ \A i \in 1 .. n - 1 : r[i] = w[i + 1]
  BY <1>1
<1>3. DOMAIN r = 1 .. n - 1
  BY <1>1, <1>2
<1> HIDE DEF r, n
<1>4. IsSeq(r)
  BY <1>2, SeqIsSeq
<1>5. 1 \in 1..n
  BY <1>1
<1>6. ASSUME NEW x PROVE x \in Range(w) <=> x = w[1] \/ x \in Range(r)
  <2>1. x \in Range(w) <=> \E i \in 1..n : w[i] = x
    BY <1>1 DEF Range
  <2>2. x \in Range(r) <=> \E i \in 1 .. n - 1 : w[i + 1] = x
    BY <1>2, <1>3 DEF Range
  <2>3. ASSUME NEW i \in 1..n, w[i] = x, x # w[1] PROVE \E j \in 1 .. n - 1 : w[j + 1] = x
    <3>1. i - 1 \in 1 .. n - 1 /\ (i - 1) + 1 = i
      BY <1>1, <2>3
    <3> QED BY <2>3, <3>1
  <2>4. ASSUME NEW j \in 1 .. n - 1, w[j + 1] = x PROVE \E i \in 1..n : w[i] = x
    <3>1. j + 1 \in 1..n
      BY <1>1
    <3> QED BY <2>4, <3>1
  <2> QED BY <1>5, <2>1, <2>2, <2>3, <2>4
<1>7. w[1] \in Range(w)
  BY <1>1, <1>5 DEF Range
<1> QED BY <1>4, <1>6, <1>7 DEF r

----------------------------------------------------------------------------
\* The sectors of a raw image, and where a volume may begin in it.
LEMMA SectorsArePlaces ==
  ASSUME NEW raw, raw.len \in Nat, NEW fs \in {"hfs", "apfs"}
  PROVE  /\ IsSeq(D!Sectors(raw, fs))
         /\ \A p : p \in Range(D!Sectors(raw, fs)) <=> p \in Place(raw) /\ p.fs = fs
<1> DEFINE n == raw.len \div SectorSize
           s == D!Sectors(raw, fs)
           one(k) == [fs |-> fs, offset |-> (k - 1) * SectorSize]
<1>1. n \in Nat
  BY TreesAssumption
<1>2. s = [k \in 1 .. n + 1 |-> one(k)]
  BY DEF D!Sectors
<1>3. Place(raw) = [fs : {"hfs", "apfs"}, offset : {x * SectorSize : x \in 0..n}]
  BY DEF Place
<1> HIDE DEF n, s
<1>4. \A k \in 1 .. n + 1 : one(k) \in {one(i) : i \in 1 .. n + 1}
  OBVIOUS
<1>5. s \in Seq({one(i) : i \in 1 .. n + 1}) /\ DOMAIN s = 1 .. n + 1
  <2>1. n + 1 \in Nat
    BY <1>1
  <2> DEFINE T == {one(i) : i \in 1 .. n + 1}
             m == n + 1
  <2>2. s = [k \in 1..m |-> s[k]] /\ \A k \in 1..m : s[k] \in T
    BY <1>2, <1>4
  <2> HIDE DEF T, m
  <2>3. s \in Seq(T) /\ DOMAIN s = 1..m
    BY <2>1, <2>2 DEF m
  <2> QED BY <2>3 DEF T, m
<1>6. IsSeq(s)
  BY <1>5, SeqIsSeq
<1>7. ASSUME NEW p PROVE p \in Range(s) <=> \E k \in 1 .. n + 1 : p = one(k)
  BY <1>2, <1>5 DEF Range
<1>8. ASSUME NEW k \in 1 .. n + 1 PROVE one(k) \in Place(raw) /\ one(k).fs = fs
  <2>1. k - 1 \in 0..n
    BY <1>1
  <2>2. (k - 1) * SectorSize \in {x * SectorSize : x \in 0..n}
    BY <2>1
  <2> QED BY <1>3, <2>2
<1>9. ASSUME NEW p, p \in Place(raw), p.fs = fs PROVE \E k \in 1 .. n + 1 : p = one(k)
  <2>1. PICK x \in 0..n : p.offset = x * SectorSize
    BY <1>3, <1>9
  <2>2. p = [fs |-> fs, offset |-> x * SectorSize]
    BY <1>3, <1>9, <2>1
  <2>3. x + 1 \in 1 .. n + 1 /\ (x + 1) - 1 = x
    BY <1>1
  <2>4. p = one(x + 1)
    BY <2>2, <2>3
  <2> QED BY <2>3, <2>4
<1>10. ASSUME NEW p PROVE p \in Range(s) <=> p \in Place(raw) /\ p.fs = fs
  BY <1>7, <1>8, <1>9
<1> QED BY <1>6, <1>10 DEF s

LEMMA PlaceIs ==
  ASSUME NEW raw, raw.len \in Nat, NEW p \in Place(raw)
  PROVE  /\ p.fs \in {"hfs", "apfs"} /\ p.offset \in Nat
         /\ p = [fs |-> p.fs, offset |-> p.offset]
<1> DEFINE n == raw.len \div SectorSize
<1>1. n \in Nat /\ SectorSize \in Nat
  BY TreesAssumption
<1>2. p \in [fs : {"hfs", "apfs"}, offset : {x * SectorSize : x \in 0..n}]
  BY DEF Place
<1> HIDE DEF n
<1>3. PICK x \in 0..n : p.offset = x * SectorSize
  BY <1>2
<1>4. x \in Nat
  BY <1>1
<1>5. p.offset \in Nat
  BY <1>1, <1>3, <1>4
<1> QED BY <1>2, <1>5

\* What is tried is a place, and every place with a mark is tried.
Marked(raw, p, at) ==
  /\ p.offset + at < raw.len
  /\ ByteAt(raw, p.offset + at) \in DOMAIN Volumes
  /\ Volumes[ByteAt(raw, p.offset + at)].fs = p.fs

LEMMA SweepIs ==
  ASSUME NEW raw, raw.len \in Nat, NEW fs \in {"hfs", "apfs"}, NEW at
  PROVE  /\ IsSeq(D!Sweep(raw, fs, at))
         /\ \A p : p \in Range(D!Sweep(raw, fs, at)) <=>
                     p \in Place(raw) /\ p.fs = fs /\ Marked(raw, p, at)
<1> DEFINE s == D!Sectors(raw, fs)
           S == D!Hits(raw, fs, at)
<1>1. IsSeq(s) /\ \A p : p \in Range(s) <=> p \in Place(raw) /\ p.fs = fs
  BY SectorsArePlaces
<1>2. ASSUME NEW p PROVE p \in S <=> (p \in Range(s) /\ p.offset + at < raw.len
                           /\ ByteAt(raw, p.offset + at) \in DOMAIN Volumes
                           /\ Volumes[ByteAt(raw, p.offset + at)].fs = fs)
  BY DEF D!Hits, D!ByteAt, ByteAt, D!Range, Range
<1>3. ASSUME NEW p PROVE p \in Range(s) /\ p \in S <=> p \in Place(raw) /\ p.fs = fs /\ Marked(raw, p, at)
  <2> HIDE DEF s, S
  <2> QED BY <1>1, <1>2 DEF Marked
<1>4. D!Sweep(raw, fs, at) = Among(s, S)
  BY DEF D!Sweep, D!Among, Among
<1> HIDE DEF s, S
<1>5. IsSeq(Among(s, S)) /\ \A p : p \in Range(Among(s, S)) <=> p \in Range(s) /\ p \in S
  BY <1>1, AmongRange
<1> QED BY <1>3, <1>4, <1>5

LEMMA CandidatesAre ==
  ASSUME NEW raw, raw.len \in Nat
  PROVE  /\ IsSeq(D!Candidates(raw)) /\ D!Candidates(raw) # <<>>
         /\ \A p \in Range(D!Candidates(raw)) : p \in Place(raw)
         /\ \A p \in Place(raw) :
              \/ p.fs = "apfs" /\ Marked(raw, p, ApfsMagicAt)
              \/ p.fs = "hfs" /\ Marked(raw, p, VolumeHeaderAt)
              => p \in Range(D!Candidates(raw))
<1> DEFINE h == [fs |-> "hfs", offset |-> 0]
           a == [fs |-> "apfs", offset |-> 0]
           s0 == <<h, a>>
           s1 == D!Sweep(raw, "apfs", ApfsMagicAt)
           s2 == D!Sweep(raw, "hfs", VolumeHeaderAt)
<1>1. D!Candidates(raw) = (s0 \o s1) \o s2
  BY DEF D!Candidates
<1>2. h \in Place(raw) /\ a \in Place(raw)
  <2> DEFINE n == raw.len \div SectorSize
  <2>1. n \in Nat /\ SectorSize \in Nat
    BY TreesAssumption
  <2>2. 0 \in 0..n /\ 0 = 0 * SectorSize
    BY <2>1
  <2>3. 0 \in {x * SectorSize : x \in 0..n}
    BY <2>2
  <2> QED BY <2>3 DEF Place
<1>3. /\ IsSeq(s1) /\ IsSeq(s2)
      /\ \A p : p \in Range(s1) <=> p \in Place(raw) /\ p.fs = "apfs" /\ Marked(raw, p, ApfsMagicAt)
      /\ \A p : p \in Range(s2) <=> p \in Place(raw) /\ p.fs = "hfs" /\ Marked(raw, p, VolumeHeaderAt)
  BY SweepIs
<1> HIDE DEF h, a, s1, s2
<1>4. /\ IsSeq(s0) /\ \A p : p \in Range(s0) <=> p = h \/ p = a
  <2>1. s0 \in Seq({h, a}) /\ DOMAIN s0 = 1..2 /\ s0[1] = h /\ s0[2] = a
    OBVIOUS
  <2>2. IsSeq(s0)
    BY <2>1, SeqIsSeq
  <2> HIDE DEF s0
  <2> QED BY <2>1, <2>2 DEF Range
<1> HIDE DEF s0
<1>5. /\ IsSeq(s0 \o s1) /\ \A p : p \in Range(s0 \o s1) <=> p \in Range(s0) \/ p \in Range(s1)
  BY <1>3, <1>4, ConcatIs
<1>6. /\ IsSeq((s0 \o s1) \o s2)
      /\ \A p : p \in Range((s0 \o s1) \o s2) <=> p \in Range(s0 \o s1) \/ p \in Range(s2)
  BY <1>3, <1>5, ConcatIs
<1> DEFINE c == D!Candidates(raw)
<1> HIDE DEF c
<1>7. IsSeq(c) /\ \A p : p \in Range(c) <=> p = h \/ p = a \/ p \in Range(s1) \/ p \in Range(s2)
  BY <1>1, <1>4, <1>5, <1>6 DEF c
<1>8. c # <<>>
  <2>1. h \in Range(c)
    BY <1>7
  <2> QED BY <2>1 DEF Range
<1>9. \A p \in Range(c) : p \in Place(raw)
  BY <1>2, <1>3, <1>7
<1>10. ASSUME NEW p \in Place(raw),
              \/ p.fs = "apfs" /\ Marked(raw, p, ApfsMagicAt)
              \/ p.fs = "hfs" /\ Marked(raw, p, VolumeHeaderAt)
       PROVE  p \in Range(c)
  BY <1>3, <1>7, <1>10
<1> QED BY <1>7, <1>8, <1>9, <1>10 DEF c

----------------------------------------------------------------------------
(***************************************************************************)
(* Dmg.  The raw image while it is written, and the volumes that are tried. *)
(***************************************************************************)
\* What is known of a raw image while it is written: it is the one that was
\* packed, but for the parts of the chunks still to come.
Agrees(f, raw, todo) ==
  /\ raw.len \in Nat /\ raw.len <= f.raw.len
  /\ raw.byte = [q \in DOMAIN raw.byte |-> raw.byte[q]]
  /\ \A q \in DOMAIN raw.byte : q \in DOMAIN f.raw.byte /\ raw.byte[q] = f.raw.byte[q]
  /\ \A q \in DOMAIN f.raw.byte :
       q \in DOMAIN raw.byte \/ \E c \in Filled(f) : c \in todo /\ q \in Part(f, c)
  /\ \/ raw.len = f.raw.len
     \/ \E c \in Filled(f) : c \in todo /\ f.raw.len = Onto(f, c) + Span(c)

LEMMA WritesNothing ==
  ASSUME NEW f, DmgPacks(f)
  PROVE  Agrees(f, [len |-> D!RawLen(f.plist.tables), byte |-> <<>>], Range(Chunks(f)))
<1> DEFINE n == D!RawLen(f.plist.tables)
           T == Range(Chunks(f))
           raw == [len |-> n, byte |-> <<>>]
<1>1. n \in 0 .. f.raw.len /\ f.raw.len \in Nat
  BY DEF DmgPacks
<1>2. \A c \in Filled(f) : c \in T
  BY DEF Filled
<1>3. \A q \in DOMAIN f.raw.byte : \E c \in Filled(f) : q \in Part(f, c)
  BY DEF DmgPacks
<1>4. f.raw.len = n \/ \E c \in Filled(f) : f.raw.len = Onto(f, c) + Span(c)
  BY DEF DmgPacks
<1> HIDE DEF n, T
<1>5. raw.len = n /\ raw.byte = <<>> /\ DOMAIN raw.byte = {}
  OBVIOUS
<1>6. raw.byte = [q \in DOMAIN raw.byte |-> raw.byte[q]]
  BY <1>5
<1> HIDE DEF raw
<1>7. n \in Nat /\ n <= f.raw.len
  BY <1>1
<1>8. Agrees(f, raw, T)
  BY <1>2, <1>3, <1>4, <1>5, <1>6, <1>7 DEF Agrees
<1> QED BY <1>8 DEF raw, n, T

LEMMA WritesPart ==
  ASSUME NEW f, DmgPacks(f), NEW c \in Filled(f), NEW raw, NEW T, NEW U, Agrees(f, raw, T),
         \A x \in T : x = c \/ x \in U
  PROVE  Agrees(f, D!Write(raw, Onto(f, c), Bytes(f.raw, Onto(f, c), Span(c))), U)
<1> DEFINE p == Onto(f, c)
           n == Span(c)
           bytes == Bytes(f.raw, p, n)
           ones == {k \in DOMAIN bytes : bytes[k] # 0}
           kept == {q \in DOMAIN raw.byte : q < p \/ q >= p + Len(bytes)}
           all == kept \union {p + k - 1 : k \in ones}
           w == D!Write(raw, p, bytes)
           r == f.raw
<1>1. p \in Nat /\ n \in Nat /\ p + n <= r.len /\ r.len \in Nat
  BY DEF DmgPacks
<1>2. \A q \in DOMAIN r.byte : q \in Nat /\ r.byte[q] \in Nat /\ r.byte[q] # 0
  BY DEF DmgPacks, Sparse
<1>3. Part(f, c) = p .. p + n - 1
  BY DEF Part
<1>4. bytes = [k \in 1..n |-> ByteAt(r, p + k - 1)]
  BY DEF Bytes
<1>5. \A q : ByteAt(r, q) = IF q \in DOMAIN r.byte THEN r.byte[q] ELSE 0
  BY DEF ByteAt
<1>6. w.len = D!Larger(raw.len, p + Len(bytes))
      /\ w.byte = [q \in all |-> IF q \in kept THEN raw.byte[q] ELSE bytes[q - p + 1]]
  BY DEF D!Write
<1> HIDE DEF p, n, r, bytes, w
<1>7. Len(bytes) = n /\ DOMAIN bytes = 1..n
  BY <1>1, <1>4
<1>8. /\ raw.len \in Nat /\ raw.len <= r.len
      /\ \A q \in DOMAIN raw.byte : q \in DOMAIN r.byte /\ raw.byte[q] = r.byte[q]
      /\ \A q \in DOMAIN r.byte :
           q \in DOMAIN raw.byte \/ \E d \in Filled(f) : d \in T /\ q \in Part(f, d)
      /\ \/ raw.len = r.len
         \/ \E d \in Filled(f) : d \in T /\ r.len = Onto(f, d) + Span(d)
  BY DEF Agrees, r
<1>9. /\ w.len \in Nat /\ w.len <= r.len
      /\ \/ w.len = r.len
         \/ \E d \in Filled(f) : d \in U /\ r.len = Onto(f, d) + Span(d)
  <2>1. w.len = IF raw.len > p + n THEN raw.len ELSE p + n
    BY <1>6, <1>7 DEF D!Larger
  <2>2. w.len \in Nat /\ w.len <= r.len
    BY <1>1, <1>8, <2>1
  <2>3. CASE raw.len = r.len
    BY <1>1, <1>8, <2>1, <2>3
  <2>4. CASE \E d \in Filled(f) : d \in T /\ r.len = Onto(f, d) + Span(d)
    <3>1. PICK d \in Filled(f) : d \in T /\ r.len = Onto(f, d) + Span(d)
      BY <2>4
    <3>2. CASE d = c
      <4>1. r.len = p + n
        BY <3>1, <3>2 DEF p, n
      <4> QED BY <1>1, <1>8, <2>1, <2>2, <4>1
    <3> QED BY <2>2, <3>1, <3>2
  <2> QED BY <1>8, <2>2, <2>3, <2>4
<1>10. ASSUME NEW q, q \in all, q \notin kept
       PROVE  q \in DOMAIN r.byte /\ bytes[q - p + 1] = r.byte[q] /\ q \in p .. p + n - 1
  <2>1. PICK k \in ones : q = p + k - 1
    BY <1>10
  <2>2. k \in 1..n /\ bytes[k] # 0 /\ k \in Nat
    BY <1>1, <1>7
  <2>3. q - p + 1 = k /\ q \in p .. p + n - 1
    BY <1>1, <2>1, <2>2
  <2>4. bytes[k] = ByteAt(r, q)
    BY <1>4, <2>1, <2>2
  <2> QED BY <1>5, <2>2, <2>3, <2>4
<1>11. ASSUME NEW q, q \in DOMAIN r.byte, q \in p .. p + n - 1 PROVE q \in all
  <2>1. q - p + 1 \in 1..n /\ p + (q - p + 1) - 1 = q
    BY <1>1, <1>11
  <2>2. bytes[q - p + 1] = ByteAt(r, q)
    BY <1>4, <2>1
  <2>3. q - p + 1 \in ones
    BY <1>2, <1>5, <1>7, <1>11, <2>1, <2>2
  <2> QED BY <2>1, <2>3
<1>12. ASSUME NEW q, q \in DOMAIN raw.byte, q \notin p .. p + n - 1 PROVE q \in all
  <2>1. q \in Nat
    BY <1>2, <1>8, <1>12
  <2>2. q < p \/ q >= p + n
    BY <1>1, <1>12, <2>1
  <2> QED BY <1>7, <1>12, <2>2
<1>13. \A q \in kept : q \in DOMAIN raw.byte /\ q \in all
  OBVIOUS
<1> HIDE DEF all, kept, ones
<1>14. DOMAIN w.byte = all /\ w.byte = [q \in DOMAIN w.byte |-> w.byte[q]]
  BY <1>6
<1>15. ASSUME NEW q \in DOMAIN w.byte PROVE q \in DOMAIN r.byte /\ w.byte[q] = r.byte[q]
  <2>1. q \in all /\ w.byte[q] = IF q \in kept THEN raw.byte[q] ELSE bytes[q - p + 1]
    BY <1>6, <1>14
  <2>2. CASE q \in kept
    BY <1>8, <1>13, <2>1, <2>2
  <2>3. CASE q \notin kept
    BY <1>10, <2>1, <2>3
  <2> QED BY <2>2, <2>3
<1>16. ASSUME NEW q \in DOMAIN r.byte
       PROVE  q \in DOMAIN w.byte \/ \E d \in Filled(f) : d \in U /\ q \in Part(f, d)
  <2>1. CASE q \in p .. p + n - 1
    BY <1>11, <1>14, <2>1
  <2>2. CASE q \notin p .. p + n - 1
    <3>1. CASE q \in DOMAIN raw.byte
      BY <1>12, <1>14, <2>2, <3>1
    <3>2. CASE \E d \in Filled(f) : d \in T /\ q \in Part(f, d)
      <4>1. PICK d \in Filled(f) : d \in T /\ q \in Part(f, d)
        BY <3>2
      <4>2. d # c
        BY <1>3, <2>2, <4>1
      <4> QED BY <4>1, <4>2
    <3> QED BY <1>8, <3>1, <3>2
  <2> QED BY <2>1, <2>2
<1>17. Agrees(f, w, U)
  BY <1>9, <1>14, <1>15, <1>16 DEF Agrees, r
<1> QED BY <1>17 DEF w, p, n, bytes, r

LEMMA WritesLess ==
  ASSUME NEW f, NEW raw, NEW T, NEW U, Agrees(f, raw, T), NEW c, c \notin Filled(f),
         \A x \in T : x = c \/ x \in U
  PROVE  Agrees(f, raw, U)
<1>1. ASSUME NEW d \in Filled(f), d \in T PROVE d \in U
  BY <1>1
<1> QED BY <1>1 DEF Agrees

LEMMA WritesAll ==
  ASSUME NEW f, DmgPacks(f), NEW raw, Agrees(f, raw, {})
  PROVE  raw.len = f.raw.len /\ raw.byte = f.raw.byte
<1>1. raw.len = f.raw.len /\ DOMAIN raw.byte = DOMAIN f.raw.byte
  BY DEF Agrees
<1>2. f.raw.byte = [q \in DOMAIN f.raw.byte |-> f.raw.byte[q]]
  BY DEF DmgPacks, Sparse
<1>3. raw.byte = [q \in DOMAIN f.raw.byte |-> raw.byte[q]]
  BY <1>1 DEF Agrees
<1>4. \A q \in DOMAIN f.raw.byte : raw.byte[q] = f.raw.byte[q]
  BY <1>1 DEF Agrees
<1> DEFINE S == DOMAIN f.raw.byte
           a == raw.byte
           b == f.raw.byte
<1> HIDE DEF S, a, b
<1>5. a = [q \in S |-> a[q]] /\ b = [q \in S |-> b[q]] /\ \A q \in S : a[q] = b[q]
  BY <1>2, <1>3, <1>4 DEF S, a, b
<1>6. a = b
  BY <1>5
<1> QED BY <1>1, <1>6 DEF a, b

----------------------------------------------------------------------------
\* The volumes that are tried: an image at the place a volume may begin.
Tried(f, raw, tries) ==
  [format |-> tries[1].fs, offset |-> tries[1].offset, tries |-> Tail(tries),
   len |-> raw.len, byte |-> raw.byte, path |-> TRUE, inside |-> TRUE,
   members |-> f.members, damage |-> f.damage]

Hopes(f, raw, ps) ==
  \/ /\ f.damage = "none"
     /\ \E v \in ps : /\ Opens(Mounts(f, raw, v)) /\ Holds(Mounts(f, raw, v))
                      /\ \A p \in ps \ {v} : Fails(Mounts(f, raw, p))
  \/ f.damage = "told" /\ \A p \in ps : Fails(Mounts(f, raw, p))

Here(f) == [fs |-> f.format, offset |-> f.offset]

Trial(f) ==
  /\ HasFields(f, {"format", "offset", "inside", "members", "damage"})
  /\ f.inside = TRUE /\ f.path = TRUE
  /\ f.len \in Nat /\ Sparse(f.byte, Nat)
  /\ IsSeq(f.tries) /\ \A p \in Range(f.tries) : p \in Place(f)
  /\ f.format \in {"hfs", "apfs"} /\ f.offset \in Nat
  /\ Hopes(f, f, {Here(f)} \union Range(f.tries))

\* Whether a volume opens says only the image and where it begins.
LEMMA SameVolume ==
  ASSUME NEW f, NEW g, f.format = g.format, f.offset = g.offset, f.len = g.len, f.byte = g.byte,
         f.path = g.path, f.members = g.members, f.damage = g.damage
  PROVE  (Opens(f) <=> Opens(g)) /\ (Holds(f) <=> Holds(g)) /\ (Fails(f) <=> Fails(g))
<1>1. \A p : ByteAt(f, p) = ByteAt(g, p)
  BY DEF ByteAt
<1>2. \A p, n : Bytes(f, p, n) = Bytes(g, p, n)
  BY <1>1 DEF Bytes
<1>3. \A at : VolumeAt(f, at) = VolumeAt(g, at) /\ \A fs : Bears(f, at, fs) <=> Bears(g, at, fs)
  BY <1>1 DEF VolumeAt, Bears
<1>4. /\ ApfsV(f) = ApfsV(g) /\ (ApfsBears(f) <=> ApfsBears(g)) /\ ApfsT(f) = ApfsT(g)
      /\ HfsV(f) = HfsV(g) /\ (HfsBears(f) <=> HfsBears(g))
  BY <1>3 DEF ApfsV, ApfsBears, ApfsT, HfsV, HfsBears
<1>5. \A v : ApfsBodies(f, v) <=> ApfsBodies(g, v)
  BY <1>2 DEF ApfsBodies
<1>6. \A r, content : HfsBody(f, r, content) <=> HfsBody(g, r, content)
  BY <1>2 DEF HfsBody
<1>7. \A m, v, w : HfsIs(f, m, v, w) <=> HfsIs(g, m, v, w)
  BY <1>6 DEF HfsIs
<1>8. Opens(f) <=> Opens(g)
  BY <1>4 DEF Opens, ApfsOpens, HfsOpens
<1>9. Holds(f) <=> Holds(g)
  <2>1. ApfsHolds(f) <=> ApfsHolds(g)
    BY <1>4, <1>5 DEF ApfsHolds
  <2>2. HfsHolds(f) <=> HfsHolds(g)
    BY <1>4, <1>7 DEF HfsHolds
  <2> QED BY <2>1, <2>2 DEF Holds
<1>10. Fails(f) <=> Fails(g)
  <2>1. ApfsFails(f) <=> ApfsFails(g)
    BY <1>4 DEF ApfsFails
  <2>2. HfsFails(f) <=> HfsFails(g)
    BY <1>4 DEF HfsFails
  <2> QED BY <2>1, <2>2 DEF Fails
<1> QED BY <1>8, <1>9, <1>10

LEMMA TrialStarts ==
  ASSUME NEW f, NEW raw, NEW w, IsSeq(w), w # <<>>, raw.len \in Nat, Sparse(raw.byte, Nat),
         \A p \in Range(w) : p \in Place(raw), Hopes(f, raw, Range(w))
  PROVE  Trial(Tried(f, raw, w)) /\ ApfsImage(Tried(f, raw, w))
<1> DEFINE t == Tried(f, raw, w)
<1>1. /\ t.format = w[1].fs /\ t.offset = w[1].offset /\ t.tries = Tail(w) /\ t.len = raw.len
      /\ t.byte = raw.byte /\ t.path = TRUE /\ t.inside = TRUE /\ t.members = f.members
      /\ t.damage = f.damage
  BY DEF Tried
<1>2. HasFields(t, {"format", "offset", "inside", "members", "damage"})
  BY DEF Tried, HasFields
<1> HIDE DEF t
<1>3. /\ IsSeq(t.tries) /\ w[1] \in Range(w)
      /\ \A x : x \in Range(w) <=> x = w[1] \/ x \in Range(t.tries)
  BY <1>1, TailIs
<1>4. /\ w[1].fs \in {"hfs", "apfs"} /\ w[1].offset \in Nat
      /\ w[1] = [fs |-> w[1].fs, offset |-> w[1].offset]
  BY <1>3, PlaceIs
<1>5. Here(t) = w[1]
  BY <1>1, <1>4 DEF Here
<1>6. {Here(t)} \union Range(t.tries) = Range(w)
  BY <1>3, <1>5
<1>7. \A p : Mounts(t, t, p) = Mounts(f, raw, p)
  BY <1>1 DEF Mounts
<1>8. Hopes(t, t, Range(w))
  BY <1>1, <1>7 DEF Hopes
<1>9. \A p \in Range(t.tries) : p \in Place(t)
  BY <1>1, <1>3 DEF Place
<1>10. Trial(t)
  BY <1>1, <1>2, <1>3, <1>4, <1>6, <1>8, <1>9 DEF Trial
<1>11. ApfsImage(t)
  BY <1>1, <1>4 DEF ApfsImage
<1> QED BY <1>10, <1>11 DEF t

LEMMA TrialHere ==
  ASSUME NEW f, Trial(f)
  PROVE  /\ f.damage \in {"none", "told"} /\ (f.damage = "told" => Fails(f))
         /\ Fails(f) \/ (Opens(f) /\ Holds(f))
         /\ Hopes(f, f, Range(f.tries)) \/ (Opens(f) /\ Holds(f))
<1> DEFINE g == Mounts(f, f, Here(f))
           ps == {Here(f)} \union Range(f.tries)
<1>1. /\ g.format = f.format /\ g.offset = f.offset /\ g.len = f.len /\ g.byte = f.byte
      /\ g.path = f.path /\ g.members = f.members /\ g.damage = f.damage
  BY DEF Mounts, Here, Trial
<1>2. (Opens(f) <=> Opens(g)) /\ (Holds(f) <=> Holds(g)) /\ (Fails(f) <=> Fails(g))
  BY <1>1, SameVolume
<1>3. Hopes(f, f, ps)
  BY DEF Trial
<1>4. CASE f.damage = "told"
  BY <1>2, <1>3, <1>4 DEF Hopes
<1>5. CASE f.damage = "none"
  <2>1. PICK v \in ps : /\ Opens(Mounts(f, f, v)) /\ Holds(Mounts(f, f, v))
                        /\ \A p \in ps \ {v} : Fails(Mounts(f, f, p))
    BY <1>3, <1>5 DEF Hopes
  <2>2. CASE v = Here(f)
    BY <1>2, <1>5, <2>1, <2>2
  <2>3. CASE v # Here(f)
    <3>1. v \in Range(f.tries) /\ Fails(g)
      BY <2>1, <2>3
    <3>2. Hopes(f, f, Range(f.tries))
      BY <1>5, <2>1, <3>1 DEF Hopes
    <3> QED BY <1>2, <1>5, <3>1, <3>2
  <2> QED BY <2>2, <2>3
<1> QED BY <1>3, <1>4, <1>5 DEF Hopes

----------------------------------------------------------------------------
(***************************************************************************)
(* Dmg.  The steps up to a raw image.                                      *)
(***************************************************************************)
Spoiled(f, c) == From(f, c) + c.chunk.len > f.len \/ Unpacked(f, c).said # "ok"

\* A disk image until it is a raw image.
DmgInv ==
  /\ WrittenDmg(file) /\ listing = <<>> /\ answers = <<>>
  /\ status \in {"new", "walking", "Unsupported", "UnknownFormat", "Corrupt"}
  /\ status \notin {"new", "walking"} => file.damage # "none"
  /\ status = "walking" =>
       /\ walk = [todo |-> walk.todo, raw |-> walk.raw]
       /\ DmgSound(file) /\ IsSeq(walk.todo)
       /\ \A c \in Range(walk.todo) : c \in Range(Chunks(file))
       /\ DmgPacks(file) => Agrees(file, walk.raw, Range(walk.todo))
       /\ \A c \in Filled(file) : Spoiled(file, c) => c \in Range(walk.todo)

\* A volume, alone or in a raw image, and a raw image that had none.
VolInv ==
  /\ file.format \in {"apfs", "hfs"}
  /\ file.format = "apfs" => ApfsInv
  /\ file.format = "hfs" => HfsInv
  /\ WrittenImage(file) \/ Trial(file)

Gone ==
  /\ file.format \in {"apfs", "hfs"} /\ ~file.inside /\ file.damage = "told"
  /\ status = "UnknownFormat" /\ listing = <<>> /\ answers = <<>>

----------------------------------------------------------------------------
LEMMA DmgInits == ASSUME D!Init PROVE DmgInv
BY TreesAssumption DEF D!Init, DmgInv

LEMMA DmgRefuses ==
  ASSUME DmgInv, NEW error \in {"Unsupported", "UnknownFormat", "Corrupt"}, D!Refuse(error),
         file.damage # "none"
  PROVE  DmgInv'
<1>1. /\ status' = error /\ file' = file /\ listing' = listing /\ answers' = answers
      /\ error # "walking"
  BY DEF D!Refuse
<1> QED BY <1>1 DEF DmgInv

LEMMA DmgBegins == ASSUME DmgInv, D!Begin PROVE DmgInv'
<1> DEFINE w == [todo |-> D!AllChunks(file.plist.tables),
                 raw |-> [len |-> D!RawLen(file.plist.tables), byte |-> <<>>]]
<1>1. /\ status' = "walking" /\ walk' = w /\ file' = file /\ listing' = listing
      /\ answers' = answers /\ DmgSound(file)
  BY DEF D!Begin, D!New, D!Trailed, D!SoundList, D!Tables, D!Koly, DmgSound
<1>2. /\ w.todo = Chunks(file) /\ w.raw = [len |-> D!RawLen(file.plist.tables), byte |-> <<>>]
      /\ w = [todo |-> w.todo, raw |-> w.raw]
  BY DEF Chunks
<1> HIDE DEF w
<1>3. IsSeq(Chunks(file))
  BY <1>1 DEF DmgInv, WrittenDmg, DmgPacks
<1>4. DmgPacks(file) => Agrees(file, w.raw, Range(Chunks(file)))
  BY <1>2, WritesNothing
<1>5. \A c \in Filled(file) : c \in Range(Chunks(file))
  BY DEF Filled
<1> QED BY <1>1, <1>2, <1>3, <1>4, <1>5 DEF DmgInv

\* The chunk at hand.
LEMMA DmgAtHand ==
  ASSUME DmgInv, D!Decoding
  PROVE  LET c == walk.todo[1]
             T == Range(walk.todo)
             U == Range(Tail(walk.todo))
         IN /\ status = "walking" /\ DmgSound(file)
            /\ IsSeq(Tail(walk.todo)) /\ \A x \in T : x = c \/ x \in U
            /\ c \in Range(Chunks(file)) /\ \A x \in U : x \in Range(Chunks(file))
            /\ DmgPacks(file) => Agrees(file, walk.raw, T)
            /\ \A d \in Filled(file) : Spoiled(file, d) => d \in T
<1>1. status = "walking" /\ walk.todo # <<>>
  BY DEF D!Decoding, D!Building
<1>2. IsSeq(walk.todo)
  BY <1>1 DEF DmgInv
<1> QED BY <1>1, <1>2, TailIs DEF DmgInv

LEMMA DmgSkips == ASSUME DmgInv, D!SkipChunk PROVE DmgInv'
<1> DEFINE c == walk.todo[1]
           T == Range(walk.todo)
           U == Range(Tail(walk.todo))
<1>1. D!Decoding /\ c.chunk.type \in {"zero", "ignore", "comment", "terminator"}
  BY DEF D!SkipChunk, D!Empty, D!Chunk
<1>2. /\ walk' = [walk EXCEPT !.todo = Tail(@)] /\ file' = file /\ listing' = listing
      /\ status' = status /\ answers' = answers
  BY DEF D!SkipChunk
<1>3. c \notin Filled(file)
  BY <1>1 DEF Filled
<1>4. /\ status = "walking" /\ DmgSound(file)
      /\ IsSeq(Tail(walk.todo)) /\ \A x \in T : x = c \/ x \in U
      /\ \A x \in U : x \in Range(Chunks(file))
      /\ DmgPacks(file) => Agrees(file, walk.raw, T)
      /\ \A d \in Filled(file) : Spoiled(file, d) => d \in T
  BY <1>1, DmgAtHand
<1> HIDE DEF c, T
<1>5. DmgPacks(file) => Agrees(file, walk.raw, U)
  <2> HIDE DEF U
  <2> QED BY <1>3, <1>4, WritesLess
<1>6. \A d \in Filled(file) : Spoiled(file, d) => d \in U
  BY <1>3, <1>4
<1>9. \A x \in U : x \in Range(Chunks(file))
  BY <1>4
<1> DEFINE r == Tail(walk.todo)
<1>7. walk' = [todo |-> r, raw |-> walk.raw]
  <2>1. walk = [todo |-> walk.todo, raw |-> walk.raw]
    BY <1>4 DEF DmgInv
  <2> HIDE DEF r
  <2> QED BY <1>2, <2>1 DEF r
<1>8. walk'.todo = r /\ walk'.raw = walk.raw /\ walk' = [todo |-> walk'.todo, raw |-> walk'.raw]
  <2> HIDE DEF r
  <2> QED BY <1>7
<1> QED BY <1>2, <1>4, <1>5, <1>6, <1>8, <1>9 DEF DmgInv

LEMMA DmgWrites == ASSUME DmgInv, D!WriteChunk PROVE DmgInv'
<1> DEFINE c == walk.todo[1]
           T == Range(walk.todo)
           r == Tail(walk.todo)
           w == D!Write(walk.raw, Onto(file, c), Unpacked(file, c).given)
<1>1. D!Decoding /\ c.chunk.type \notin {"zero", "ignore", "comment", "terminator"}
  BY DEF D!WriteChunk, D!Empty, D!Chunk
<1>2. D!ChunkAt = From(file, c) /\ D!OutAt = Onto(file, c)
  BY DEF D!ChunkAt, D!OutAt, D!Koly, D!Table, D!Tables, D!Chunk, From, Onto
<1>3. ~(From(file, c) + c.chunk.len > file.len) /\ Unpacked(file, c).said = "ok"
      /\ D!Decoded = Unpacked(file, c)
  <2>1. D!Decoded.said = "ok"
    BY DEF D!WriteChunk
  <2>2. D!Decoded = IF From(file, c) + c.chunk.len > file.len THEN Answer("Corrupt", <<>>)
                    ELSE Unpacked(file, c)
    BY <1>2 DEF D!Decoded, D!Chunk, Unpacked, D!Bytes, Bytes, D!ByteAt, ByteAt, Span, D!Answer, Answer
  <2>3. Answer("Corrupt", <<>>).said # "ok"
    BY DEF Answer
  <2> QED BY <2>1, <2>2, <2>3
<1>4. /\ walk' = [todo |-> r, raw |-> w] /\ file' = file /\ listing' = listing
      /\ status' = status /\ answers' = answers
  BY <1>2, <1>3 DEF D!WriteChunk
<1>5. /\ status = "walking" /\ DmgSound(file)
      /\ IsSeq(r) /\ \A x \in T : x = c \/ x \in Range(r)
      /\ c \in Range(Chunks(file)) /\ \A x \in Range(r) : x \in Range(Chunks(file))
      /\ DmgPacks(file) => Agrees(file, walk.raw, T)
      /\ \A d \in Filled(file) : Spoiled(file, d) => d \in T
  BY <1>1, DmgAtHand
<1>7. ~Spoiled(file, c)
  BY <1>3 DEF Spoiled
<1> HIDE DEF c, T, r, w
<1>8. \A d \in Filled(file) : Spoiled(file, d) => d \in Range(r)
  BY <1>5, <1>7
<1>9. ASSUME DmgPacks(file) PROVE Agrees(file, w, Range(r))
  <2>1. c \in Filled(file)
    BY <1>1, <1>5 DEF Filled
  <2>2. Unpacked(file, c).given = Bytes(file.raw, Onto(file, c), Span(c))
    BY <1>9, <2>1 DEF DmgPacks, Answer
  <2> QED BY <1>5, <1>9, <2>1, <2>2, WritesPart DEF w
<1>10. walk'.todo = r /\ walk'.raw = w /\ walk' = [todo |-> walk'.todo, raw |-> walk'.raw]
  BY <1>4
<1> QED BY <1>4, <1>5, <1>8, <1>9, <1>10 DEF DmgInv

LEMMA DmgCannot == ASSUME DmgInv, D!BadChunk PROVE DmgInv'
<1> DEFINE c == walk.todo[1]
<1>1. /\ D!Decoding /\ D!Refuse("Corrupt")
      /\ c.chunk.type \notin {"zero", "ignore", "comment", "terminator"}
  BY DEF D!BadChunk, D!Empty, D!Chunk
<1>2. ASSUME file.damage = "none" PROVE FALSE
  <2>1. D!Decoded.said # "ok" /\ DmgPacks(file)
    BY <1>2 DEF D!BadChunk, DmgInv, WrittenDmg
  <2>2. D!Decoded = IF From(file, c) + c.chunk.len > file.len THEN Answer("Corrupt", <<>>)
                    ELSE Unpacked(file, c)
    BY DEF D!ChunkAt, D!Koly, D!Table, D!Tables, From, D!Decoded, D!Chunk, Unpacked, D!Bytes, Bytes,
           D!ByteAt, ByteAt, Span, D!Answer, Answer
  <2>3. c \in Range(Chunks(file))
    BY <1>1, DmgAtHand
  <2>4. c \in Filled(file)
    BY <1>1, <2>3 DEF Filled
  <2> HIDE DEF c
  <2>5. /\ From(file, c) + c.chunk.len <= file.len
        /\ From(file, c) \in Nat /\ c.chunk.len \in Nat /\ file.len \in Nat
        /\ Unpacked(file, c) = Answer("ok", Bytes(file.raw, Onto(file, c), Span(c)))
    BY <2>1, <2>4 DEF DmgPacks
  <2>6. ~(From(file, c) + c.chunk.len > file.len)
    BY <2>5
  <2>7. Unpacked(file, c).said = "ok"
    BY <2>5 DEF Answer
  <2> QED BY <2>1, <2>2, <2>6, <2>7
<1> QED BY <1>1, <1>2, DmgRefuses

----------------------------------------------------------------------------
(***************************************************************************)
(* Dmg.  The steps from a raw image on.                                    *)
(***************************************************************************)
LEMMA ApfsFreshNext == (Fresh /\ ApfsImage(file) => ApfsInv)'
BY ApfsFresh, PTL

LEMMA HfsFreshNext == (Fresh /\ ApfsImage(file) => HfsInv)'
BY HfsFresh, PTL

\* A volume that is to be tried next.
LEMMA TriesNext ==
  ASSUME NEW f, NEW raw, NEW w, IsSeq(w), w # <<>>, raw.len \in Nat, Sparse(raw.byte, Nat),
         \A p \in Range(w) : p \in Place(raw), Hopes(f, raw, Range(w)),
         file' = Tried(f, raw, w), Fresh'
  PROVE  VolInv'
<1>1. Trial(Tried(f, raw, w)) /\ ApfsImage(Tried(f, raw, w))
  BY TrialStarts
<1>2. Trial(file)' /\ ApfsImage(file)'
  <2> DEFINE t == Tried(f, raw, w)
  <2> HIDE DEF t
  <2>1. file' = t /\ Trial(t) /\ ApfsImage(t)
    BY <1>1 DEF t
  <2>2. Trial(file')
    BY <2>1
  <2>3. ApfsImage(file')
    BY <2>1
  <2> QED BY <2>2, <2>3
<1>3. ApfsInv' /\ HfsInv'
  BY <1>2, ApfsFreshNext, HfsFreshNext
<1>4. file'.format \in {"hfs", "apfs"}
  BY <1>2 DEF Trial
<1> QED BY <1>2, <1>3, <1>4 DEF VolInv

LEMMA DmgLocates == ASSUME DmgInv, D!Locate PROVE VolInv'
<1> DEFINE raw == walk.raw
           w == D!Candidates(raw)
<1>1. /\ status = "walking" /\ walk.todo = <<>> /\ file' = D!Mounted(raw, w) /\ walk' = <<>>
      /\ status' = "new" /\ listing' = listing /\ answers' = answers
  BY DEF D!Locate, D!Building
<1>2. DmgSound(file) /\ Range(walk.todo) = {} /\ WrittenDmg(file)
      /\ (DmgPacks(file) => Agrees(file, raw, Range(walk.todo)))
      /\ (\A c \in Filled(file) : Spoiled(file, c) => c \in Range(walk.todo))
      /\ listing = <<>> /\ answers = <<>>
  BY <1>1 DEF DmgInv, Range
<1>3. file' = Tried(file, raw, w)
  BY <1>1 DEF D!Mounted, Tried
<1> HIDE DEF raw, w
<1>4. DmgPacks(file)
  BY <1>2 DEF WrittenDmg, Spoiled
<1>5. raw.len = file.raw.len /\ raw.byte = file.raw.byte
  BY <1>2, <1>4, WritesAll
<1>6. raw.len \in Nat /\ Sparse(raw.byte, Nat)
  <2>1. file.raw.len \in Nat /\ Sparse(file.raw.byte, Nat \ {0})
    BY <1>4 DEF DmgPacks
  <2> QED BY <1>5, <2>1 DEF Sparse
<1>7. Place(raw) = Place(file.raw) /\ \A p : Mounts(file, raw, p) = Mounts(file, file.raw, p)
  BY <1>5 DEF Place, Mounts
<1>8. /\ IsSeq(w) /\ w # <<>> /\ \A p \in Range(w) : p \in Place(raw)
      /\ \A p \in Place(raw) :
           \/ p.fs = "apfs" /\ Marked(raw, p, ApfsMagicAt)
           \/ p.fs = "hfs" /\ Marked(raw, p, VolumeHeaderAt)
           => p \in Range(w)
  BY <1>6, CandidatesAre DEF w
<1>9. Hopes(file, raw, Range(w))
  <2>1. CASE file.damage = "none"
    <3>1. /\ file.volume \in Place(raw)
          /\ Opens(Mounts(file, raw, file.volume)) /\ Holds(Mounts(file, raw, file.volume))
          /\ \A p \in Place(raw) \ {file.volume} : Fails(Mounts(file, raw, p))
      BY <1>2, <1>7, <2>1 DEF WrittenDmg
    <3> DEFINE v == file.volume
               g == Mounts(file, raw, v)
    <3>2. v.fs \in {"hfs", "apfs"}
      BY <1>6, <3>1, PlaceIs
    <3>3. g.format = v.fs /\ g.offset = v.offset /\ g.len = raw.len /\ g.byte = raw.byte
      BY DEF Mounts
    <3> HIDE DEF g, v
    <3>4. \A at : Bears(g, at, v.fs) => Marked(raw, v, at)
      BY <3>3 DEF Bears, Marked, ByteAt
    <3>5. Opens(g)
      BY <3>1 DEF g, v
    <3>6. CASE v.fs = "apfs"
      <4>1. Bears(g, ApfsMagicAt, v.fs)
        BY <3>3, <3>5, <3>6 DEF Opens, ApfsOpens, ApfsBears
      <4>2. Marked(raw, v, ApfsMagicAt)
        BY <3>4, <4>1
      <4> QED BY <1>8, <2>1, <3>1, <3>6, <4>2 DEF Hopes, v
    <3>7. CASE v.fs = "hfs"
      <4>1. Bears(g, VolumeHeaderAt, v.fs)
        BY <3>3, <3>5, <3>7 DEF Opens, HfsOpens, HfsBears
      <4>2. Marked(raw, v, VolumeHeaderAt)
        BY <3>4, <4>1
      <4> QED BY <1>8, <2>1, <3>1, <3>7, <4>2 DEF Hopes, v
    <3> QED BY <3>2, <3>6, <3>7
  <2>2. CASE file.damage = "told"
    <3>1. \A p \in Place(raw) : Fails(Mounts(file, raw, p))
      BY <1>2, <1>7, <2>2 DEF WrittenDmg, Spoiled
    <3> QED BY <1>8, <2>2, <3>1 DEF Hopes
  <2> QED BY <1>2, <2>1, <2>2 DEF WrittenDmg
<1>10. Fresh'
  BY <1>1, <1>2 DEF Fresh
<1> QED BY <1>3, <1>6, <1>8, <1>9, <1>10, TriesNext

LEMMA DmgNext == ASSUME DmgInv, D!Next PROVE DmgInv' \/ VolInv'
<1>1. file.format = "dmg" /\ (file.damage = "none" => DmgSound(file))
  BY DEF DmgInv, WrittenDmg
<1>2. CASE D!RefusePathless \/ D!NoTrailer \/ D!BadList
  <2>1. PICK error \in {"Unsupported", "UnknownFormat", "Corrupt"} : D!Refuse(error)
    BY <1>2 DEF D!RefusePathless, D!NoTrailer, D!BadList
  <2>2. ~DmgSound(file)
    BY <1>2 DEF D!RefusePathless, D!NoTrailer, D!BadList, DmgSound, D!Trailed, D!SoundList, D!Koly,
                D!Tables
  <2> QED BY <1>1, <2>1, <2>2, DmgRefuses
<1>3. CASE D!TryNext \/ D!NoVolume
  BY <1>1, <1>3 DEF D!TryNext, D!NoVolume, D!NotThisOne
<1> QED BY <1>2, <1>3, DmgBegins, DmgSkips, DmgWrites, DmgCannot, DmgLocates DEF D!Next

LEMMA DmgSame == ASSUME DmgInv, UNCHANGED vars PROVE DmgInv'
<1>1. file' = file /\ walk' = walk /\ listing' = listing /\ status' = status /\ answers' = answers
  BY DEF vars
<1> QED BY <1>1 DEF DmgInv

LEMMA DmgKeeps == ASSUME DmgInv PROVE ListsTheTree /\ DamageIsTold /\ TreeOkIsContent
<1>1. /\ listing = <<>> /\ answers = <<>> /\ file.format = "dmg"
      /\ status \in {"new", "walking", "Unsupported", "UnknownFormat", "Corrupt"}
      /\ status \notin {"new", "walking"} => file.damage # "none"
  BY DEF DmgInv, WrittenDmg
<1>2. ListsTheTree
  BY <1>1 DEF ListsTheTree, Refused, Aborted, Errors
<1> QED BY <1>1, <1>2 DEF DamageIsTold, TreeOkIsContent

----------------------------------------------------------------------------
VolErrors == {"Corrupt", "UnknownFormat", "Unsupported"}

\* What the reader of either file system has shown by now.
LEMMA VolShows ==
  ASSUME VolInv
  PROVE  /\ Fails(file) => status # "open"
         /\ Holds(file) => ApfsGiven
         /\ Holds(file) =>
              /\ Opens(file) => status \notin VolErrors
              /\ file.damage = "none" => \A k \in DOMAIN listing : Matches(listing[k], Member(k))
              /\ status = "open" => Len(listing) = Len(file.members)
         /\ status # "open" => answers = <<>>
         /\ status \in {"new", "walking", "open"} \union VolErrors
<1>1. CASE file.format = "apfs"
  BY <1>1, ApfsShows DEF VolInv, Fails, Holds, Opens, ApfsErrors, VolErrors
<1>2. CASE file.format = "hfs"
  <2>1. \A e \in HfsErrors : e \in VolErrors
    BY DEF HfsErrors, VolErrors
  <2>2. status \in VolErrors => status \in HfsErrors
    BY <1>2, HfsShows DEF VolInv, HfsErrors, VolErrors
  <2> QED BY <1>2, <2>1, <2>2, HfsShows DEF VolInv, Fails, Holds, Opens
<1> QED BY <1>1, <1>2 DEF VolInv

\* A volume that was written whole, or that had something befall it.
LEMMA VolIs ==
  ASSUME VolInv
  PROVE  /\ file.damage = "none" => (Opens(file) /\ Holds(file)) \/ (Trial(file) /\ Fails(file))
         /\ file.damage = "told" => Fails(file)
         /\ Holds(file) \/ Fails(file)
BY TrialHere DEF VolInv, WrittenImage

LEMMA VolKeeps == ASSUME VolInv PROVE ListsTheTree /\ DamageIsTold /\ TreeOkIsContent
<1>1. DamageIsTold
  BY VolShows, VolIs DEF DamageIsTold
<1>2. TreeOkIsContent
  <2> SUFFICES ASSUME NEW k \in DOMAIN answers, answers[k].said = "ok", listing[k].kind = "file"
               PROVE  answers[k].given = Member(k).content
    BY DEF TreeOkIsContent
  <2>1. answers # <<>>
    OBVIOUS
  <2>2. ApfsGiven
    BY <2>1, VolShows, VolIs
  <2> QED BY <2>2 DEF ApfsGiven, Member
<1>3. ListsTheTree
  <2> SUFFICES ASSUME file.damage = "none"
               PROVE  /\ ~Refused /\ ~Aborted
                      /\ ~Trying => \A k \in DOMAIN listing : Matches(listing[k], Member(k))
                      /\ status = "open" => Len(listing) = Len(file.members)
    BY DEF ListsTheTree
  <2>1. CASE Opens(file) /\ Holds(file)
    <3>1. status \notin VolErrors /\ status \in {"new", "walking", "open"} \union VolErrors
      BY <2>1, VolShows
    <3>2. ~Refused /\ ~Aborted
      BY <3>1 DEF Refused, Aborted, Errors, VolErrors
    <3> QED BY <2>1, <3>2, VolShows
  <2>2. CASE Trial(file) /\ Fails(file)
    <3>1. file.inside /\ file.format \in {"hfs", "apfs"} /\ status # "open" /\ ~Aborted
      BY <2>2, VolShows DEF Trial, Aborted, VolErrors
    <3> QED BY <3>1 DEF Refused, Trying
  <2> QED BY <2>1, <2>2, VolIs
<1> QED BY <1>1, <1>2, <1>3

LEMMA VolInits == ASSUME Init \/ H!Init PROVE VolInv
<1>1. Fresh /\ file.format \in {"apfs", "hfs"} /\ WrittenImage(file)
  BY TreesAssumption DEF Init, H!Init, Fresh
<1>2. ApfsImage(file)
  BY <1>1 DEF WrittenImage
<1> QED BY <1>1, <1>2, ApfsFresh, HfsFresh DEF VolInv

LEMMA VolSame == ASSUME VolInv, UNCHANGED vars PROVE VolInv'
<1>1. file' = file
  BY DEF vars
<1> QED BY <1>1, ApfsSame, HfsSame DEF VolInv

\* No reader touches the image.
LEMMA VolReads ==
  ASSUME VolInv, (file.format = "apfs" /\ Next) \/ (file.format = "hfs" /\ H!Next)
  PROVE  VolInv'
<1>1. CASE file.format = "apfs" /\ Next
  <2>1. file' = file
    BY <1>1 DEF Next, RefusePathless, RefuseUnsigned, CannotMount, Mount, TooDeep, CannotList, Enter,
                TooMany, CannotLoad, Visit, Leave, Finish, ReadEntry, Refuse
  <2>2. ApfsInv'
    BY <1>1, ApfsNextKeeps DEF VolInv
  <2> QED BY <1>1, <2>1, <2>2 DEF VolInv
<1>2. CASE file.format = "hfs" /\ H!Next
  <2>1. file' = file
    BY <1>2 DEF H!Next, H!RefusePathless, H!RefuseUnsigned, H!RefuseCatalog, H!Open, H!ReadEntry,
                H!Refuse
  <2>2. HfsInv'
    BY <1>2, HfsNext DEF VolInv
  <2> QED BY <1>2, <2>1, <2>2 DEF VolInv
<1> QED BY <1>1, <1>2

\* A volume that does not open is not the one that was packed.
LEMMA VolTries == ASSUME VolInv, D!TryNext PROVE VolInv'
<1>1. /\ file.inside /\ status \notin {"new", "walking", "open"} /\ file.tries # <<>>
      /\ file' = D!Mounted(file, file.tries) /\ walk' = <<>> /\ status' = "new"
      /\ listing' = listing /\ answers' = answers
  BY DEF D!TryNext, D!NotThisOne
<1>2. Trial(file)
  BY <1>1 DEF VolInv, WrittenImage
<1>3. status \in VolErrors /\ answers = <<>> /\ listing = <<>>
  BY <1>1, VolShows, ApfsShows, HfsShows DEF VolInv, ApfsErrors, VolErrors
<1>4. Hopes(file, file, Range(file.tries))
  BY <1>2, <1>3, VolShows, TrialHere
<1>5. file' = Tried(file, file, file.tries)
  BY <1>1 DEF D!Mounted, Tried
<1>6. /\ IsSeq(file.tries) /\ file.len \in Nat /\ Sparse(file.byte, Nat)
      /\ \A p \in Range(file.tries) : p \in Place(file)
  BY <1>2 DEF Trial
<1>7. Fresh'
  BY <1>1, <1>3 DEF Fresh
<1> QED BY <1>1, <1>4, <1>5, <1>6, <1>7, TriesNext

LEMMA VolEnds == ASSUME VolInv, D!NoVolume PROVE Gone'
<1>1. /\ file.inside /\ status \notin {"new", "walking", "open"} /\ file.tries = <<>>
      /\ file' = [file EXCEPT !.inside = FALSE] /\ status' = "UnknownFormat"
      /\ listing' = listing /\ answers' = answers
  BY DEF D!NoVolume, D!NotThisOne
<1>2. Trial(file)
  BY <1>1 DEF VolInv, WrittenImage
<1>3. status \in VolErrors /\ answers = <<>> /\ listing = <<>>
  BY <1>1, VolShows, ApfsShows, HfsShows DEF VolInv, ApfsErrors, VolErrors
<1>4. Range(file.tries) = {}
  BY <1>1 DEF Range
<1>5. file.damage = "told"
  <2>1. ~(Opens(file) /\ Holds(file))
    BY <1>3, VolShows
  <2> QED BY <1>2, <1>4, <2>1, TrialHere DEF Hopes
<1>6. file'.inside = FALSE /\ file'.damage = file.damage /\ file'.format = file.format
  <2>1. {"format", "offset", "inside", "members", "damage"} \subseteq DOMAIN file
        /\ file = [x \in DOMAIN file |-> file[x]]
    BY <1>2 DEF Trial, HasFields
  <2> DEFINE S == DOMAIN file
  <2>2. "inside" \in S /\ "damage" \in S /\ "format" \in S
    BY <2>1
  <2> HIDE DEF S
  <2>3. file' = [x \in S |-> IF x = "inside" THEN FALSE ELSE file[x]]
    BY <1>1, <2>1, <2>2 DEF S
  <2> QED BY <2>2, <2>3
<1> QED BY <1>1, <1>3, <1>5, <1>6 DEF Gone, VolInv

LEMMA GoneStays == ASSUME Gone, TreesNext PROVE FALSE
<1>1. /\ file.format \in {"apfs", "hfs"} /\ ~file.inside
      /\ status \notin {"new", "walking", "open"}
  BY DEF Gone
<1>2. CASE Next
  BY <1>1, <1>2 DEF Next, RefusePathless, RefuseUnsigned, CannotMount, Mount, TooDeep, CannotList,
                    Enter, TooMany, CannotLoad, Visit, Leave, Finish, ReadEntry, Entering, Visiting, Walking
<1>3. CASE H!Next
  BY <1>1, <1>3 DEF H!Next, H!RefusePathless, H!RefuseUnsigned, H!RefuseCatalog, H!Open, H!ReadEntry
<1>4. CASE D!Next
  BY <1>1, <1>4 DEF D!Next, D!RefusePathless, D!NoTrailer, D!BadList, D!Begin, D!SkipChunk,
       D!WriteChunk, D!BadChunk, D!Locate, D!TryNext, D!NoVolume, D!New, D!Decoding, D!Building,
       D!NotThisOne
<1> QED BY <1>1, <1>2, <1>3, <1>4 DEF TreesNext

LEMMA GoneKeeps == ASSUME Gone PROVE ListsTheTree /\ DamageIsTold /\ TreeOkIsContent
BY DEF Gone, ListsTheTree, DamageIsTold, TreeOkIsContent

LEMMA VolNext == ASSUME VolInv, TreesNext PROVE VolInv' \/ Gone'
<1>1. file.format \in {"apfs", "hfs"}
  BY DEF VolInv
<1>2. CASE D!Next
  <2>1. ~D!New /\ ~D!Building
    BY <1>1 DEF D!New, D!Building
  <2>2. D!TryNext \/ D!NoVolume
    BY <1>2, <2>1 DEF D!Next, D!RefusePathless, D!NoTrailer, D!BadList, D!Begin, D!SkipChunk,
       D!WriteChunk, D!BadChunk, D!Locate, D!Decoding
  <2> QED BY <2>2, VolTries, VolEnds
<1>3. CASE (file.format = "apfs" /\ Next) \/ (file.format = "hfs" /\ H!Next)
  BY <1>3, VolReads
<1> QED BY <1>1, <1>2, <1>3 DEF TreesNext

----------------------------------------------------------------------------
\* The readers side by side: whatever is open is one reader's.
TreesInv == VolInv \/ Gone \/ DmgInv \/ XarInv \/ WimInv \/ IsoInv

LEMMA TreesStart == TreesInit => TreesInv
BY VolInits, DmgInits, XarInits, WimInits, IsoInits DEF TreesInit, TreesInv

LEMMA TreesGoOn == TreesInv /\ [TreesNext]_vars => TreesInv'
<1> SUFFICES ASSUME TreesInv, [TreesNext]_vars PROVE TreesInv'
  OBVIOUS
<1>1. /\ DmgInv => file.format = "dmg"
      /\ XarInv => file.format = "xar"
      /\ WimInv => file.format = "wim"
      /\ IsoInv => file.format = "iso"
  <2>1. DmgInv => file.format = "dmg"
    BY DEF DmgInv, WrittenDmg
  <2>2. XarInv => file.format = "xar"
    BY DEF XarInv, XarShape
  <2>3. WimInv => file.format = "wim"
    BY DEF WimInv, WimKept
  <2>4. IsoInv => file.format = "iso"
    BY DEF IsoInv, IsoKept
  <2> QED BY <2>1, <2>2, <2>3, <2>4
<1>2. CASE UNCHANGED vars
  <2>1. Gone => Gone'
    BY <1>2 DEF vars, Gone
  <2> QED BY <1>2, <2>1, VolSame, DmgSame, XarSame, WimSame, IsoSame DEF TreesInv
<1>3. CASE TreesNext
  <2>1. CASE DmgInv
    <3>1. D!Next
      BY <1>1, <1>3, <2>1 DEF TreesNext
    <3> QED BY <2>1, <3>1, DmgNext DEF TreesInv
  <2>2. CASE XarInv
    <3>1. X!Next
      BY <1>1, <1>3, <2>2 DEF TreesNext
    <3> QED BY <2>2, <3>1, XarNext DEF TreesInv
  <2>3. CASE WimInv
    <3>1. M!Next
      BY <1>1, <1>3, <2>3 DEF TreesNext
    <3> QED BY <2>3, <3>1, WimNext DEF TreesInv
  <2>4. CASE IsoInv
    <3>1. I!Next
      BY <1>1, <1>3, <2>4 DEF TreesNext
    <3> QED BY <2>4, <3>1, IsoNext DEF TreesInv
  <2> QED BY <1>3, <2>1, <2>2, <2>3, <2>4, VolNext, GoneStays DEF TreesInv
<1> QED BY <1>2, <1>3

LEMMA TreesKeep == TreesInv => ListsTheTree /\ DamageIsTold /\ TreeOkIsContent
BY VolKeeps, GoneKeeps, DmgKeeps, XarKeeps, WimKeeps, IsoKeeps DEF TreesInv

LEMMA TreesKeepStep == TreesSpec => []TreesInv
BY TreesStart, TreesGoOn, PTL DEF TreesSpec

\* Whatever image, volume or archive is whole opens, and the listing is its tree
\* (walk_tree of apfs.rs, open of hfsplus.rs, build_raw_image and locate_volume
\* of dmg.rs, collect of xar.rs, walk of wim.rs, walk_directory of iso.rs).
THEOREM TreesListTheTree == TreesSpec => []ListsTheTree
BY TreesKeepStep, TreesKeep, PTL

\* What the same readers cannot walk to its end, open refuses.
THEOREM TreesTellDamage == TreesSpec => []DamageIsTold
BY TreesKeepStep, TreesKeep, PTL

\* A read_entry of any of the six that says it went well gave the member's own
\* bytes, but for what a stored xar member lost from the heap.
THEOREM TreesGiveContent == TreesSpec => []TreeOkIsContent
BY TreesKeepStep, TreesKeep, PTL

\* ... and what is listed comes after its directory, whichever reader lists it.
TreesNested == (XarInv => XarNested) /\ (WimInv => WimNested)

LEMMA Formats ==
  /\ XarInv => file.format = "xar"
  /\ WimInv => file.format = "wim"
  /\ VolInv \/ Gone => file.format \in {"apfs", "hfs"}
  /\ DmgInv => file.format = "dmg"
  /\ IsoInv => file.format = "iso"
BY DEF XarInv, XarShape, WimInv, WimKept, VolInv, Gone, DmgInv, WrittenDmg, IsoInv, IsoKept

LEMMA NestedStart == TreesInit => TreesNested
<1> SUFFICES ASSUME TreesInit PROVE TreesNested
  OBVIOUS
<1>1. CASE X!Init
  <2>1. file.format = "xar"
    BY <1>1, XarInits, Formats
  <2> QED BY <1>1, <2>1, XarNestInit, Formats DEF TreesNested
<1>2. CASE M!Init
  <2>1. file.format = "wim"
    BY <1>2, WimInits, Formats
  <2> QED BY <1>2, <2>1, WimNestInit, Formats DEF TreesNested
<1>3. CASE Init \/ H!Init \/ D!Init \/ I!Init
  <2>1. VolInv \/ DmgInv \/ IsoInv
    BY <1>3, VolInits, DmgInits, IsoInits
  <2>2. file.format \notin {"xar", "wim"}
    BY <2>1, Formats
  <2> QED BY <2>2, Formats DEF TreesNested
<1> QED BY <1>1, <1>2, <1>3 DEF TreesInit

LEMMA FormatsNext ==
  /\ XarInv' => file'.format = "xar"
  /\ WimInv' => file'.format = "wim"
  /\ VolInv' \/ Gone' => file'.format \in {"apfs", "hfs"}
  /\ DmgInv' => file'.format = "dmg"
  /\ IsoInv' => file'.format = "iso"
BY DEF XarInv, XarShape, WimInv, WimKept, VolInv, Gone, DmgInv, WrittenDmg, IsoInv, IsoKept

LEMMA NestedGoOn == TreesInv /\ TreesNested /\ [TreesNext]_vars => TreesNested'
<1> SUFFICES ASSUME TreesInv, TreesNested, [TreesNext]_vars PROVE TreesNested'
  OBVIOUS
<1>1. CASE XarInv
  <2>1. XarNested /\ file.format = "xar"
    BY <1>1, Formats DEF TreesNested
  <2>2. X!Next \/ UNCHANGED vars
    BY <2>1 DEF TreesNext
  <2>3. XarInv' /\ XarNested'
    BY <1>1, <2>1, <2>2, XarNext, XarSame, XarNestNext, XarNestOther
  <2>4. file'.format = "xar"
    BY <2>3, FormatsNext
  <2> QED BY <2>3, <2>4, FormatsNext DEF TreesNested
<1>2. CASE WimInv
  <2>1. WimNested /\ file.format = "wim"
    BY <1>2, Formats DEF TreesNested
  <2>2. M!Next \/ UNCHANGED vars
    BY <2>1 DEF TreesNext
  <2>3. WimInv' /\ WimNested'
    BY <1>2, <2>1, <2>2, WimNext, WimSame, WimNestNext, WimNestOther
  <2>4. file'.format = "wim"
    BY <2>3, FormatsNext
  <2> QED BY <2>3, <2>4, FormatsNext DEF TreesNested
<1>3. CASE VolInv \/ Gone \/ DmgInv \/ IsoInv
  <2>1. VolInv' \/ Gone' \/ DmgInv' \/ IsoInv'
    <3>1. CASE UNCHANGED vars
      <4>1. Gone => Gone'
        BY <3>1 DEF vars, Gone
      <4> QED BY <1>3, <3>1, <4>1, VolSame, DmgSame, IsoSame
    <3>2. CASE TreesNext
      <4>1. CASE DmgInv
        <5>1. D!Next
          BY <3>2, <4>1, Formats DEF TreesNext
        <5> QED BY <4>1, <5>1, DmgNext
      <4>2. CASE IsoInv
        <5>1. I!Next
          BY <3>2, <4>2, Formats DEF TreesNext
        <5> QED BY <4>2, <5>1, IsoNext
      <4> QED BY <1>3, <3>2, <4>1, <4>2, VolNext, GoneStays
    <3> QED BY <3>1, <3>2
  <2>2. file'.format \notin {"xar", "wim"}
    BY <2>1, FormatsNext
  <2> QED BY <2>2, FormatsNext DEF TreesNested
<1> QED BY <1>1, <1>2, <1>3 DEF TreesInv

LEMMA NestedKeep == TreesInv /\ TreesNested => ParentsFirst
<1>1. IsoInv => ParentsFirst
  BY DEF IsoInv, IsoInd, I!ParentsFirst, ParentsFirst
<1>2. VolInv => ParentsFirst
  BY DEF VolInv, ApfsInv, IndInv, HfsInv
<1>3. Gone \/ DmgInv => ParentsFirst
  BY DEF Gone, DmgInv, ParentsFirst
<1>4. XarInv /\ TreesNested => ParentsFirst
  BY PlacedIs DEF TreesNested, XarNested
<1>5. WimInv /\ TreesNested => ParentsFirst
  BY PlacedIs DEF TreesNested, WimNested
<1> QED BY <1>1, <1>2, <1>3, <1>4, <1>5 DEF TreesInv

LEMMA NestedKeepStep == TreesSpec => []TreesNested
<1>1. TreesInv /\ TreesNested /\ [TreesNext]_vars => TreesNested'
  BY NestedGoOn
<1> QED BY <1>1, NestedStart, TreesKeepStep, PTL DEF TreesSpec

\* Whichever of the readers lists it, whatever the damage and however far the walk
\* has come, an entry below the root comes after the directory it is in.
THEOREM TreesParentsFirst == TreesSpec => []ParentsFirst
BY TreesKeepStep, NestedKeepStep, NestedKeep, PTL
============================================================================
