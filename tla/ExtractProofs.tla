--------------------------- MODULE ExtractProofs ---------------------------
(***************************************************************************)
(* Theorems about Extract, for every set of archives, options and trees.   *)
(*                                                                         *)
(* IndInv is the loop: where it stands, what the report holds, what the    *)
(* callback has been told, and that the tree is untouched until the loop   *)
(* begins.  What is said of the disk rests on it, in this order:           *)
(*   DiskInv      what may lie where, and what is unfinished               *)
(*   StandInv     what was extracted stands until another claims its place *)
(*   NameInv      every name in the tree is the user's or an entry's       *)
(*   CleanInv     an archive without conflict; CleanStands: nor two forks  *)
(*   TimesInv     whose time a file carries, which directories are due     *)
(* Each has one lemma for every step of the call.  For the disk a step is  *)
(* described once (Moves, Sound, Smooth, Timed), and what it keeps follows *)
(* from the description.  The refinement of ExtractPromise rests on all    *)
(* but the last.                                                           *)
(***************************************************************************)
EXTENDS Extract, TLAPS, SequenceTheorems, FiniteSetTheorems

Busy == pc \in {"work", "reading", "forking"}

LoopInv ==
  /\ Busy => idx \in Index /\ Wanted(idx)
  /\ (pc = "stamp" \/ result = "ok") /\ ~aborted => idx \notin Index
  /\ pc = "returned" <=> result # "none"
  /\ aborted => pc \in {"stamp", "returned"}

ReportInv ==
  /\ done \cap FailedIndices = {}
  /\ done \cup FailedIndices = {i \in Subset : i < idx}
  /\ opts.strict => failed = {}

EventInv ==
  /\ ~opts.progress => event = NoEvent
  /\ opts.progress /\ Busy => event.type \in {"start", "bytes"} /\ event.index = idx
  /\ pc \in {"preflight", "wrap"} => event = NoEvent /\ idx = 1
  /\ pc = "entry" => event.index < idx
  /\ pc = "entry" /\ event.type \in {"start", "bytes"} =>
       event.index \in FailedIndices
  /\ event.flow = "abort" /\ event.type # "done" => aborted

TreeInv ==
  /\ pc \in {"preflight", "wrap"} => fs = job.tree
  /\ FailsCleanly

IndInv == TypeOK /\ LoopInv /\ ReportInv /\ EventInv /\ TreeInv

----------------------------------------------------------------------------
(***************************************************************************)
(* The file system calls keep a tree a tree.                               *)
(***************************************************************************)
Tree == [Path -> Node]

\* The nodes the calls make from nothing.
LEMMA FreshNodes ==
  /\ Absent \in Node /\ EmptyDir \in Node
  /\ \A i \in Nat :
       [Absent EXCEPT !.kind = "file", !.src = i, !.full = FALSE] \in Node
  /\ \A i \in Nat, to \in Path :
       [Absent EXCEPT !.kind = "link", !.src = i, !.to = to] \in Node
<1>1. <<>> \in Path BY PathAssumption
<1>2. QED BY <1>1 DEF Absent, EmptyDir, Node, Kinds

\* Changing one field of a node to a value of that field's type.
LEMMA FieldUpdates ==
  ASSUME NEW n \in Node, NEW i \in Nat, NEW b \in BOOLEAN
  PROVE  /\ [n EXCEPT !.stamp = i] \in Node
         /\ [n EXCEPT !.full = b] \in Node
         /\ [n EXCEPT !.writable = b] \in Node
         /\ [n EXCEPT !.forkFull = b] \in Node
         /\ [n EXCEPT !.src = i, !.full = b, !.stamp = 0] \in Node
         /\ [n EXCEPT !.fork = i, !.forkFull = b, !.stamp = 0] \in Node
BY DEF Node

\* Setting one field at one place, whether the place is in the tree or not.
LEMMA TreeUpdates ==
  ASSUME NEW t \in Tree, NEW p, NEW i \in Nat, NEW b \in BOOLEAN
  PROVE  /\ [t EXCEPT ![p].stamp = i] \in Tree
         /\ [t EXCEPT ![p].full = b] \in Tree
         /\ [t EXCEPT ![p].writable = b] \in Tree
         /\ [t EXCEPT ![p].forkFull = b] \in Tree
         /\ [t EXCEPT ![p].src = i, ![p].full = b, ![p].stamp = 0] \in Tree
         /\ [t EXCEPT ![p].fork = i, ![p].forkFull = b, ![p].stamp = 0] \in Tree
         /\ \A n \in Node : [t EXCEPT ![p] = n] \in Tree
<1>1. CASE p \in Path
  <2>1. t[p] \in Node BY <1>1 DEF Tree
  <2>2. QED BY <2>1, <1>1, FieldUpdates DEF Tree
<1>2. CASE p \notin Path
  BY <1>2 DEF Tree
<1>3. QED BY <1>1, <1>2

LEMMA CallsKeepTrees ==
  ASSUME NEW t \in Tree, NEW p, NEW i \in Nat
  PROVE  /\ MakeDirs(t, p) \in Tree
         /\ Create(t, p, i) \in Tree
         /\ RemoveFile(t, p) \in Tree
         /\ Touch(t, p) \in Tree
         /\ \A to \in Path : Link(t, p, i, to) \in Tree
         /\ \A w \in BOOLEAN : SetWritable(t, p, w) \in Tree
         /\ SetStamp(t, p, i) \in Tree
<1>1. \A q : Touch(t, q) \in Tree
  BY TreeUpdates DEF Touch
<1>2. MakeDirs(t, p) \in Tree
  <2>1. \A q \in Path : [t[q] EXCEPT !.stamp = 0] \in Node
    BY FieldUpdates DEF Tree
  <2>2. DOMAIN t = Path /\ \A q \in Path : t[q] \in Node BY DEF Tree
  <2>3. QED BY <2>1, <2>2, FreshNodes DEF MakeDirs, Tree
<1>3. Create(t, p, i) \in Tree
  <2> DEFINE r == Resolve(t, p)
  <2>1. [t EXCEPT ![r].src = i, ![r].full = FALSE, ![r].stamp = 0] \in Tree
    BY TreeUpdates
  <2>2. [Touch(t, Parent(r)) EXCEPT
           ![r] = [Absent EXCEPT !.kind = "file", !.src = i, !.full = FALSE]] \in Tree
    BY <1>1, TreeUpdates, FreshNodes
  <2>3. QED BY <2>1, <2>2 DEF Create
<1>4. RemoveFile(t, p) \in Tree
  BY <1>1, TreeUpdates, FreshNodes DEF RemoveFile
<1>5. \A to \in Path : Link(t, p, i, to) \in Tree
  BY <1>1, TreeUpdates, FreshNodes DEF Link
<1>6. \A w \in BOOLEAN : SetWritable(t, p, w) \in Tree
  BY TreeUpdates DEF SetWritable
<1>7. SetStamp(t, p, i) \in Tree
  BY TreeUpdates DEF SetStamp
<1>8. QED BY <1>1, <1>2, <1>3, <1>4, <1>5, <1>6, <1>7

LEMMA MetadataKeepsTrees ==
  ASSUME NEW t \in Tree, NEW p, NEW i \in Nat, NEW m
  PROVE  SetMode(t, p, m) \in Tree /\ SetTime(t, p, i) \in Tree
BY CallsKeepTrees DEF SetMode, SetTime


----------------------------------------------------------------------------
(***************************************************************************)
(* Type correctness.                                                       *)
(***************************************************************************)
LEMMA ListingTypes ==
  ASSUME TypeOK
  PROVE  /\ entries \in Seq(EntryRecord)
         /\ opts \in OptionRecord
         /\ Len(entries) \in Nat
         /\ Index \subseteq Nat
         /\ fs \in Tree
         /\ \A i \in Index : entries[i] \in EntryRecord
         /\ \A i \in Index : entries[i].to \in Path => Dest \o entries[i].to \in Path
         /\ idx \in Nat /\ got \in Nat
<1>1. entries \in Archives /\ opts \in Options
  BY DEF TypeOK, entries, opts
<1>2. entries \in Seq(EntryRecord) /\ opts \in OptionRecord
  BY <1>1, ArchiveAssumption, OptionAssumption
<1>3. Index = DOMAIN entries /\ Len(entries) \in Nat
  BY <1>2, LenProperties DEF Index
<1>4. \A i \in Index : entries[i] \in EntryRecord
  BY <1>2, <1>3, ElementOfSeq
<1>5. \A i \in Index : entries[i].to \in Path => Dest \o entries[i].to \in Path
  <2> SUFFICES ASSUME NEW i \in Index, entries[i].to \in Path
               PROVE  Dest \o entries[i].to \in Path
    OBVIOUS
  <2>1. <<Wrapper>> \o entries[i].to \in Path
    BY <1>1, <1>3, LinkAssumption
  <2>2. entries[i].to \in Seq(STRING) BY PathAssumption
  <2>3. <<>> \o entries[i].to = entries[i].to BY <2>2, ConcatEmptySeq
  <2>4. QED BY <2>1, <2>3 DEF Dest
<1>6. QED BY <1>2, <1>3, <1>4, <1>5 DEF TypeOK, Tree, Index

\* How every step that is taken on one entry ends, whatever it does to the tree.
Reasons == {"path", "link", "io", "reader", "unsupported"}

Proceed ==
  /\ pc' \in {"reading", "forking"}
  /\ UNCHANGED <<idx, done, failed, aborted, event, result>>

Chunk ==
  \E flow \in IF opts.progress THEN Flows ELSE {"continue"} :
    /\ event' = IF opts.progress
                THEN [type |-> "bytes", index |-> idx, flow |-> flow]
                ELSE event
    /\ IF flow = "abort"
       THEN Abort
       ELSE UNCHANGED <<pc, idx, done, failed, aborted, result>>

EntryStep ==
  /\ Busy
  /\ UNCHANGED job
  /\ Succeed \/ (\E why \in Reasons : Fail(why)) \/ Proceed \/ Chunk

OneEntry ==
  \/ RefusePath \/ MakeDir \/ MakeLink
  \/ CreateFile \/ WriteChunk \/ ReadFails \/ ReadDone
  \/ StartFork \/ ReadFork \/ ForkFails \/ MacForkDone
  \/ ForkTooLong \/ WriteSidecar

LEMMA EntrySteps == OneEntry => EntryStep
<1>1. RefusePath => EntryStep
  BY DEF RefusePath, EntryStep, Busy, Reasons
<1>2. MakeDir => EntryStep
  BY DEF MakeDir, Working, EntryStep, Busy, Reasons
<1>3. MakeLink => EntryStep
  BY DEF MakeLink, Working, EntryStep, Busy, Reasons
<1>4. CreateFile => EntryStep
  BY DEF CreateFile, Working, EntryStep, Busy, Reasons, Proceed
<1>5. WriteChunk => EntryStep
  BY DEF WriteChunk, EntryStep, Busy, Chunk
<1>6. ReadFails => EntryStep
  BY DEF ReadFails, EntryStep, Busy, Reasons
<1>7. ReadDone => EntryStep
  BY DEF ReadDone, EntryStep, Busy
<1>8. StartFork => EntryStep
  BY DEF StartFork, Working, EntryStep, Busy, Reasons, Proceed
<1>9. ReadFork => EntryStep
  BY DEF ReadFork, EntryStep, Busy, Proceed
<1>10. ForkFails => EntryStep
  BY DEF ForkFails, EntryStep, Busy, Reasons
<1>11. MacForkDone => EntryStep
  BY DEF MacForkDone, EntryStep, Busy
<1>12. ForkTooLong => EntryStep
  BY DEF ForkTooLong, EntryStep, Busy, Reasons
<1>13. WriteSidecar => EntryStep
  BY DEF WriteSidecar, EntryStep, Busy, Reasons
<1>14. QED
  BY <1>1, <1>2, <1>3, <1>4, <1>5, <1>6, <1>7, <1>8, <1>9, <1>10, <1>11,
     <1>12, <1>13 DEF OneEntry

\* What the steps on one entry do to the rest of the state keeps its types.
LEMMA EntryData ==
  ASSUME TypeOK, LoopInv, OneEntry
  PROVE  fs' \in Tree /\ got' \in Nat /\ dirTimes' \in Seq(Index)
<1> USE ListingTypes
<1>1. WithParent \in Tree
  BY CallsKeepTrees DEF WithParent
<1>2. idx \in Index /\ dirTimes \in Seq(Index)
  BY EntrySteps DEF EntryStep, LoopInv, TypeOK
<1>3. CASE RefusePath BY <1>2, <1>3 DEF RefusePath
<1>4. CASE MakeDir
  <2>1. MakeDirs(fs, Place) \in Tree BY CallsKeepTrees
  <2>2. fs' \in Tree BY <1>4, <2>1, MetadataKeepsTrees DEF MakeDir
  <2>3. Append(dirTimes, idx) \in Seq(Index)
    BY <1>2, AppendProperties
  <2>4. dirTimes' \in Seq(Index)
    BY <1>2, <1>4, <2>3 DEF MakeDir
  <2>5. QED BY <1>4, <2>2, <2>4 DEF MakeDir
<1>5. CASE MakeLink
  <2>1. CASE fs' = fs \/ fs' = WithParent
    BY <1>1, <1>2, <1>5, <2>1 DEF MakeLink
  <2>2. CASE ~(fs' = fs \/ fs' = WithParent)
    <3> DEFINE t == Link(WithParent, Place, idx, Dest \o entry.to)
    <3>1. entry.to # Outside /\ fs' \in {t, [t EXCEPT ![Place].stamp = idx]}
      BY <1>5, <2>2 DEF MakeLink
    <3>2. entry.to \in Path
      BY <1>2, <3>1 DEF entry, EntryRecord
    <3>3. t \in Tree
      BY <1>1, <1>2, <3>2, CallsKeepTrees DEF entry
    <3>4. [t EXCEPT ![Place].stamp = idx] \in Tree
      BY <3>3, TreeUpdates
    <3>5. fs' \in Tree BY <3>1, <3>3, <3>4
    <3>6. QED BY <1>2, <1>5, <3>5 DEF MakeLink
  <2>3. QED BY <2>1, <2>2
<1>6. CASE CreateFile
  <2>1. fs' \in {fs, WithParent, Create(WithParent, Place, idx)}
    BY <1>6 DEF CreateFile
  <2>2. QED BY <1>1, <1>2, <1>6, <2>1, CallsKeepTrees DEF CreateFile
<1>7. CASE WriteChunk
  <2>1. fs' \in {RemoveFile(fs, Place), Touch(fs, Resolve(fs, Place))}
    BY <1>7 DEF WriteChunk
  <2>2. fs' \in Tree BY <2>1, CallsKeepTrees
  <2>3. QED BY <1>2, <1>7, <2>2 DEF WriteChunk
<1>8. CASE ReadFails
  BY <1>2, <1>8, CallsKeepTrees DEF ReadFails
<1>9. CASE ReadDone
  <2>1. [fs EXCEPT ![Resolve(fs, Place)].full = TRUE] \in Tree
    BY TreeUpdates
  <2>2. fs' \in Tree BY <1>9, <2>1, MetadataKeepsTrees DEF ReadDone
  <2>3. QED BY <1>2, <1>9, <2>2 DEF ReadDone
<1>10. CASE StartFork
  <2>1. MacBase(WithParent) \in Tree
    BY <1>1, TreeUpdates, CallsKeepTrees DEF MacBase
  <2>2. OpenFork(MacBase(WithParent)) \in Tree
    BY <2>1, TreeUpdates DEF OpenFork
  <2>3. fs' \in {fs, WithParent, MacBase(WithParent), OpenFork(MacBase(WithParent))}
    BY <1>10 DEF StartFork
  <2>4. QED BY <1>1, <1>2, <1>10, <2>1, <2>2, <2>3 DEF StartFork
<1>11. CASE ReadFork BY <1>2, <1>11 DEF ReadFork
<1>12. CASE ForkFails BY <1>2, <1>12 DEF ForkFails
<1>13. CASE MacForkDone
  <2>1. [fs EXCEPT ![Resolve(fs, Place)].forkFull = TRUE] \in Tree
    BY TreeUpdates
  <2>2. fs' \in Tree BY <1>13, <2>1, MetadataKeepsTrees DEF MacForkDone
  <2>3. QED BY <1>2, <1>13, <2>2 DEF MacForkDone
<1>14. CASE ForkTooLong BY <1>2, <1>14 DEF ForkTooLong
<1>15. CASE WriteSidecar
  <2> DEFINE side == SidecarPath(Place)
             begun == Create(fs, side, idx)
             whole == [begun EXCEPT ![Resolve(fs, side)].full = TRUE]
  <2>1. begun \in Tree BY CallsKeepTrees
  <2>2. whole \in Tree BY <2>1, TreeUpdates
  <2>3. SetTime(whole, side, idx) \in Tree BY <2>2, MetadataKeepsTrees
  <2>4. fs' \in {fs, begun, SetTime(whole, side, idx)}
    BY <1>15 DEF WriteSidecar
  <2>5. fs' \in Tree BY <2>1, <2>3, <2>4
  <2>6. QED BY <1>2, <1>15, <2>5 DEF WriteSidecar
<1>16. QED
  BY <1>3, <1>4, <1>5, <1>6, <1>7, <1>8, <1>9, <1>10, <1>11, <1>12, <1>13,
     <1>14, <1>15 DEF OneEntry

----------------------------------------------------------------------------
(***************************************************************************)
(* The inductive invariant.                                                *)
(***************************************************************************)
LEMMA SameJob ==
  ASSUME job' = job
  PROVE  /\ entries' = entries /\ opts' = opts /\ Index' = Index
         /\ \A i : Wanted(i)' <=> Wanted(i)
         /\ Subset' = Subset
<1>1. entries' = entries /\ opts' = opts BY DEF entries, opts
<1>2. Index' = Index BY <1>1 DEF Index
<1>3. \A i : Wanted(i)' <=> Wanted(i) BY <1>1 DEF Wanted
<1>4. QED BY <1>1, <1>2, <1>3 DEF Subset

\* What the report says after one more entry, counted or failed.
LEMMA FailedGrows ==
  ASSUME NEW why, failed' = failed \cup {[index |-> idx, why |-> why]}
  PROVE  FailedIndices' = FailedIndices \cup {idx}
<1> DEFINE new == [index |-> idx, why |-> why]
<1>1. new.index = idx OBVIOUS
<1>2. FailedIndices' = {f.index : f \in failed'} BY DEF FailedIndices
<1>3. {f.index : f \in failed \cup {new}} = {f.index : f \in failed} \cup {new.index}
  OBVIOUS
<1>4. QED BY <1>1, <1>2, <1>3 DEF FailedIndices

\* The loop's counter moves past one wanted entry.
LEMMA PassOne ==
  ASSUME NEW S, S \subseteq Nat, NEW n \in S
  PROVE  {i \in S : i < n + 1} = {i \in S : i < n} \cup {n}
<1>1. \A i \in S : i < n + 1 <=> i < n \/ i = n
  OBVIOUS
<1>2. QED BY <1>1

LEMMA FailedSame == ASSUME failed' = failed PROVE FailedIndices' = FailedIndices
BY DEF FailedIndices

LEMMA FailedEmpty == failed = {} => FailedIndices = {}
BY DEF FailedIndices

LEMMA InitInv == Init => IndInv
<1> SUFFICES ASSUME Init PROVE IndInv
  OBVIOUS
<1>1. /\ job \in [entries : Archives, opts : Options, tree : Trees, mac : Platforms]
      /\ entries \in Archives /\ opts \in Options
      /\ fs = job.tree /\ job.tree \in Trees
  BY DEF Init, entries, opts
<1>2. entries \in Seq(EntryRecord) /\ fs \in [Path -> Node]
  BY <1>1, ArchiveAssumption, TreeAssumption
<1>3. Len(entries) \in Nat
  BY <1>2, LenProperties
<1>4. TypeOK
  <2>1. dirTimes \in Seq(Index) BY EmptySeq DEF Init
  <2>2. idx \in 1..Len(entries) + 1 BY <1>3 DEF Init
  <2>3. event \in [type : {"none", "start", "bytes", "done"}, index : Nat, flow : Flows]
    BY DEF Init, NoEvent, Flows
  <2>4. QED BY <1>1, <1>2, <2>1, <2>2, <2>3 DEF Init, TypeOK
<1>5. LoopInv
  BY DEF Init, LoopInv, Busy
<1>6. ReportInv
  <2>1. {i \in Subset : i < idx} = {}
    BY <1>3 DEF Init, Subset, Index
  <2>2. QED BY <2>1, FailedEmpty DEF Init, ReportInv
<1>7. EventInv
  BY DEF Init, EventInv, Busy, NoEvent
<1>8. TreeInv
  BY <1>1 DEF Init, TreeInv, FailsCleanly
<1>9. QED BY <1>4, <1>5, <1>6, <1>7, <1>8 DEF IndInv

LEMMA EntryKeepsInv == IndInv /\ OneEntry => IndInv'
<1> SUFFICES ASSUME IndInv, OneEntry PROVE IndInv'
  OBVIOUS
<1> USE DEF IndInv
<1>1. EntryStep BY EntrySteps
<1>2. job' = job BY <1>1 DEF EntryStep
<1> USE SameJob, <1>2
<1>3. /\ idx \in Index /\ Wanted(idx) /\ idx \in Subset
      /\ Busy /\ ~aborted /\ result = "none"
      /\ idx \in Nat /\ Len(entries) \in Nat /\ Index = 1..Len(entries)
      /\ opts.strict \in BOOLEAN
  <2>1. Busy /\ idx \in Index /\ Wanted(idx)
    BY <1>1 DEF EntryStep, LoopInv
  <2>2. ~aborted /\ result = "none"
    BY <2>1 DEF LoopInv, Busy, TypeOK
  <2>3. QED BY <2>1, <2>2, ListingTypes DEF Subset, Index, OptionRecord
<1>4. fs' \in Tree /\ got' \in Nat /\ dirTimes' \in Seq(Index)
  BY EntryData
<1>5. idx \notin done /\ idx \notin FailedIndices
  BY <1>3 DEF ReportInv
<1>6. Subset \subseteq Nat BY <1>3 DEF Subset
<1>7. CASE Succeed
  <2>1. TypeOK'
    BY <1>3, <1>4, <1>7 DEF Succeed, NextEntry, TypeOK, Tree, Flows
  <2>2. LoopInv'
    BY <1>3, <1>7 DEF Succeed, NextEntry, LoopInv, Busy
  <2>3. ReportInv'
    <3>1. FailedIndices' = FailedIndices
      BY <1>7, FailedSame DEF Succeed
    <3>2. {i \in Subset : i < idx + 1} = {i \in Subset : i < idx} \cup {idx}
      BY <1>3, <1>6, PassOne
    <3>3. QED BY <1>3, <1>5, <1>7, <3>1, <3>2 DEF Succeed, NextEntry, ReportInv
  <2>4. EventInv'
    BY <1>3, <1>7 DEF Succeed, NextEntry, EventInv, Busy, NoEvent
  <2>5. TreeInv'
    BY <1>3, <1>7 DEF Succeed, NextEntry, TreeInv, FailsCleanly
  <2>6. QED BY <2>1, <2>2, <2>3, <2>4, <2>5
<1>8. CASE \E why \in Reasons : Fail(why)
  <2> PICK why \in Reasons : Fail(why) BY <1>8
  <2>1. TypeOK'
    BY <1>3, <1>4 DEF Fail, Return, NextEntry, TypeOK, Tree, Reasons
  <2>2. LoopInv'
    BY <1>3 DEF Fail, Return, NextEntry, LoopInv, Busy
  <2>3. ReportInv'
    <3>1. CASE opts.strict
      BY <3>1, FailedSame DEF Fail, ReportInv
    <3>2. CASE ~opts.strict
      <4>1. FailedIndices' = FailedIndices \cup {idx}
        BY <3>2, FailedGrows DEF Fail
      <4>2. {i \in Subset : i < idx + 1} = {i \in Subset : i < idx} \cup {idx}
        BY <1>3, <1>6, PassOne
      <4>3. QED BY <1>3, <1>5, <3>2, <4>1, <4>2 DEF Fail, NextEntry, ReportInv
    <3>3. QED BY <3>1, <3>2
  <2>4. EventInv'
    <3>1. CASE opts.strict
      BY <1>3, <3>1, FailedSame DEF Fail, Return, EventInv, Busy
    <3>2. CASE ~opts.strict
      <4>1. FailedIndices' = FailedIndices \cup {idx}
        BY <3>2, FailedGrows DEF Fail
      <4>2. QED
        BY <1>3, <3>2, <4>1 DEF Fail, NextEntry, EventInv, Busy, NoEvent
    <3>3. QED BY <3>1, <3>2
  <2>5. TreeInv'
    BY <1>3 DEF Fail, Return, NextEntry, TreeInv, FailsCleanly, EventInv, NoEvent
  <2>6. QED BY <2>1, <2>2, <2>3, <2>4, <2>5
<1>9. CASE Proceed
  <2>1. TypeOK' BY <1>3, <1>4, <1>9 DEF Proceed, TypeOK, Tree
  <2>2. LoopInv' BY <1>3, <1>9 DEF Proceed, LoopInv, Busy
  <2>3. ReportInv' BY <1>9, FailedSame DEF Proceed, ReportInv
  <2>4. EventInv' BY <1>3, <1>9, FailedSame DEF Proceed, EventInv, Busy
  <2>5. TreeInv' BY <1>3, <1>9 DEF Proceed, TreeInv, FailsCleanly
  <2>6. QED BY <2>1, <2>2, <2>3, <2>4, <2>5
<1>10. CASE Chunk
  <2> PICK flow \in IF opts.progress THEN Flows ELSE {"continue"} :
        /\ event' = IF opts.progress
                    THEN [type |-> "bytes", index |-> idx, flow |-> flow]
                    ELSE event
        /\ IF flow = "abort"
           THEN Abort
           ELSE UNCHANGED <<pc, idx, done, failed, aborted, result>>
    BY <1>10 DEF Chunk
  <2>1. TypeOK' BY <1>3, <1>4 DEF Abort, TypeOK, Tree, Flows
  <2>2. LoopInv' BY <1>3 DEF Abort, LoopInv, Busy
  <2>3. ReportInv' BY FailedSame DEF Abort, ReportInv
  <2>4. EventInv'
    BY <1>3, FailedSame DEF Abort, EventInv, Busy, Flows, NoEvent
  <2>5. TreeInv' BY <1>3 DEF Abort, TreeInv, FailsCleanly, Busy
  <2>6. QED BY <2>1, <2>2, <2>3, <2>4, <2>5
<1>11. QED BY <1>1, <1>7, <1>8, <1>9, <1>10 DEF EntryStep

\* The six steps that are not about doing one entry.
LEMMA FrameKeepsInv ==
  IndInv /\ (VerifyPassword \/ MakeWrapper \/ SkipEntry \/ StartEntry \/ EndLoop
             \/ ApplyDirTime) => IndInv'
<1> SUFFICES ASSUME IndInv,
                    VerifyPassword \/ MakeWrapper \/ SkipEntry \/ StartEntry
                    \/ EndLoop \/ ApplyDirTime
             PROVE  IndInv'
  OBVIOUS
<1> USE DEF IndInv
<1>1. job' = job
  BY DEF VerifyPassword, MakeWrapper, SkipEntry, StartEntry, EndLoop, ApplyDirTime
<1> USE SameJob, <1>1
<1>2. /\ idx \in Nat /\ Len(entries) \in Nat /\ Index = 1..Len(entries)
      /\ fs \in Tree /\ Subset \subseteq Nat /\ opts.progress \in BOOLEAN
  BY ListingTypes DEF Index, Subset, OptionRecord
<1>3. CASE VerifyPassword
  <2>1. TypeOK' BY <1>2, <1>3 DEF VerifyPassword, Return, TypeOK
  <2>2. LoopInv' BY <1>3 DEF VerifyPassword, Return, LoopInv, Busy
  <2>3. ReportInv' BY <1>3, FailedSame DEF VerifyPassword, ReportInv
  <2>4. EventInv'
    BY <1>3, FailedSame DEF VerifyPassword, Return, EventInv, Busy
  <2>5. TreeInv' BY <1>3 DEF VerifyPassword, Return, TreeInv, FailsCleanly
  <2>6. QED BY <2>1, <2>2, <2>3, <2>4, <2>5
<1>4. CASE MakeWrapper
  <2>1. fs' \in Tree BY <1>2, <1>4, CallsKeepTrees DEF MakeWrapper
  <2>2. TypeOK' BY <1>2, <1>4, <2>1 DEF MakeWrapper, Return, TypeOK, Tree
  <2>3. LoopInv' BY <1>4 DEF MakeWrapper, Return, LoopInv, Busy
  <2>4. ReportInv' BY <1>4, FailedSame DEF MakeWrapper, ReportInv
  <2>5. event = NoEvent
    BY <1>2, <1>4 DEF MakeWrapper, EventInv
  <2>6. EventInv'
    BY <1>2, <1>4, <2>5, FailedSame DEF MakeWrapper, Return, EventInv, Busy, NoEvent
  <2>7. TreeInv' BY <1>4 DEF MakeWrapper, Return, TreeInv, FailsCleanly, LoopInv
  <2>8. QED BY <2>1, <2>2, <2>3, <2>4, <2>6, <2>7
<1>5. CASE SkipEntry
  <2>1. TypeOK' BY <1>2, <1>5 DEF SkipEntry, NextEntry, TypeOK
  <2>2. LoopInv' BY <1>5 DEF SkipEntry, NextEntry, LoopInv, Busy
  <2>3. ReportInv'
    <3>1. idx \notin Subset BY <1>5 DEF SkipEntry, Subset
    <3>2. \A i \in Subset : i < idx + 1 <=> i < idx BY <1>2, <3>1
    <3>3. {i \in Subset : i < idx + 1} = {i \in Subset : i < idx} BY <3>2
    <3>4. QED BY <1>5, <3>3, FailedSame DEF SkipEntry, NextEntry, ReportInv
  <2>4. EventInv'
    BY <1>2, <1>5, FailedSame DEF SkipEntry, NextEntry, EventInv, Busy, TypeOK
  <2>5. TreeInv' BY <1>5 DEF SkipEntry, NextEntry, TreeInv, FailsCleanly
  <2>6. QED BY <2>1, <2>2, <2>3, <2>4, <2>5
<1>6. CASE StartEntry
  <2> PICK flow \in IF opts.progress THEN Flows ELSE {"continue"} :
        /\ event' = IF opts.progress
                    THEN [type |-> "start", index |-> idx, flow |-> flow]
                    ELSE event
        /\ IF flow = "abort"
           THEN Abort
           ELSE pc' = "work" /\ UNCHANGED <<idx, done, failed, aborted, result>>
    BY <1>6 DEF StartEntry
  <2>1. TypeOK' BY <1>2, <1>6 DEF StartEntry, Abort, TypeOK, Flows
  <2>2. LoopInv' BY <1>6 DEF StartEntry, Abort, LoopInv, Busy
  <2>3. ReportInv' BY FailedSame DEF Abort, ReportInv
  <2>4. EventInv'
    BY <1>6, FailedSame DEF StartEntry, Abort, EventInv, Busy, Flows, NoEvent
  <2>5. TreeInv' BY <1>6 DEF StartEntry, Abort, TreeInv, FailsCleanly, LoopInv
  <2>6. QED BY <2>1, <2>2, <2>3, <2>4, <2>5
<1>7. CASE EndLoop
  <2>1. TypeOK' BY <1>2, <1>7 DEF EndLoop, TypeOK
  <2>2. LoopInv' BY <1>7 DEF EndLoop, LoopInv, Busy
  <2>3. ReportInv' BY <1>7, FailedSame DEF EndLoop, ReportInv
  <2>4. EventInv' BY <1>7, FailedSame DEF EndLoop, EventInv, Busy
  <2>5. TreeInv' BY <1>7 DEF EndLoop, TreeInv, FailsCleanly
  <2>6. QED BY <2>1, <2>2, <2>3, <2>4, <2>5
<1>8. CASE ApplyDirTime
  <2>1. fs' \in Tree /\ dirTimes' \in Seq(Index)
    <3>1. CASE dirTimes = <<>> BY <1>2, <1>8, <3>1 DEF ApplyDirTime, TypeOK
    <3>2. CASE dirTimes # <<>>
      <4>1. dirTimes \in Seq(Index) BY DEF TypeOK
      <4>2. Head(dirTimes) \in Index /\ Tail(dirTimes) \in Seq(Index)
        BY <3>2, <4>1, HeadTailProperties
      <4>3. SetTime(fs, Target(Head(dirTimes)), Head(dirTimes)) \in Tree
        <5>1. \A p : \A i \in Nat : SetTime(fs, p, i) \in Tree
          BY <1>2, MetadataKeepsTrees
        <5>2. QED BY <1>2, <4>2, <5>1
      <4>4. /\ fs' = SetTime(fs, Target(Head(dirTimes)), Head(dirTimes))
            /\ dirTimes' = Tail(dirTimes)
        BY <1>8, <3>2 DEF ApplyDirTime
      <4>5. QED BY <4>2, <4>3, <4>4
    <3>3. QED BY <3>1, <3>2
  <2>2. TypeOK' BY <1>2, <1>8, <2>1 DEF ApplyDirTime, Return, TypeOK, Tree
  <2>3. LoopInv' BY <1>8 DEF ApplyDirTime, Return, LoopInv, Busy
  <2>4. ReportInv' BY <1>8, FailedSame DEF ApplyDirTime, ReportInv
  <2>5. EventInv' BY <1>8, FailedSame DEF ApplyDirTime, Return, EventInv, Busy
  <2>6. TreeInv' BY <1>8 DEF ApplyDirTime, Return, TreeInv, FailsCleanly, LoopInv
  <2>7. QED BY <2>2, <2>3, <2>4, <2>5, <2>6
<1>9. QED BY <1>3, <1>4, <1>5, <1>6, <1>7, <1>8

LEMMA StepInv == IndInv /\ [Next]_vars => IndInv'
<1> SUFFICES ASSUME IndInv, [Next]_vars PROVE IndInv'
  OBVIOUS
<1>1. CASE OneEntry BY <1>1, EntryKeepsInv
<1>2. CASE \/ VerifyPassword \/ MakeWrapper \/ SkipEntry \/ StartEntry
           \/ EndLoop \/ ApplyDirTime
  BY <1>2, FrameKeepsInv
<1>3. CASE UNCHANGED vars
  <2>1. /\ job' = job /\ pc' = pc /\ idx' = idx /\ got' = got /\ fs' = fs
        /\ done' = done /\ failed' = failed /\ aborted' = aborted
        /\ dirTimes' = dirTimes /\ event' = event /\ result' = result
    BY <1>3 DEF vars
  <2>2. FailedIndices' = FailedIndices BY <2>1, FailedSame
  <2>3. TypeOK' BY <2>1, SameJob DEF IndInv, TypeOK
  <2>4. LoopInv' BY <2>1, SameJob DEF IndInv, LoopInv, Busy
  <2>5. ReportInv' BY <2>1, <2>2, SameJob DEF IndInv, ReportInv
  <2>6. EventInv' BY <2>1, <2>2, SameJob DEF IndInv, EventInv, Busy
  <2>7. TreeInv' BY <2>1, SameJob DEF IndInv, TreeInv, FailsCleanly
  <2>8. QED BY <2>3, <2>4, <2>5, <2>6, <2>7 DEF IndInv
<1>4. QED BY <1>1, <1>2, <1>3 DEF Next, OneEntry

\* The inductive invariant holds throughout every call.
THEOREM Inductive == Spec => []IndInv
BY InitInv, StepInv, PTL DEF Spec

----------------------------------------------------------------------------
(***************************************************************************)
(* What follows from it.                                                   *)
(***************************************************************************)

\* The variables keep their types, the tree its shape.
THEOREM TypeCorrect == Spec => []TypeOK
<1>1. IndInv => TypeOK BY DEF IndInv
<1>2. QED BY <1>1, Inductive, PTL

\* A call refused before its first entry has changed nothing on the disk.
THEOREM RefusalIsClean == Spec => []FailsCleanly
<1>1. IndInv => FailsCleanly BY DEF IndInv, TreeInv
<1>2. QED BY <1>1, Inductive, PTL

\* No wanted entry is ever lost from the report, or in it twice.
THEOREM NothingIsLost == Spec => []AllAccounted
<1>1. IndInv => AllAccounted
  <2> SUFFICES ASSUME IndInv PROVE AllAccounted
    OBVIOUS
  <2>1. ASSUME result = "ok", ~aborted PROVE {i \in Subset : i < idx} = Subset
    <3>1. idx \notin Index /\ Index = 1..Len(entries) /\ idx \in 1..Len(entries) + 1
      BY <2>1 DEF IndInv, LoopInv, TypeOK, Index
    <3>2. Len(entries) \in Nat BY ListingTypes DEF IndInv
    <3>3. \A i \in Subset : i < idx BY <3>1, <3>2 DEF Subset
    <3>4. QED BY <3>3
  <2>2. QED BY <2>1 DEF IndInv, ReportInv, AllAccounted
<1>2. QED BY <1>1, Inductive, PTL

\* A strict call that returns Ok uncancelled has extracted everything wanted.
THEOREM StrictMeansAll == Spec => []StrictIsComplete
<1>1. IndInv /\ AllAccounted => StrictIsComplete
  BY FailedEmpty DEF IndInv, ReportInv, AllAccounted, StrictIsComplete
<1>2. QED BY <1>1, Inductive, NothingIsLost, PTL

\* A change of times alone makes no name.
LEMMA TimesMakeNoName ==
  ASSUME NEW t \in Tree, NEW p, NEW i \in Nat, NEW q \in Path
  PROVE  SetTime(t, p, i)[q].kind = t[q].kind
<1>1. t[q] \in Node BY DEF Tree
<1>2. \A r : [t EXCEPT ![r].stamp = i][q].kind = t[q].kind
  BY <1>1 DEF Tree, Node
<1>3. QED BY <1>2 DEF SetTime, SetStamp

\* After an Abort to EntryStart or Bytes the call only sets directory times.
THEOREM AbortStops == Spec => AbortIsFinal
<1>1. ASSUME IndInv, [Next]_vars, event.flow = "abort" /\ event.type # "done"
      PROVE  /\ aborted /\ UNCHANGED <<done, failed, event>>
             /\ \A p \in Path : fs[p].kind = "none" => fs'[p].kind = "none"
  <2>1. aborted /\ pc \in {"stamp", "returned"}
    BY <1>1 DEF IndInv, EventInv, LoopInv
  <2>2. CASE UNCHANGED vars BY <2>1, <2>2 DEF vars
  <2>3. CASE ApplyDirTime
    <3>1. fs \in Tree /\ Index \subseteq Nat /\ dirTimes \in Seq(Index)
      BY <1>1, ListingTypes DEF IndInv, TypeOK
    <3>2. CASE dirTimes = <<>>
      BY <2>1, <2>3, <3>2 DEF ApplyDirTime
    <3>3. CASE dirTimes # <<>>
      <4>1. Head(dirTimes) \in Nat BY <3>1, <3>3, HeadTailProperties
      <4>2. fs' = SetTime(fs, Target(Head(dirTimes)), Head(dirTimes))
        BY <2>3, <3>3 DEF ApplyDirTime
      <4>3. \A p \in Path : fs'[p].kind = fs[p].kind
        BY <3>1, <4>1, <4>2, TimesMakeNoName
      <4>4. QED BY <2>1, <2>3, <4>3 DEF ApplyDirTime
    <3>4. QED BY <3>2, <3>3
  <2>4. CASE OneEntry
    BY <2>1, <2>4, EntrySteps DEF EntryStep, Busy
  <2>5. QED
    BY <1>1, <2>1, <2>2, <2>3, <2>4
    DEF Next, OneEntry, VerifyPassword, MakeWrapper, SkipEntry, StartEntry, EndLoop
<1>2. QED BY <1>1, Inductive, PTL DEF Spec, AbortIsFinal

\* The callback sees a call in order: see EventOrder.
THEOREM EventsInOrder == Spec => EventOrder
<1>1. ASSUME IndInv, [Next]_vars, event' # event
      PROVE  IF event'.type = "start"
             THEN /\ event'.index > event.index
                  /\ event.type \in {"start", "bytes"} => event.index \in FailedIndices
             ELSE /\ event.type \in {"start", "bytes"}
                  /\ event'.index = event.index
                  /\ event'.type = "done" => event'.index \in done'
  <2>1. CASE StartEntry
    BY <1>1, <2>1 DEF StartEntry, IndInv, EventInv, TypeOK
  <2>2. CASE OneEntry
    <3>1. EntryStep BY <2>2, EntrySteps
    <3>2. opts.progress \in BOOLEAN
      BY <1>1, ListingTypes DEF IndInv, OptionRecord
    <3>3. CASE Succeed
      BY <1>1, <3>1, <3>2, <3>3 DEF EntryStep, Succeed, IndInv, EventInv
    <3>4. CASE Chunk
      BY <1>1, <3>1, <3>2, <3>4 DEF EntryStep, Chunk, IndInv, EventInv
    <3>5. QED BY <1>1, <3>1, <3>3, <3>4 DEF EntryStep, Fail, Proceed
  <2>3. QED
    BY <1>1, <2>1, <2>2
    DEF Next, OneEntry, VerifyPassword, MakeWrapper, SkipEntry, EndLoop,
        ApplyDirTime, vars
<1>2. QED BY <1>1, Inductive, PTL DEF Spec, EventOrder

----------------------------------------------------------------------------
(***************************************************************************)
(* Paths: a path's directory, and the directories above it.                *)
(***************************************************************************)
LEMMA PrefixProperties ==
  ASSUME NEW p \in Seq(STRING), NEW k \in 0..Len(p)
  PROVE  /\ SubSeq(p, 1, k) \in Seq(STRING)
         /\ Len(SubSeq(p, 1, k)) = k
         /\ \A m \in 1..k : SubSeq(p, 1, k)[m] = p[m]
<1>1. Len(p) \in Nat /\ \A m \in 1..k : p[m] \in STRING
  BY LenProperties, ElementOfSeq
<1>2. k \in Int /\ 1 \in Int BY <1>1
<1>3. /\ SubSeq(p, 1, k) \in Seq(STRING)
      /\ Len(SubSeq(p, 1, k)) = IF 1 <= k THEN k - 1 + 1 ELSE 0
      /\ \A m \in 1 .. k - 1 + 1 : SubSeq(p, 1, k)[m] = p[1 + m - 1]
  BY <1>1, <1>2, SubSeqProperties
<1>4. k - 1 + 1 = k /\ (~(1 <= k) => k = 0) /\ \A m \in 1..k : 1 + m - 1 = m
  BY <1>1
<1>5. QED BY <1>3, <1>4

\* A place's directory.
LEMMA ParentProperties ==
  ASSUME NEW p \in Path
  PROVE  /\ p \in Seq(STRING) /\ Len(p) \in Nat
         /\ Parent(p) \in Path
         /\ Parent(p) \in WithAncestors(p)
         /\ p \in WithAncestors(p)
         /\ <<>> \in WithAncestors(p)
         /\ p # <<>> => Len(Parent(p)) = Len(p) - 1 /\ Len(p) > 0
<1>1. p \in Seq(STRING) BY PathAssumption
<1>2. Len(p) \in Nat BY <1>1, LenProperties
<1>3. p = SubSeq(p, 1, Len(p)) BY <1>1, SubSeqFull
<1>4. p \in WithAncestors(p)
  <2>1. Len(p) \in 0..Len(p) BY <1>2
  <2>2. QED BY <1>3, <2>1 DEF WithAncestors
<1>5. SubSeq(p, 1, 0) = <<>> BY <1>1, <1>2
<1>6. <<>> \in WithAncestors(p) BY <1>2, <1>5 DEF WithAncestors
<1>7. CASE p = <<>>
  <2>1. Len(p) = 0 BY <1>7
  <2>2. Parent(p) = <<>> BY <1>7, <2>1 DEF Parent
  <2>3. QED BY <1>1, <1>2, <1>4, <1>6, <1>7, <2>2
<1>8. CASE p # <<>>
  <2>1. Len(p) > 0 BY <1>1, <1>8, <1>2, EmptySeq
  <2>2. Len(p) - 1 \in 0..Len(p) BY <1>2, <2>1
  <2>3. Parent(p) \in WithAncestors(p) BY <2>2 DEF Parent, WithAncestors
  <2>4. Parent(p) \in Path BY <2>3, PlaceAssumption
  <2>5. Len(Parent(p)) = Len(p) - 1
    BY <1>1, <2>2, PrefixProperties DEF Parent
  <2>6. QED BY <1>1, <1>2, <1>4, <1>6, <2>1, <2>3, <2>4, <2>5
<1>9. QED BY <1>7, <1>8

\* The places above one, itself among them.
LEMMA AncestorProperties ==
  ASSUME NEW p \in Path, NEW q \in WithAncestors(p)
  PROVE  /\ q \in Path /\ Len(q) <= Len(p)
         /\ Parent(q) \in WithAncestors(p)
         /\ q # p => Len(q) < Len(p) /\ q \in WithAncestors(Parent(p))
<1>1. p \in Seq(STRING) /\ Len(p) \in Nat BY ParentProperties
<1>2. q \in Path BY PlaceAssumption
<1>3. PICK k \in 0..Len(p) : q = SubSeq(p, 1, k) BY DEF WithAncestors
<1>4. Len(q) = k /\ \A m \in 1..k : q[m] = p[m] BY <1>1, <1>3
<1>5. Parent(q) \in WithAncestors(p)
  <2>1. CASE k = 0
    <3>1. q = <<>> BY <1>1, <1>3, <2>1
    <3>2. Parent(q) = <<>> BY <3>1 DEF Parent
    <3>3. QED BY <3>2, ParentProperties
  <2>2. CASE k > 0
    <3>1. Parent(q) = SubSeq(p, 1, k - 1)
      BY <1>1, <1>3, <1>4, <2>2 DEF Parent
    <3>2. k - 1 \in 0..Len(p) BY <1>1, <2>2
    <3>3. QED BY <3>1, <3>2 DEF WithAncestors
  <2>3. QED BY <2>1, <2>2
<1>6. ASSUME q # p PROVE Len(q) < Len(p) /\ q \in WithAncestors(Parent(p))
  <2>1. k # Len(p) BY <1>1, <1>3, <1>6, SubSeqFull
  <2>2. k <= Len(p) - 1 /\ Len(p) - 1 \in Nat BY <1>1, <2>1
  <2>3. q = SubSeq(Parent(p), 1, k) BY <1>1, <1>3, <2>2 DEF Parent
  <2>4. Len(Parent(p)) = Len(p) - 1
    <3>1. Len(p) - 1 \in 0..Len(p) BY <1>1, <2>2
    <3>2. QED BY <1>1, <3>1, PrefixProperties DEF Parent
  <2>5. k \in 0..Len(Parent(p)) BY <2>2, <2>4
  <2>6. QED BY <1>1, <1>4, <2>2, <2>3, <2>5 DEF WithAncestors
<1>7. QED BY <1>1, <1>2, <1>4, <1>5, <1>6

----------------------------------------------------------------------------
(***************************************************************************)
(* What the file system calls do, place by place.                          *)
(***************************************************************************)

\* Two nodes that differ in time and permission at most.
Alike(m, n) ==
  /\ n.kind = m.kind /\ n.src = m.src /\ n.full = m.full
  /\ n.fork = m.fork /\ n.forkFull = m.forkFull /\ n.to = m.to

\* A tree t becomes u: a directory is new in A, anything else in D, and what is
\* made read-only is in L.
Moves(t, u, A, D, L) ==
  \A p \in Path :
    /\ \/ Alike(t[p], u[p])
       \/ p \in A /\ t[p].kind = "none" /\ u[p].kind = "dir"
       \/ p \in D /\ (u[p].kind = "link" => u[p].to \in LinkedFrom(p))
    /\ u[p].writable \/ (u[p].kind = t[p].kind /\ ~t[p].writable) \/ p \in L

\* Two moves in a row are one.
LEMMA MovesTransitive ==
  ASSUME NEW t, NEW u, NEW v, NEW A, NEW D, NEW L,
         Moves(t, u, A, D, L), Moves(u, v, A, D, L)
  PROVE  Moves(t, v, A, D, L)
BY DEF Moves, Alike

\* More room allows no less.
LEMMA MovesInto ==
  ASSUME NEW t, NEW u, NEW A, NEW D, NEW L, NEW B, NEW E, NEW M,
         Moves(t, u, A, D, L), A \subseteq B, D \subseteq E, L \subseteq M
  PROVE  Moves(t, u, B, E, M)
BY DEF Moves

\* Where nothing but directories is made a link is followed as before.
LEMMA SameWay ==
  ASSUME NEW t, NEW u, NEW p \in Path, NEW A, NEW L, Moves(t, u, A, {}, L)
  PROVE  Resolve(u, p) = Resolve(t, p)
BY DEF Moves, Alike, Resolve

\* Following a link stays in the tree.
LEMMA ResolveInPath ==
  ASSUME NEW t \in Tree, NEW p \in Path
  PROVE  Resolve(t, p) \in Path
BY DEF Tree, Node, Resolve

\* A tree that differs from t at one place.
LEMMA OnePlace ==
  ASSUME NEW t \in Tree, NEW u, NEW r, NEW D,
         \A q \in Path : q # r => u[q] = t[q],
         r \in Path =>
           /\ Alike(t[r], u[r]) \/ (r \in D /\ u[r].kind # "link")
           /\ u[r].writable \/ (u[r].kind = t[r].kind /\ ~t[r].writable)
  PROVE  Moves(t, u, {}, D, {})
<1> SUFFICES ASSUME NEW q \in Path
             PROVE  /\ \/ Alike(t[q], u[q])
                       \/ q \in D /\ (u[q].kind = "link" => u[q].to \in LinkedFrom(q))
                    /\ u[q].writable \/ (u[q].kind = t[q].kind /\ ~t[q].writable)
  BY DEF Moves
<1>1. CASE q = r BY <1>1
<1>2. CASE q # r
  <2>1. u[q] = t[q] BY <1>2
  <2>2. t[q] \in Node BY DEF Tree
  <2>3. Alike(t[q], u[q]) BY <2>1 DEF Alike
  <2>4. t[q].writable \in BOOLEAN BY <2>2 DEF Node
  <2>5. QED BY <2>1, <2>3, <2>4
<1>3. QED BY <1>1, <1>2

\* One field of one node.
LEMMA FieldMoves ==
  ASSUME NEW t \in Tree, NEW r, NEW i \in Nat, NEW b \in BOOLEAN
  PROVE  /\ Moves(t, [t EXCEPT ![r].stamp = i], {}, {}, {})
         /\ t[r].kind # "link" => Moves(t, [t EXCEPT ![r].full = b], {}, {r}, {})
         /\ t[r].kind # "link" => Moves(t, [t EXCEPT ![r].forkFull = b], {}, {r}, {})
         /\ t[r].kind # "link" =>
              Moves(t, [t EXCEPT ![r].fork = i, ![r].forkFull = b, ![r].stamp = 0], {}, {r}, {})
<1>1. r \in Path => t[r] \in Node /\ t[r].writable \in BOOLEAN BY DEF Tree, Node
<1>2. Moves(t, [t EXCEPT ![r].stamp = i], {}, {}, {})
  <2> DEFINE u == [t EXCEPT ![r].stamp = i]
  <2>1. \A q \in Path : q # r => u[q] = t[q] BY DEF Tree
  <2>2. r \in Path => u[r] = [t[r] EXCEPT !.stamp = i] BY DEF Tree
  <2>3. r \in Path => Alike(t[r], u[r]) /\ u[r].writable = t[r].writable /\ u[r].kind = t[r].kind
    BY <1>1, <2>2 DEF Node, Alike
  <2> HIDE DEF u
  <2>4. Moves(t, u, {}, {}, {}) BY <1>1, <2>1, <2>3, OnePlace
  <2>5. QED BY <2>4 DEF u
<1>3. ASSUME t[r].kind # "link" PROVE Moves(t, [t EXCEPT ![r].full = b], {}, {r}, {})
  <2> DEFINE u == [t EXCEPT ![r].full = b]
  <2>1. \A q \in Path : q # r => u[q] = t[q] BY DEF Tree
  <2>2. r \in Path => u[r] = [t[r] EXCEPT !.full = b] BY DEF Tree
  <2>3. r \in Path => u[r].kind = t[r].kind /\ u[r].writable = t[r].writable
    BY <1>1, <2>2 DEF Node
  <2> HIDE DEF u
  <2>4. Moves(t, u, {}, {r}, {}) BY <1>1, <1>3, <2>1, <2>3, OnePlace
  <2>5. QED BY <2>4 DEF u
<1>4. ASSUME t[r].kind # "link" PROVE Moves(t, [t EXCEPT ![r].forkFull = b], {}, {r}, {})
  <2> DEFINE u == [t EXCEPT ![r].forkFull = b]
  <2>1. \A q \in Path : q # r => u[q] = t[q] BY DEF Tree
  <2>2. r \in Path => u[r] = [t[r] EXCEPT !.forkFull = b] BY DEF Tree
  <2>3. r \in Path => u[r].kind = t[r].kind /\ u[r].writable = t[r].writable
    BY <1>1, <2>2 DEF Node
  <2> HIDE DEF u
  <2>4. Moves(t, u, {}, {r}, {}) BY <1>1, <1>4, <2>1, <2>3, OnePlace
  <2>5. QED BY <2>4 DEF u
<1>5. ASSUME t[r].kind # "link"
      PROVE  Moves(t, [t EXCEPT ![r].fork = i, ![r].forkFull = b, ![r].stamp = 0], {}, {r}, {})
  <2> DEFINE u == [t EXCEPT ![r].fork = i, ![r].forkFull = b, ![r].stamp = 0]
  <2>1. \A q \in Path : q # r => u[q] = t[q] BY DEF Tree
  <2>2. r \in Path => u[r] = [t[r] EXCEPT !.fork = i, !.forkFull = b, !.stamp = 0]
    BY DEF Tree
  <2> HIDE DEF u
  <2>3. r \in Path => u[r].kind = t[r].kind /\ u[r].writable = t[r].writable
    BY <1>1, <2>2 DEF Node
  <2>4. Moves(t, u, {}, {r}, {}) BY <1>1, <1>5, <2>1, <2>3, OnePlace
  <2>5. QED BY <2>4 DEF u
<1>6. QED BY <1>2, <1>3, <1>4, <1>5

\* A time set changes nothing else.
LEMMA TouchMoves ==
  ASSUME NEW t \in Tree, NEW r, NEW i \in Nat
  PROVE  /\ Moves(t, Touch(t, r), {}, {}, {})
         /\ Moves(t, SetStamp(t, r, i), {}, {}, {})
         /\ Moves(t, t, {}, {}, {})
<1>1. Moves(t, t, {}, {}, {}) BY DEF Moves, Alike, Tree, Node
<1>2. QED BY <1>1, FieldMoves DEF Touch, SetStamp

\* create_dir_all makes directories, above its path, where nothing was.
LEMMA MakeDirsMoves ==
  ASSUME NEW t \in Tree, NEW p
  PROVE  /\ Moves(t, MakeDirs(t, p), WithAncestors(p), {}, {})
         /\ \A q \in Path : MakeDirs(t, p)[q].kind # t[q].kind =>
              q \in WithAncestors(p) /\ t[q].kind = "none" /\ MakeDirs(t, p)[q] = EmptyDir
         /\ \A q \in Path : ~MakeDirs(t, p)[q].writable => ~t[q].writable
<1>1. DOMAIN t = Path /\ \A q \in Path : t[q] \in Node BY DEF Tree
<1>2. CASE t[Resolve(t, p)].kind = "dir"
  <2>1. MakeDirs(t, p) = t BY <1>2 DEF MakeDirs
  <2>2. Moves(t, t, {}, {}, {}) BY TouchMoves
  <2>3. Moves(t, t, WithAncestors(p), {}, {}) BY <2>2, MovesInto
  <2>4. QED BY <2>1, <2>3
<1>3. CASE t[Resolve(t, p)].kind # "dir"
  <2> DEFINE u == MakeDirs(t, p)
  <2>1. ASSUME NEW q \in Path
        PROVE  \/ q \in MissingOn(t, p) /\ u[q] = EmptyDir
               \/ u[q] = [t[q] EXCEPT !.stamp = 0]
               \/ u[q] = t[q]
    BY <1>1, <1>3, <2>1 DEF MakeDirs
  <2>2. ASSUME NEW q \in Path
        PROVE  \/ q \in MissingOn(t, p) /\ u[q] = EmptyDir
               \/ Alike(t[q], u[q]) /\ u[q].writable = t[q].writable
    BY <1>1, <2>1, <2>2 DEF Node, Alike
  <2>3. EmptyDir.kind = "dir" /\ EmptyDir.full /\ EmptyDir.writable
    BY DEF EmptyDir, Absent
  <2>4. \A q \in Path : t[q].writable \in BOOLEAN
    BY <1>1 DEF Node
  <2>5. QED BY <2>2, <2>3, <2>4 DEF Moves, Alike, MissingOn
<1>4. QED BY <1>2, <1>3

\* File::create changes the place its path leads to, and leaves the other fork.
LEMMA CreateMoves ==
  ASSUME NEW t \in Tree, NEW p \in Path, NEW i \in Nat
  PROVE  LET r == Resolve(t, p)
             u == Create(t, p, i)
         IN /\ Moves(t, u, {}, {r}, {})
            /\ u[r].kind = "file" /\ u[r].src = i /\ ~u[r].full
            /\ t[r].kind = "file" => /\ u[r].fork = t[r].fork
                                     /\ u[r].forkFull = t[r].forkFull
                                     /\ u[r].writable = t[r].writable
            /\ t[r].kind # "file" => u[r].writable /\ u[r].forkFull
            /\ \A q \in Path \ {r} : Alike(t[q], u[q]) /\ u[q].writable = t[q].writable
<1> DEFINE r == Resolve(t, p)
           u == Create(t, p, i)
<1>1. r \in Path BY ResolveInPath
<1>2. \A q \in Path : t[q] \in Node BY DEF Tree
<1>3. CASE t[r].kind = "file"
  <2>1. u = [t EXCEPT ![r].src = i, ![r].full = FALSE, ![r].stamp = 0]
    BY <1>3 DEF Create
  <2>2. \A q \in Path \ {r} : u[q] = t[q] BY <2>1, <1>1 DEF Tree
  <2>3. u[r] = [t[r] EXCEPT !.src = i, !.full = FALSE, !.stamp = 0]
    BY <2>1, <1>1 DEF Tree
  <2>4. /\ u[r].kind = "file" /\ u[r].src = i /\ ~u[r].full
        /\ u[r].fork = t[r].fork /\ u[r].forkFull = t[r].forkFull
        /\ u[r].writable = t[r].writable
    BY <1>1, <1>2, <1>3, <2>3 DEF Node
  <2>5. \A q \in Path \ {r} : Alike(t[q], u[q]) /\ u[q].writable = t[q].writable
    BY <2>2 DEF Alike
  <2>6. t[r].writable \in BOOLEAN BY <1>1, <1>2 DEF Node
  <2> HIDE DEF u, r
  <2>7. Moves(t, u, {}, {r}, {})
    BY <1>3, <2>2, <2>4, <2>6, OnePlace
  <2>8. QED BY <1>3, <2>4, <2>5, <2>7 DEF u, r
<1>4. CASE t[r].kind # "file"
  <2> DEFINE w == Touch(t, Parent(r))
             n == [Absent EXCEPT !.kind = "file", !.src = i, !.full = FALSE]
  <2>1. u = [w EXCEPT ![r] = n] BY <1>4 DEF Create
  <2>2. w \in Tree BY CallsKeepTrees
  <2>3. \A q \in Path \ {r} : u[q] = w[q] BY <2>1, <2>2, <1>1 DEF Tree
  <2>4. u[r] = n BY <2>1, <2>2, <1>1 DEF Tree
  <2>5. n.kind = "file" /\ n.src = i /\ ~n.full /\ n.writable /\ n.forkFull
    BY DEF Absent
  <2>6. \A q \in Path : Alike(t[q], w[q]) /\ w[q].writable = t[q].writable
    <3>1. ASSUME NEW q \in Path PROVE Alike(t[q], w[q]) /\ w[q].writable = t[q].writable
      <4>1. w[q] = t[q] \/ w[q] = [t[q] EXCEPT !.stamp = 0]
        BY <3>1 DEF Touch, Tree
      <4>2. QED BY <4>1, <1>2, <3>1 DEF Node, Alike
    <3>2. QED BY <3>1
  <2>7. \A q \in Path \ {r} : Alike(t[q], u[q]) /\ u[q].writable = t[q].writable
    BY <2>3, <2>6
  <2> HIDE DEF u, r, w, n
  <2>8. Moves(t, w, {}, {}, {}) BY TouchMoves DEF w
  <2>9. Moves(w, u, {}, {r}, {}) BY <2>2, <2>3, <2>4, <2>5, OnePlace
  <2>10. Moves(t, w, {}, {r}, {}) BY <2>8, MovesInto
  <2>11. Moves(t, u, {}, {r}, {}) BY <2>9, <2>10, MovesTransitive
  <2>12. QED BY <1>4, <2>4, <2>5, <2>7, <2>11 DEF u, r
<1>5. QED BY <1>3, <1>4

\* remove_file takes one name away or nothing.
LEMMA RemoveMoves ==
  ASSUME NEW t \in Tree, NEW p \in Path
  PROVE  LET u == RemoveFile(t, p)
         IN /\ Moves(t, u, {}, {p}, {})
            /\ \A q \in Path \ {p} : Alike(t[q], u[q])
            /\ u[p] = Absent \/ u = t
            /\ p # <<>> /\ t[p].kind \in {"file", "link"} /\ t[Parent(p)].writable => u[p] = Absent
            /\ t[p].kind \notin {"file", "link"} => u = t
<1> DEFINE u == RemoveFile(t, p)
<1>1. CASE ~(p # <<>> /\ t[p].kind \in {"file", "link"} /\ t[Parent(p)].writable)
  <2>1. u = t BY <1>1 DEF RemoveFile
  <2>2. Moves(t, t, {}, {}, {}) BY TouchMoves
  <2>3. Moves(t, u, {}, {p}, {}) BY <2>1, <2>2, MovesInto
  <2>4. QED BY <1>1, <2>1, <2>3 DEF Alike
<1>2. CASE p # <<>> /\ t[p].kind \in {"file", "link"} /\ t[Parent(p)].writable
  <2> DEFINE w == Touch(t, Parent(p))
  <2>1. u = [w EXCEPT ![p] = Absent] BY <1>2 DEF RemoveFile
  <2>2. w \in Tree BY CallsKeepTrees
  <2>3. \A q \in Path \ {p} : u[q] = w[q] BY <2>1, <2>2 DEF Tree
  <2>4. u[p] = Absent BY <2>1, <2>2 DEF Tree
  <2>5. Moves(t, w, {}, {}, {}) BY TouchMoves
  <2>6. \A q \in Path : Alike(t[q], w[q])
    <3>1. ASSUME NEW q \in Path PROVE Alike(t[q], w[q])
      <4>1. w[q] = t[q] \/ w[q] = [t[q] EXCEPT !.stamp = 0]
        BY <3>1 DEF Touch, Tree
      <4>2. QED BY <4>1, <3>1 DEF Node, Alike, Tree
    <3>2. QED BY <3>1
  <2>7. Moves(t, u, {}, {p}, {})
    BY <2>3, <2>4, <2>5 DEF Moves, Absent
  <2>8. QED BY <1>2, <2>3, <2>4, <2>6, <2>7
<1>3. QED BY <1>1, <1>2

\* Where nothing is written over, what was not missing is alike.
LEMMA NothingWritten ==
  ASSUME NEW t, NEW u, NEW A, NEW L, NEW p \in Path, Moves(t, u, A, {}, L)
  PROVE  /\ t[p].kind # "none" => Alike(t[p], u[p])
         /\ u[p].kind # "dir" => Alike(t[p], u[p])
         /\ Alike(t[p], u[p]) => u[p].kind = t[p].kind /\ u[p].to = t[p].to
BY DEF Moves, Alike

\* Mode and time: only a read-only mode takes the right to write away.
LEMMA MetadataMoves ==
  ASSUME NEW t \in Tree, NEW p \in Path, NEW i \in Nat, NEW m, m # "none" => m \in {"rw", "ro"}
  PROVE  /\ Moves(t, SetMode(t, p, m), {}, {}, IF m = "ro" THEN {Resolve(t, p)} ELSE {})
         /\ Moves(t, SetTime(t, p, i), {}, {}, {})
<1>1. Moves(t, t, {}, {}, {}) BY TouchMoves
<1>2. Moves(t, SetTime(t, p, i), {}, {}, {})
  BY <1>1, TouchMoves DEF SetTime
<1>3. Moves(t, SetMode(t, p, m), {}, {}, IF m = "ro" THEN {Resolve(t, p)} ELSE {})
  <2> DEFINE r == Resolve(t, p)
             u == [t EXCEPT ![r].writable = (m = "rw")]
             L == IF m = "ro" THEN {r} ELSE {}
  <2>1. CASE SetMode(t, p, m) = t
    BY <1>1, <2>1, MovesInto
  <2>2. CASE SetMode(t, p, m) # t
    <3>1. SetMode(t, p, m) = u /\ m \in {"rw", "ro"}
      BY <2>2 DEF SetMode, SetWritable
    <3>2. r \in Path BY ResolveInPath
    <3>3. \A q \in Path : q # r => u[q] = t[q] BY DEF Tree
    <3>4. u[r] = [t[r] EXCEPT !.writable = (m = "rw")] BY <3>2 DEF Tree
    <3>5. t[r] \in Node BY <3>2 DEF Tree
    <3> HIDE DEF u
    <3>6. Alike(t[r], u[r]) BY <3>4, <3>5 DEF Node, Alike
    <3>7. u[r].writable = (m = "rw") BY <3>4, <3>5 DEF Node
    <3>8. \A q \in Path : t[q].writable \in BOOLEAN BY DEF Tree, Node
    <3>9. ASSUME NEW q \in Path
          PROVE  /\ Alike(t[q], u[q])
                 /\ u[q].writable \/ (u[q].kind = t[q].kind /\ ~t[q].writable) \/ q \in L
      <4>1. CASE q = r BY <3>1, <3>6, <3>7, <4>1
      <4>2. CASE q # r BY <3>3, <3>8, <4>2 DEF Alike
      <4>3. QED BY <4>1, <4>2
    <3>10. Moves(t, u, {}, {}, L) BY <3>9 DEF Moves
    <3>11. QED BY <3>1, <3>10
  <2>3. QED BY <2>1, <2>2
<1>4. QED BY <1>2, <1>3

\* A new link, at a place where nothing was.
LEMMA LinkMoves ==
  ASSUME NEW t \in Tree, NEW p \in Path, NEW i \in Nat, NEW to \in LinkedFrom(p),
         t[p].kind = "none"
  PROVE  LET u == Link(t, p, i, to)
         IN /\ Moves(t, u, {}, {p}, {})
            /\ u[p].kind = "link" /\ u[p].src = i
            /\ \A q \in Path \ {p} : Alike(t[q], u[q])
<1> DEFINE w == Touch(t, Parent(p))
           n == [Absent EXCEPT !.kind = "link", !.src = i, !.to = to]
           u == Link(t, p, i, to)
<1>1. u = [w EXCEPT ![p] = n] BY DEF Link
<1>2. w \in Tree BY CallsKeepTrees
<1>3. \A q \in Path : q # p => u[q] = w[q] BY <1>1, <1>2 DEF Tree
<1>4. u[p] = n BY <1>1, <1>2 DEF Tree
<1>5. n.kind = "link" /\ n.src = i /\ n.writable /\ n.to = to BY DEF Absent
<1>6. Moves(t, w, {}, {}, {}) BY TouchMoves
<1> HIDE DEF u, w, n
<1>7. \A q \in Path \ {p} : Alike(t[q], u[q]) BY <1>3, <1>6 DEF Moves
<1>8. Moves(t, u, {}, {p}, {}) BY <1>3, <1>4, <1>5, <1>6 DEF Moves
<1>9. QED BY <1>4, <1>5, <1>7, <1>8 DEF u

----------------------------------------------------------------------------
(***************************************************************************)
(* Names stand in directories.                                             *)
(***************************************************************************)
ShapeOf(t) ==
  /\ t[<<>>].kind = "dir"
  /\ \A p \in Path : p # <<>> /\ t[p].kind # "none" => t[Parent(p)].kind = "dir"

\* New names, if their directory is one, and kinds changed between file and link.
LEMMA ShapeKept ==
  ASSUME NEW t \in Tree, NEW u \in Tree, ShapeOf(t),
         \A p \in Path : t[p].kind = "dir" => u[p].kind = "dir",
         \A p \in Path : t[p].kind = "none" /\ u[p].kind # "none" /\ p # <<>> =>
                           u[Parent(p)].kind = "dir"
  PROVE  ShapeOf(u)
<1>1. <<>> \in Path BY PathAssumption
<1>2. \A p \in Path : Parent(p) \in Path BY ParentProperties
<1>3. QED BY <1>1, <1>2 DEF ShapeOf

\* create_dir_all, where it may: the path is a directory then.
LEMMA MakeDirsShape ==
  ASSUME NEW t \in Tree, NEW p \in Path, ShapeOf(t), CanMakeDirs(t, p)
  PROVE  LET u == MakeDirs(t, p)
         IN /\ ShapeOf(u) /\ u[Resolve(u, p)].kind = "dir"
            /\ \A q \in WithAncestors(p) :
                 \/ u[q].kind = "dir"
                 \/ t[Resolve(t, p)].kind = "dir" /\ u = t
<1> DEFINE u == MakeDirs(t, p)
<1>1. CASE t[Resolve(t, p)].kind = "dir"
  <2>1. u = t BY <1>1 DEF MakeDirs
  <2>2. QED BY <1>1, <2>1
<1>2. CASE t[Resolve(t, p)].kind # "dir"
  <2>1. \A q \in WithAncestors(p) : q \in Path /\ t[q].kind \in {"none", "dir"}
    BY <1>2, PlaceAssumption DEF CanMakeDirs
  <2>2. \A q \in MissingOn(t, p) : u[q] = EmptyDir
    BY <1>2, <2>1 DEF MakeDirs, Tree, MissingOn
  <2>3. Moves(t, u, WithAncestors(p), {}, {}) BY MakeDirsMoves
  <2>4. EmptyDir.kind = "dir" BY DEF EmptyDir, Absent
  <2>5. u \in Tree BY CallsKeepTrees
  <2> HIDE DEF u
  <2>6. \A q \in WithAncestors(p) : u[q].kind = "dir"
    <3>1. ASSUME NEW q \in WithAncestors(p) PROVE u[q].kind = "dir"
      <4>1. CASE t[q].kind = "none" BY <2>2, <2>4, <4>1 DEF MissingOn
      <4>2. CASE t[q].kind = "dir" BY <2>1, <2>3, <4>2, NothingWritten
      <4>3. QED BY <2>1, <4>1, <4>2
    <3>2. QED BY <3>1
  <2>7. u[p].kind = "dir" BY <2>6, ParentProperties
  <2>8. Resolve(u, p) = p BY <2>7 DEF Resolve
  <2>9. ShapeOf(u)
    <3>1. \A q \in Path : t[q].kind = "dir" => u[q].kind = "dir"
      BY <2>3, NothingWritten
    <3>2. ASSUME NEW q \in Path, t[q].kind = "none", u[q].kind # "none"
          PROVE  u[Parent(q)].kind = "dir"
      <4>1. q \in WithAncestors(p) BY <2>3, <3>2 DEF Moves, Alike
      <4>2. Parent(q) \in WithAncestors(p) BY <4>1, AncestorProperties
      <4>3. QED BY <2>6, <4>2
    <3>3. QED BY <2>5, <3>1, <3>2, ShapeKept
  <2>10. QED BY <2>6, <2>7, <2>8, <2>9 DEF u
<1>3. QED BY <1>1, <1>2

\* File::create, where it may: the way to the path is as before.
LEMMA CreateShape ==
  ASSUME NEW t \in Tree, NEW p \in Path, NEW i \in Nat, ShapeOf(t), CanCreate(t, p)
  PROVE  /\ ShapeOf(Create(t, p, i))
         /\ t[Resolve(t, p)].kind \in {"none", "file"}
         /\ Resolve(Create(t, p, i), p) = Resolve(t, p)
<1> DEFINE r == Resolve(t, p)
           u == Create(t, p, i)
<1>1. r \in Path BY ResolveInPath
<1>2. t[r].kind \in {"none", "file"}
      /\ (t[r].kind = "none" => r # <<>> /\ t[Parent(r)].kind = "dir")
  BY DEF CanCreate
<1>3. /\ u[r].kind = "file"
      /\ \A q \in Path \ {r} : Alike(t[q], u[q])
  BY CreateMoves
<1>4. u \in Tree BY CallsKeepTrees
<1>5. Parent(r) \in Path BY <1>1, ParentProperties
<1>6. Resolve(u, p) = r
  <2>1. CASE r = p BY <1>3, <2>1 DEF Resolve
  <2>2. CASE r # p
    <3>1. Alike(t[p], u[p]) BY <1>3, <2>2
    <3>2. QED BY <3>1 DEF Alike, Resolve
  <2>3. QED BY <2>1, <2>2
<1> HIDE DEF u
<1>7. ShapeOf(u)
  <2>1. \A q \in Path : t[q].kind = "dir" => u[q].kind = "dir"
    BY <1>2, <1>3 DEF Alike
  <2>2. \A q \in Path : t[q].kind = "none" /\ u[q].kind # "none" => q = r
    BY <1>3 DEF Alike
  <2>3. t[r].kind = "none" => u[Parent(r)].kind = "dir"
    BY <1>2, <1>5, <2>1
  <2> HIDE DEF r
  <2>4. QED BY <1>4, <2>1, <2>2, <2>3, ShapeKept
<1>8. QED BY <1>2, <1>6, <1>7 DEF u

----------------------------------------------------------------------------
(***************************************************************************)
(* Where an entry's work takes place.                                      *)
(***************************************************************************)
LEMMA SidecarBeside ==
  ASSUME NEW p \in Path, SidecarPath(p) \in Path
  PROVE  /\ Len(SidecarPath(p)) = Len(p)
         /\ \A m \in 1 .. Len(p) - 1 : SidecarPath(p)[m] = p[m]
         /\ Parent(SidecarPath(p)) = Parent(p)
<1> DEFINE s == SidecarPath(p)
<1>1. p \in Seq(STRING) /\ s \in Seq(STRING) BY PathAssumption
<1>2. DOMAIN p = 1..Len(p) /\ Len(p) \in Nat /\ DOMAIN s = 1..Len(s) /\ Len(s) \in Nat
  BY <1>1, LenProperties
<1>3. DOMAIN s = DOMAIN p /\ \A m \in DOMAIN p : m # Len(p) => s[m] = p[m]
  BY DEF SidecarPath
<1> HIDE DEF s
<1>4. Len(s) = Len(p)
  <2>1. 1..Len(s) = 1..Len(p) BY <1>2, <1>3
  <2>2. \A m, n \in Nat : m < n => n \in 1..n /\ n \notin 1..m
    OBVIOUS
  <2>3. ~(Len(s) < Len(p)) /\ ~(Len(p) < Len(s)) BY <1>2, <2>1, <2>2
  <2>4. \A m, n \in Nat : ~(m < n) /\ ~(n < m) => m = n
    OBVIOUS
  <2>5. Len(s) \in Nat /\ Len(p) \in Nat BY <1>2
  <2>6. QED BY <2>3, <2>4, <2>5, Zenon
<1>5. \A m \in 1 .. Len(p) - 1 : s[m] = p[m]
  BY <1>2, <1>3
<1>6. Parent(s) = Parent(p)
  <2>1. CASE Len(p) = 0
    <3>1. Parent(s) = <<>> /\ Parent(p) = <<>>
      BY <1>1, <1>4, <2>1, SubSeqEmpty DEF Parent
    <3>2. QED BY <3>1
  <2>2. CASE Len(p) > 0
    <3>1. Len(p) - 1 \in 0..Len(p) BY <1>2, <2>2
    <3>2. /\ Parent(p) \in Seq(STRING) /\ Len(Parent(p)) = Len(p) - 1
          /\ \A m \in 1 .. Len(p) - 1 : Parent(p)[m] = p[m]
      BY <1>1, <3>1, PrefixProperties DEF Parent
    <3>3. /\ Parent(s) \in Seq(STRING) /\ Len(Parent(s)) = Len(p) - 1
          /\ \A m \in 1 .. Len(p) - 1 : Parent(s)[m] = s[m]
      BY <1>1, <1>4, <3>1, PrefixProperties DEF Parent
    <3>4. \A m \in 1 .. Len(Parent(s)) : Parent(s)[m] = Parent(p)[m]
      BY <1>5, <3>2, <3>3
    <3>5. QED BY <3>2, <3>3, <3>4, SeqEqual
  <2>3. QED BY <1>2, <2>1, <2>2
<1>7. QED BY <1>4, <1>5, <1>6 DEF s

\* An entry that is not refused has a place in the tree, the sidecar too.
LEMMA PlacesExist ==
  ASSUME TypeOK, NEW i \in Index, ~Escapes(entries[i].path)
  PROVE  /\ Target(i) \in Path /\ Own(i) \in Path
         /\ Parent(Own(i)) = Parent(Target(i)) /\ Len(Own(i)) = Len(Target(i))
         /\ entries[i].fork /\ ~MacOS => Own(i) = SidecarPath(Target(i))
         /\ ~(entries[i].fork /\ ~MacOS) => Own(i) = Target(i)
         /\ Normal(entries[i].path) \in Path
         /\ Len(Target(i)) = Len(Dest) + Len(Normal(entries[i].path))
         /\ Dest \in Path
<1>1. entries \in Archives BY DEF TypeOK, entries
<1>2. i \in DOMAIN entries
  <2>1. entries \in Seq(EntryRecord) BY ListingTypes
  <2>2. QED BY <2>1, LenProperties DEF Index
<1> DEFINE n == Normal(entries[i].path)
<1>3. /\ n \in Path /\ <<Wrapper>> \o n \in Path
      /\ entries[i].fork => SidecarPath(n) \in Path /\ SidecarPath(<<Wrapper>> \o n) \in Path
  BY <1>1, <1>2, PlaceAssumption
<1>4. n \in Seq(STRING) BY <1>3, PathAssumption
<1>5. <<>> \o n = n BY <1>4, ConcatEmptySeq
<1>6. /\ Target(i) \in Path
      /\ entries[i].fork => SidecarPath(Target(i)) \in Path
  BY <1>3, <1>5 DEF Target, SafeJoin, Dest
<1>7. Dest \in Path BY PathAssumption, PlaceAssumption DEF Dest
<1>8. Len(Target(i)) = Len(Dest) + Len(n)
  <2>1. Dest \in Seq(STRING) BY <1>7, PathAssumption
  <2>2. Target(i) = Dest \o n BY DEF Target, SafeJoin
  <2> HIDE DEF n
  <2>3. QED BY <1>4, <2>1, <2>2, ConcatProperties
<1> HIDE DEF n
<1>9. QED BY <1>3, <1>6, <1>7, <1>8, SidecarBeside DEF Own, n

\* A link leads into the tree.
LEMMA LinkedPlaces ==
  ASSUME TypeOK, NEW p \in Path
  PROVE  LinkedFrom(p) \subseteq Path
<1>1. \A k \in Index : entries[k].to # Outside => Dest \o entries[k].to \in Path
  BY ListingTypes DEF EntryRecord
<1>2. job.tree \in [Path -> Node] BY TreeAssumption DEF TypeOK
<1>3. \A q \in Path : job.tree[q].to \in Path BY <1>2 DEF Node
<1>4. QED BY <1>1, <1>3 DEF LinkedFrom

\* What depends on the call alone stays.
LEMMA SamePlaces ==
  ASSUME job' = job
  PROVE  /\ MacOS' = MacOS /\ Dest' = Dest
         /\ \A i : Target(i)' = Target(i) /\ Own(i)' = Own(i) /\ Ends(i)' = Ends(i)
         /\ \A p : LinkedFrom(p)' = LinkedFrom(p)
         /\ \A i, j : BothDirs(i, j)' = BothDirs(i, j) /\ ForkPair(i, j)' = ForkPair(i, j)
         /\ \A p : Locked(p)' = Locked(p)
<1>1. entries' = entries /\ opts' = opts /\ Index' = Index /\ Subset' = Subset
  BY SameJob
<1>2. MacOS' = MacOS /\ Dest' = Dest BY <1>1 DEF MacOS, Dest, Wrapped
<1>3. \A i : Target(i)' = Target(i) BY <1>1, <1>2 DEF Target
<1>4. \A i : Own(i)' = Own(i) BY <1>1, <1>2, <1>3 DEF Own
<1>5. \A p : LinkedFrom(p)' = LinkedFrom(p) BY <1>1, <1>2, <1>3 DEF LinkedFrom
<1>6. \A i : Ends(i)' = Ends(i) BY <1>4, <1>5 DEF Ends
<1>7. \A i, j : BothDirs(i, j)' = BothDirs(i, j) /\ ForkPair(i, j)' = ForkPair(i, j)
  BY <1>1, <1>2 DEF BothDirs, ForkPair
<1>8. \A p : Locked(p)' = Locked(p) BY <1>1, <1>6 DEF Locked
<1>9. QED BY <1>2, <1>3, <1>4, <1>5, <1>6, <1>7, <1>8

----------------------------------------------------------------------------
(***************************************************************************)
(* The invariants of the disk.                                             *)
(***************************************************************************)

\* A link leads where the archive or the user's tree says.
LinkInv == \A p \in Path : fs[p].kind = "link" => fs[p].to \in LinkedFrom(p)

\* What may not be written to was so before the call, or an entry made it so.
LockInv ==
  \A p \in Path : ~fs[p].writable =>
    \/ fs[p].kind = job.tree[p].kind /\ ~job.tree[p].writable
    \/ \E i \in Index : entries[i].mode = "ro" /\ p \in Ends(i)

\* What stands on the disk while an entry is being read.
WorkInv ==
  /\ pc = "reading" =>
       /\ ~Escapes(entry.path) /\ entry.kind = "file" /\ ~entry.fork
       /\ LET n == fs[Resolve(fs, Place)]
          IN n.kind = "file" /\ n.src = idx /\ ~n.full
  /\ pc = "forking" =>
       /\ ~Escapes(entry.path) /\ entry.fork
       /\ MacOS => LET n == fs[Resolve(fs, Place)]
                   IN n.kind = "file" /\ n.fork = idx

\* UnfinishedIsRemoved's leftovers.
Leftover(p) ==
  \/ Locked(Parent(p))
  \/ \E i \in Index : p \in LinkedFrom(Own(i))
  \/ DiskFaults /\ entries[fs[p].src].fork

\* What is not whole is a leftover, or is being read.
LeftInv ==
  \A p \in Path : fs[p].kind = "file" /\ ~fs[p].full =>
    Leftover(p) \/ (pc = "reading" /\ p = Resolve(fs, Place))

\* No refused path is among what was extracted.
GoodInv == \A i \in done : ~Escapes(entries[i].path)

\* The inductive invariant for UnfinishedIsRemoved.
DiskInv == ShapeOf(fs) /\ LinkInv /\ LockInv /\ WorkInv /\ LeftInv /\ GoodInv

----------------------------------------------------------------------------
(***************************************************************************)
(* What a step on one entry does to the disk.                              *)
(***************************************************************************)
Leaf(i) == entries[i].kind # "dir" \/ entries[i].fork

\* Where the directories it makes are, and where everything else is.
Around(i) ==
  WithAncestors(Parent(Own(i))) \cup (IF Leaf(i) THEN {} ELSE {Own(i)})

\* An entry's own place, and the place its name leads to.
Spots == {Own(idx), Resolve(fs, Own(idx))}

\* Where an entry may take the right to write away.
ModeSpots == IF entry.mode = "ro" THEN Spots ELSE {}

\* A fork written leaves the data; the data written leave the fork.
SameData(m, n) == n.kind = m.kind /\ n.src = m.src /\ n.full = m.full
SameFork(m, n) == n.kind = m.kind /\ n.fork = m.fork /\ n.forkFull = m.forkFull

\* What was there as a link or as a file's other fork stays unless the step gives
\* the entry up.
OthersKept ==
  idx \in done' \/ (idx' = idx /\ pc' \in {"reading", "forking"}) =>
    \A p \in Path :
      /\ fs[p].kind = "link" => Alike(fs[p], fs'[p])
      /\ fs[p].kind = "file" => IF entry.fork /\ MacOS
                                THEN SameData(fs[p], fs'[p])
                                ELSE SameFork(fs[p], fs'[p])

\* What every step on an entry keeps to.
Sound ==
  /\ Moves(fs, fs', Around(idx), Spots, ModeSpots)
  /\ ShapeOf(fs') /\ WorkInv' /\ LeftInv' /\ OthersKept
  /\ \A i \in done' : i = idx => ~Escapes(entries[i].path) /\ Standing(i)'

\* The same facts are there for every step on an entry.
LEMMA EntryContext ==
  ASSUME IndInv, DiskInv, EntryStep
  PROVE  /\ fs \in Tree /\ job' = job /\ Busy
         /\ idx \in Index /\ idx \in Nat /\ idx \in Subset /\ entry \in EntryRecord
         /\ idx \notin done /\ got \in Nat
         /\ ~Escapes(entry.path) =>
              /\ Place \in Path /\ Own(idx) \in Path /\ Parent(Place) \in Path
              /\ Resolve(fs, Place) \in Path /\ Resolve(fs, Own(idx)) \in Path
              /\ WithAncestors(Parent(Place)) \subseteq Around(idx)
              /\ entry.fork /\ ~MacOS => Own(idx) = SidecarPath(Place)
              /\ ~(entry.fork /\ ~MacOS) => Own(idx) = Place
<1>1. TypeOK /\ LoopInv /\ ReportInv BY DEF IndInv
<1>2. /\ fs \in Tree /\ job' = job /\ Busy
      /\ idx \in Index /\ idx \in Nat /\ idx \in Subset /\ entry \in EntryRecord
      /\ idx \notin done /\ got \in Nat
  <2>1. fs \in Tree /\ idx \in Nat /\ got \in Nat
        /\ \A i \in Index : entries[i] \in EntryRecord
    BY <1>1, ListingTypes
  <2>2. Busy /\ job' = job BY DEF EntryStep
  <2>3. idx \in Index /\ Wanted(idx) BY <1>1, <2>2 DEF LoopInv
  <2>4. idx \notin done BY <1>1, <2>1 DEF ReportInv
  <2>5. QED BY <2>1, <2>2, <2>3, <2>4 DEF entry, Subset
<1>3. ASSUME ~Escapes(entry.path)
      PROVE  /\ Place \in Path /\ Own(idx) \in Path /\ Parent(Place) \in Path
             /\ Resolve(fs, Place) \in Path /\ Resolve(fs, Own(idx)) \in Path
             /\ WithAncestors(Parent(Place)) \subseteq Around(idx)
             /\ entry.fork /\ ~MacOS => Own(idx) = SidecarPath(Place)
             /\ ~(entry.fork /\ ~MacOS) => Own(idx) = Place
  <2>1. /\ Target(idx) \in Path /\ Own(idx) \in Path
        /\ Parent(Own(idx)) = Parent(Target(idx))
        /\ entries[idx].fork /\ ~MacOS => Own(idx) = SidecarPath(Target(idx))
        /\ ~(entries[idx].fork /\ ~MacOS) => Own(idx) = Target(idx)
    BY <1>1, <1>2, <1>3, PlacesExist DEF entry
  <2>2. Parent(Place) \in Path BY <2>1, ParentProperties DEF Place
  <2>3. Resolve(fs, Place) \in Path /\ Resolve(fs, Own(idx)) \in Path
    BY <1>2, <2>1, ResolveInPath DEF Place
  <2>4. QED BY <2>1, <2>2, <2>3 DEF Place, entry, Around
<1>4. QED BY <1>2, <1>3

\* A step that writes over nothing.
LEMMA QuietStep ==
  ASSUME IndInv, DiskInv, EntryStep,
         Moves(fs, fs', Around(idx), {}, ModeSpots), ShapeOf(fs'),
         pc' = "reading" <=> pc = "reading",
         pc' = "forking" => pc = "forking" \/ (~MacOS /\ entry.fork /\ ~Escapes(entry.path)),
         pc' \in {"reading", "forking"} => idx' = idx,
         \A i \in done' : i = idx => ~Escapes(entries[i].path) /\ Standing(i)'
  PROVE  Sound
<1>1. job' = job BY EntryContext
<1>2. /\ entries' = entries /\ MacOS' = MacOS /\ Index' = Index
      /\ \A p : Locked(p)' = Locked(p) /\ LinkedFrom(p)' = LinkedFrom(p)
      /\ \A i : Own(i)' = Own(i) /\ Target(i)' = Target(i)
  BY <1>1, SameJob, SamePlaces
<1>3. Moves(fs, fs', Around(idx), Spots, ModeSpots) BY MovesInto
<1>4. \A p \in Path : fs[p].kind # "none" => Alike(fs[p], fs'[p])
  BY NothingWritten
<1>5. OthersKept
  BY <1>4 DEF OthersKept, Alike, SameData, SameFork
<1>6. ASSUME pc' = "reading" \/ (pc' = "forking" /\ pc = "forking" /\ MacOS)
      PROVE  /\ entry' = entry /\ Place' = Place /\ ~Escapes(entry.path)
             /\ Resolve(fs', Place') = Resolve(fs, Place)
             /\ Alike(fs[Resolve(fs, Place)], fs'[Resolve(fs, Place)])
  <2>1. ~Escapes(entry.path) BY <1>6 DEF DiskInv, WorkInv
  <2>2. entry' = entry /\ Place' = Place
    BY <1>2, <1>6 DEF entry, Place
  <2>3. Place \in Path /\ Resolve(fs, Place) \in Path BY <2>1, EntryContext
  <2>4. Resolve(fs', Place) = Resolve(fs, Place) BY <2>3, SameWay
  <2>5. fs[Resolve(fs, Place)].kind = "file"
    BY <1>6 DEF DiskInv, WorkInv
  <2>6. QED BY <1>4, <2>1, <2>2, <2>3, <2>4, <2>5
<1>7. WorkInv'
  <2>1. ASSUME pc' = "reading"
        PROVE  /\ ~Escapes(entry'.path) /\ entry'.kind = "file" /\ ~entry'.fork
               /\ LET n == fs'[Resolve(fs', Place')]
                  IN n.kind = "file" /\ n.src = idx' /\ ~n.full
    <3>1. /\ ~Escapes(entry.path) /\ entry.kind = "file" /\ ~entry.fork
          /\ LET n == fs[Resolve(fs, Place)]
             IN n.kind = "file" /\ n.src = idx /\ ~n.full
      BY <2>1 DEF DiskInv, WorkInv
    <3>2. QED BY <1>6, <2>1, <3>1 DEF Alike
  <2>2. ASSUME pc' = "forking"
        PROVE  /\ ~Escapes(entry'.path) /\ entry'.fork
               /\ MacOS' => LET n == fs'[Resolve(fs', Place')]
                            IN n.kind = "file" /\ n.fork = idx'
    <3>1. entry' = entry BY <1>2, <2>2 DEF entry
    <3>2. CASE pc = "forking"
      <4>1. /\ ~Escapes(entry.path) /\ entry.fork
            /\ MacOS => LET n == fs[Resolve(fs, Place)]
                        IN n.kind = "file" /\ n.fork = idx
        BY <3>2 DEF DiskInv, WorkInv
      <4>2. QED BY <1>2, <1>6, <2>2, <3>1, <3>2, <4>1 DEF Alike
    <3>3. CASE pc # "forking" BY <1>2, <2>2, <3>1, <3>3
    <3>4. QED BY <3>2, <3>3
  <2>3. QED BY <2>1, <2>2 DEF WorkInv
<1>8. LeftInv'
  <2> SUFFICES ASSUME NEW p \in Path, fs'[p].kind = "file", ~fs'[p].full
               PROVE  Leftover(p)' \/ (pc' = "reading" /\ p = Resolve(fs', Place'))
    BY DEF LeftInv
  <2>1. Alike(fs[p], fs'[p]) BY NothingWritten
  <2>2. Leftover(p) \/ (pc = "reading" /\ p = Resolve(fs, Place))
    BY <2>1 DEF DiskInv, LeftInv, Alike
  <2>3. fs'[p].src = fs[p].src BY <2>1 DEF Alike
  <2>4. Leftover(p)' <=> Leftover(p) BY <1>2, <2>3 DEF Leftover
  <2>5. CASE Leftover(p) BY <2>4, <2>5
  <2>6. CASE pc = "reading" /\ p = Resolve(fs, Place) BY <1>6, <2>6
  <2>7. QED BY <2>2, <2>5, <2>6
<1>9. QED BY <1>3, <1>5, <1>7, <1>8 DEF Sound

----------------------------------------------------------------------------
(***************************************************************************)
(* The steps, one by one.                                                  *)
(***************************************************************************)
LEMMA Composed ==
  ASSUME NEW t, NEW u, NEW D, NEW L,
         Moves(fs, t, Around(idx), {}, {}), Moves(t, u, {}, D, L),
         D \subseteq Spots, L \subseteq ModeSpots
  PROVE  Moves(fs, u, Around(idx), Spots, ModeSpots)
<1>1. Moves(fs, t, Around(idx), Spots, ModeSpots) BY MovesInto
<1>2. Moves(t, u, Around(idx), Spots, ModeSpots) BY MovesInto
<1>3. QED BY <1>1, <1>2, MovesTransitive

\* Mode and time, set last.
LEMMA Dressed ==
  ASSUME NEW t \in Tree, NEW p \in Path, NEW i \in Nat, NEW m, m # "none" => m \in {"rw", "ro"},
         NEW u, u = SetTime(SetMode(t, p, m), p, i),
         NEW L, L = IF m = "ro" THEN {Resolve(t, p)} ELSE {}
  PROVE  /\ Moves(t, u, {}, {}, L)
         /\ u \in Tree
         /\ \A q \in Path : Alike(t[q], u[q])
         /\ Resolve(u, p) = Resolve(t, p)
<1> DEFINE w == SetMode(t, p, m)
<1>1. w \in Tree BY MetadataKeepsTrees
<1>2. u \in Tree BY <1>1, MetadataKeepsTrees
<1>3. Moves(t, w, {}, {}, L) BY MetadataMoves
<1>4. Moves(w, u, {}, {}, {}) BY <1>1, MetadataMoves
<1> HIDE DEF w
<1>5. Moves(w, u, {}, {}, L) BY <1>4, MovesInto
<1>6. Moves(t, u, {}, {}, L) BY <1>3, <1>5, MovesTransitive
<1>7. \A q \in Path : Alike(t[q], u[q]) BY <1>6 DEF Moves
<1>8. Resolve(u, p) = Resolve(t, p) BY <1>6, SameWay
<1>9. QED BY <1>2, <1>6, <1>7, <1>8

\* Time and mode move no name.
LEMMA AlikeShape ==
  ASSUME NEW t \in Tree, NEW u \in Tree, ShapeOf(t), \A p \in Path : Alike(t[p], u[p])
  PROVE  ShapeOf(u)
<1>1. <<>> \in Path BY PathAssumption
<1>2. \A p \in Path : Parent(p) \in Path BY ParentProperties
<1>3. QED BY <1>1, <1>2 DEF ShapeOf, Alike

\* An entry given up is not being read any more.
LEMMA FailEnds ==
  ASSUME NEW why, Fail(why)
  PROVE  pc' \in {"entry", "returned"} /\ done' = done
BY DEF Fail, Return, NextEntry

\* Steps that leave the tree as it is.
LEMMA StillSteps ==
  ASSUME IndInv, DiskInv,
         RefusePath \/ ReadFork \/ ForkFails \/ ForkTooLong
         \/ (OneEntry /\ fs' = fs /\ pc \in {"work", "forking"} /\ \E why : Fail(why))
  PROVE  Sound
<1>1. EntryStep BY EntrySteps DEF OneEntry
<1>2. /\ fs' = fs /\ done' = done
      /\ pc \in {"work", "forking"}
      /\ pc' \in {"entry", "returned"} \/ (pc' = pc /\ pc = "forking" /\ idx' = idx)
  BY FailEnds DEF RefusePath, ReadFork, ForkFails, ForkTooLong
<1>3. fs \in Tree /\ idx \notin done BY <1>1, EntryContext
<1>4. Moves(fs, fs, {}, {}, {}) BY <1>3, TouchMoves
<1>5. Moves(fs, fs', Around(idx), {}, ModeSpots) BY <1>2, <1>4, MovesInto
<1>6. ShapeOf(fs') BY <1>2 DEF DiskInv
<1>7. \A i \in done' : i = idx => ~Escapes(entries[i].path) /\ Standing(i)'
  BY <1>2, <1>3
<1>8. QED BY <1>1, <1>2, <1>5, <1>6, <1>7, QuietStep

\* The directory of an entry's place, made.
LEMMA ParentMade ==
  ASSUME IndInv, DiskInv, EntryStep, ~Escapes(entry.path), ~ParentFails
  PROVE  /\ WithParent \in Tree /\ ShapeOf(WithParent)
         /\ Moves(fs, WithParent, Around(idx), {}, {})
         /\ Resolve(WithParent, Place) = Resolve(fs, Place)
<1>1. /\ fs \in Tree /\ Place \in Path /\ Parent(Place) \in Path
      /\ WithAncestors(Parent(Place)) \subseteq Around(idx)
  BY EntryContext
<1>2. WithParent \in Tree BY <1>1, CallsKeepTrees DEF WithParent
<1>3. Moves(fs, WithParent, WithAncestors(Parent(Place)), {}, {})
  BY <1>1, MakeDirsMoves DEF WithParent
<1>4. Moves(fs, WithParent, Around(idx), {}, {}) BY <1>1, <1>3, MovesInto
<1>5. ShapeOf(WithParent)
  BY <1>1, MakeDirsShape DEF WithParent, ParentFails, DiskInv
<1>6. QED BY <1>1, <1>2, <1>4, <1>5, SameWay

\* Steps that make the directory of the place and fail.
LEMMA ParentOnlyStep ==
  ASSUME IndInv, DiskInv, EntryStep, ~Escapes(entry.path), ~ParentFails,
         pc = "work", fs' = WithParent, done' = done,
         \/ pc' \in {"entry", "returned"}
         \/ pc' = "forking" /\ idx' = idx /\ ~MacOS /\ entry.fork
  PROVE  Sound
<1>1. /\ ShapeOf(WithParent) /\ Moves(fs, WithParent, Around(idx), {}, {})
  BY ParentMade
<1>2. Moves(fs, fs', Around(idx), {}, ModeSpots) BY <1>1, MovesInto
<1>3. idx \notin done BY EntryContext
<1>4. QED BY <1>1, <1>2, <1>3, QuietStep

\* MakeDir keeps to it.
LEMMA MakeDirStep == ASSUME IndInv, DiskInv, MakeDir PROVE Sound
<1>1. EntryStep BY EntrySteps DEF OneEntry
<1>2. ~Escapes(entry.path) /\ pc = "work" /\ ~entry.fork /\ entry.kind = "dir"
  BY DEF MakeDir, Working
<1>3. /\ fs \in Tree /\ Place \in Path /\ Own(idx) = Place /\ idx \in Index /\ idx \in Nat
      /\ entry \in EntryRecord /\ job' = job
  BY <1>1, <1>2, EntryContext
<1>4. CASE CanMakeDirs(fs, Place)
  <2> DEFINE t == MakeDirs(fs, Place)
             u == SetMode(t, Place, entry.mode)
             M == IF entry.mode = "ro" THEN {Resolve(t, Place)} ELSE {}
  <2>1. fs' = u /\ Succeed BY <1>4 DEF MakeDir
  <2>2. t \in Tree /\ u \in Tree BY <1>3, CallsKeepTrees, MetadataKeepsTrees
  <2>3. Moves(fs, t, WithAncestors(Place), {}, {}) BY <1>3, MakeDirsMoves
  <2>4. WithAncestors(Place) \subseteq Around(idx)
    <3>1. ASSUME NEW q \in WithAncestors(Place)
          PROVE  q = Place \/ q \in WithAncestors(Parent(Place))
      BY <1>3, AncestorProperties
    <3>2. Around(idx) = WithAncestors(Parent(Place)) \cup {Place}
      BY <1>2, <1>3 DEF Around, Leaf, entry
    <3>3. QED BY <3>1, <3>2
  <2>5. Moves(fs, t, Around(idx), {}, {}) BY <2>3, <2>4, MovesInto
  <2>6. entry.mode # "none" => entry.mode \in {"rw", "ro"}
    BY <1>3 DEF EntryRecord, Modes
  <2>7. Moves(t, u, {}, {}, M) BY <1>3, <2>2, <2>6, MetadataMoves
  <2>8. ShapeOf(t) /\ t[Resolve(t, Place)].kind = "dir"
    BY <1>3, <1>4, MakeDirsShape DEF DiskInv
  <2> HIDE DEF t, u
  <2>9. Resolve(t, Place) = Resolve(fs, Place) BY <1>3, <2>5, SameWay
  <2>10. M \subseteq ModeSpots BY <1>3, <2>9 DEF ModeSpots, Spots
  <2> HIDE DEF M
  <2>11. Moves(t, u, Around(idx), {}, ModeSpots) BY <2>7, <2>10, MovesInto
  <2>12. Moves(fs, t, Around(idx), {}, ModeSpots) BY <2>5, MovesInto
  <2>13. Moves(fs, u, Around(idx), {}, ModeSpots) BY <2>11, <2>12, MovesTransitive
  <2>14. \A q \in Path : Alike(t[q], u[q]) BY <2>7 DEF Moves
  <2>15. ShapeOf(u) BY <2>2, <2>8, <2>14, AlikeShape
  <2>16. Resolve(u, Place) = Resolve(t, Place) BY <1>3, <2>7, SameWay
  <2>17. u[Resolve(u, Place)].kind = "dir"
    <3>1. Resolve(t, Place) \in Path BY <1>3, <2>2, ResolveInPath
    <3>2. QED BY <2>8, <2>14, <2>16, <3>1 DEF Alike
  <2>18. ASSUME NEW i \in done', i = idx
         PROVE  ~Escapes(entries[i].path) /\ Standing(i)'
    <3>1. /\ entries' = entries /\ Own(i)' = Place /\ entries[i] = entry
      BY <1>3, <2>18, SamePlaces, SameJob DEF entry
    <3>2. Standing(i)' BY <1>2, <2>1, <2>17, <3>1 DEF Standing
    <3>3. QED BY <1>2, <3>1, <3>2
  <2>19. pc' = "entry" BY <2>1 DEF Succeed, NextEntry
  <2>20. QED BY <1>1, <1>2, <2>1, <2>13, <2>15, <2>18, <2>19, QuietStep
<1>5. CASE ~CanMakeDirs(fs, Place)
  <2>1. Fail("io") /\ fs' = fs BY <1>5 DEF MakeDir
  <2>2. QED BY <1>2, <2>1, StillSteps DEF OneEntry
<1>6. QED BY <1>4, <1>5

\* How LeftInv is kept by a step that writes.
LEMMA LeftoversKept ==
  ASSUME IndInv, DiskInv, job' = job,
         \A p \in Path : fs'[p].kind = "file" /\ ~fs'[p].full =>
           \/ SameData(fs[p], fs'[p]) /\ ~(pc = "reading" /\ p = Resolve(fs, Place))
           \/ Leftover(p)'
           \/ pc' = "reading" /\ p = Resolve(fs', Place')
  PROVE  LeftInv'
<1>1. /\ entries' = entries /\ Index' = Index
      /\ \A p : Locked(p)' = Locked(p) /\ LinkedFrom(p)' = LinkedFrom(p)
      /\ \A i : Own(i)' = Own(i)
  BY SameJob, SamePlaces
<1>2. ASSUME NEW p \in Path, fs'[p].kind = "file", ~fs'[p].full,
             SameData(fs[p], fs'[p]), ~(pc = "reading" /\ p = Resolve(fs, Place))
      PROVE  Leftover(p)'
  <2>1. Leftover(p) BY <1>2 DEF DiskInv, LeftInv, SameData
  <2>2. fs'[p].src = fs[p].src BY <1>2 DEF SameData
  <2>3. QED BY <1>1, <2>1, <2>2 DEF Leftover
<1>3. QED BY <1>2 DEF LeftInv

\* The time, noted for the directory or set at once.
LEMMA StampMoves ==
  ASSUME NEW t \in Tree, NEW r, NEW i \in Nat
  PROVE  Moves(t, [t EXCEPT ![r].stamp = i], {}, {}, {}) /\ [t EXCEPT ![r].stamp = i] \in Tree
<1>1. TRUE \in BOOLEAN OBVIOUS
<1>2. QED BY <1>1, FieldMoves, TreeUpdates

\* MakeLink keeps to it.
LEMMA MakeLinkStep == ASSUME IndInv, DiskInv, MakeLink PROVE Sound
<1>1. EntryStep BY EntrySteps DEF OneEntry
<1>2. ~Escapes(entry.path) /\ pc = "work" /\ ~entry.fork /\ entry.kind = "link"
  BY DEF MakeLink, Working
<1>3. /\ fs \in Tree /\ Place \in Path /\ idx \in Index /\ idx \in Nat
      /\ entry \in EntryRecord /\ job' = job /\ idx \notin done
  BY <1>1, <1>2, EntryContext
<1>own. Own(idx) = Place BY <1>1, <1>2, EntryContext
<1>4. CASE fs' = fs /\ \E why : Fail(why)
  BY <1>2, <1>4, StillSteps DEF OneEntry
<1>5. CASE fs' = WithParent /\ ~ParentFails /\ Fail("io")
  <2>1. pc' \in {"entry", "returned"} /\ done' = done BY <1>5, FailEnds
  <2>2. QED BY <1>1, <1>2, <1>5, <2>1, ParentOnlyStep
<1>6. CASE ~ParentFails /\ entry.to # Outside /\ CanLink(WithParent, Place) /\ Succeed
           /\ fs' = LET t == Link(WithParent, Place, idx, Dest \o entry.to)
                    IN IF opts.preserve /\ entry.dated
                       THEN [t EXCEPT ![Place].stamp = idx] ELSE t
  <2> DEFINE t == WithParent
             to == Dest \o entry.to
             u == Link(t, Place, idx, to)
  <2>1. /\ t \in Tree /\ ShapeOf(t) /\ Moves(fs, t, Around(idx), {}, {})
    BY <1>1, <1>2, <1>6, ParentMade
  <2>2. to \in LinkedFrom(Place)
    BY <1>2, <1>3, <1>6 DEF LinkedFrom, Place, entry
  <2>3. to \in Path
    <3>1. TypeOK BY DEF IndInv
    <3>2. QED BY <1>3, <2>2, <3>1, LinkedPlaces
  <2>4. t[Place].kind = "none" /\ Place # <<>> /\ t[Parent(Place)].kind = "dir"
    BY <1>6 DEF CanLink
  <2>5. /\ Moves(t, u, {}, {Place}, {})
        /\ u[Place].kind = "link" /\ u[Place].src = idx
        /\ \A q \in Path \ {Place} : Alike(t[q], u[q])
    <3> HIDE DEF t, to
    <3>1. QED BY <1>3, <2>1, <2>2, <2>4, LinkMoves DEF u
  <2>6. u \in Tree BY <1>3, <2>1, <2>3, CallsKeepTrees
  <2> HIDE DEF u, to
  <2>7. fs' = u \/ fs' = [u EXCEPT ![Place].stamp = idx] BY <1>6 DEF u, to
  <2>8. Moves(u, fs', {}, {}, {}) /\ fs' \in Tree
    BY <1>3, <2>6, <2>7, StampMoves, TouchMoves
  <2>9. \A q \in Path : Alike(u[q], fs'[q]) BY <2>8 DEF Moves
  <2>10. Moves(t, fs', {}, {Place}, {})
    BY <2>5, <2>8, MovesInto, MovesTransitive
  <2>11. Moves(fs, fs', Around(idx), Spots, ModeSpots)
    BY <1>3, <1>own, <2>1, <2>10, Composed DEF Spots
  <2>12. /\ fs'[Place].kind = "link" /\ fs'[Place].src = idx
         /\ \A q \in Path \ {Place} : Alike(t[q], fs'[q])
    BY <1>3, <2>5, <2>9 DEF Alike
  <2>13. \A q \in Path : fs[q].kind # "none" => q # Place /\ Alike(fs[q], t[q])
    BY <2>1, <2>4, NothingWritten DEF Alike
  <2>14. \A q \in Path : fs[q].kind # "none" => Alike(fs[q], fs'[q])
    BY <2>12, <2>13 DEF Alike
  <2>15. ShapeOf(fs')
    <3>1. \A q \in Path : t[q].kind = "dir" => fs'[q].kind = "dir"
      BY <2>4, <2>12 DEF Alike
    <3>2. \A q \in Path : t[q].kind = "none" /\ fs'[q].kind # "none" => q = Place
      BY <2>12 DEF Alike
    <3>3. fs'[Parent(Place)].kind = "dir" BY <1>3, <2>4, <3>1, ParentProperties
    <3>4. QED BY <2>1, <2>8, <3>1, <3>2, <3>3, ShapeKept
  <2>16. pc' = "entry" BY <1>6 DEF Succeed, NextEntry
  <2>17. WorkInv' BY <2>16 DEF WorkInv
  <2>18. OthersKept BY <2>14 DEF OthersKept, Alike, SameData, SameFork
  <2>19. LeftInv'
    <3>1. ASSUME NEW p \in Path, fs'[p].kind = "file"
          PROVE  SameData(fs[p], fs'[p])
      <4>1. p # Place BY <2>12, <3>1
      <4>2. Alike(t[p], fs'[p]) BY <2>12, <4>1
      <4>3. t[p].kind = "file" BY <3>1, <4>2 DEF Alike
      <4>4. Alike(fs[p], t[p]) BY <2>1, <4>3, NothingWritten
      <4>5. QED BY <4>2, <4>4 DEF Alike, SameData
    <3>2. QED BY <1>2, <1>3, <3>1, LeftoversKept
  <2>20. ASSUME NEW i \in done', i = idx
         PROVE  ~Escapes(entries[i].path) /\ Standing(i)'
    <3>1. /\ entries' = entries /\ Own(i)' = Place /\ entries[i] = entry
      BY <1>3, <1>own, <2>20, SamePlaces, SameJob DEF entry
    <3>2. Standing(i)' BY <1>2, <2>12, <2>20, <3>1 DEF Standing
    <3>3. QED BY <1>2, <3>1, <3>2
  <2>21. QED BY <2>11, <2>15, <2>17, <2>18, <2>19, <2>20 DEF Sound
<1>7. QED BY <1>4, <1>5, <1>6 DEF MakeLink

\* CreateFile keeps to it.
LEMMA CreateFileStep == ASSUME IndInv, DiskInv, CreateFile PROVE Sound
<1>1. EntryStep BY EntrySteps DEF OneEntry
<1>2. ~Escapes(entry.path) /\ pc = "work" /\ ~entry.fork /\ entry.kind = "file"
  BY DEF CreateFile, Working
<1>3. /\ fs \in Tree /\ Place \in Path /\ idx \in Index /\ idx \in Nat
      /\ job' = job /\ idx \notin done /\ Resolve(fs, Place) \in Path
  BY <1>1, <1>2, EntryContext
<1>own. Own(idx) = Place BY <1>1, <1>2, EntryContext
<1>4. CASE fs' = fs /\ Fail("io")
  BY <1>2, <1>4, StillSteps DEF OneEntry
<1>5. CASE fs' = WithParent /\ ~ParentFails /\ Fail("io")
  <2>1. pc' \in {"entry", "returned"} /\ done' = done BY <1>5, FailEnds
  <2>2. QED BY <1>1, <1>2, <1>5, <2>1, ParentOnlyStep
<1>6. CASE /\ ~ParentFails /\ CanCreate(WithParent, Place)
           /\ fs' = Create(WithParent, Place, idx)
           /\ pc' = "reading"
           /\ UNCHANGED <<idx, done, failed, aborted, event, result>>
  <2> DEFINE t == WithParent
             r == Resolve(fs, Place)
  <2>1. /\ t \in Tree /\ ShapeOf(t) /\ Moves(fs, t, Around(idx), {}, {})
        /\ Resolve(t, Place) = r
    BY <1>1, <1>2, <1>6, ParentMade
  <2>2. /\ Moves(t, fs', {}, {r}, {})
        /\ fs'[r].kind = "file" /\ fs'[r].src = idx /\ ~fs'[r].full
        /\ t[r].kind = "file" => fs'[r].fork = t[r].fork /\ fs'[r].forkFull = t[r].forkFull
        /\ \A q \in Path \ {r} : Alike(t[q], fs'[q])
    <3>1. fs' = Create(t, Place, idx) BY <1>6
    <3> HIDE DEF t, r
    <3>2. QED BY <1>3, <2>1, <3>1, CreateMoves
  <2>3. /\ ShapeOf(fs') /\ t[r].kind \in {"none", "file"}
        /\ Resolve(fs', Place) = r
    BY <1>3, <1>6, <2>1, CreateShape
  <2>4. Moves(fs, fs', Around(idx), Spots, ModeSpots)
    BY <1>3, <1>own, <2>1, <2>2, Composed DEF Spots
  <2>5. entry' = entry /\ Place' = Place /\ idx' = idx /\ done' = done
    BY <1>3, <1>6, SameJob, SamePlaces DEF entry, Place
  <2>6. WorkInv'
    BY <1>2, <1>6, <2>2, <2>3, <2>5 DEF WorkInv
  <2>7. \A q \in Path : fs[q].kind # "none" => Alike(fs[q], t[q])
    BY <2>1, NothingWritten
  <2>8. OthersKept
    <3>1. \A q \in Path : fs[q].kind = "link" => q # r /\ Alike(fs[q], fs'[q])
      BY <2>2, <2>3, <2>7 DEF Alike
    <3>2. \A q \in Path : fs[q].kind = "file" => SameFork(fs[q], fs'[q])
      BY <2>2, <2>7 DEF Alike, SameFork
    <3>3. QED BY <1>2, <3>1, <3>2 DEF OthersKept
  <2>9. LeftInv'
    <3>1. ASSUME NEW p \in Path, fs'[p].kind = "file"
          PROVE  SameData(fs[p], fs'[p]) \/ p = Resolve(fs', Place')
      <4>1. CASE p = r BY <2>3, <2>5, <4>1
      <4>2. CASE p # r
        <5>1. Alike(t[p], fs'[p]) BY <2>2, <4>2
        <5>2. t[p].kind = "file" BY <3>1, <5>1 DEF Alike
        <5>3. Alike(fs[p], t[p]) BY <2>1, <5>2, NothingWritten
        <5>4. QED BY <5>1, <5>3 DEF Alike, SameData
      <4>3. QED BY <4>1, <4>2
    <3>2. QED BY <1>2, <1>3, <1>6, <3>1, LeftoversKept
  <2>10. QED BY <1>3, <2>3, <2>4, <2>5, <2>6, <2>8, <2>9 DEF Sound
<1>7. QED BY <1>4, <1>5, <1>6 DEF CreateFile

\* The unfinished file is removed, on either way out.
LEMMA RemoveStep ==
  ASSUME IndInv, DiskInv, EntryStep, pc = "reading", fs' = RemoveFile(fs, Place),
         pc' \notin {"reading", "forking"}, done' = done
  PROVE  Sound
<1>1. ~Escapes(entry.path) /\ ~entry.fork
  BY DEF DiskInv, WorkInv
<1>2. /\ fs \in Tree /\ Place \in Path /\ Own(idx) = Place /\ idx \in Index
      /\ job' = job /\ idx \notin done
  BY <1>1, EntryContext
<1>3. /\ Moves(fs, fs', {}, {Place}, {})
      /\ \A q \in Path \ {Place} : Alike(fs[q], fs'[q])
      /\ fs'[Place] = Absent \/ fs' = fs
      /\ Place # <<>> /\ fs[Place].kind \in {"file", "link"} /\ fs[Parent(Place)].writable
           => fs'[Place] = Absent
      /\ fs[Place].kind \notin {"file", "link"} => fs' = fs
  BY <1>2, RemoveMoves
<1>4. Moves(fs, fs', Around(idx), Spots, ModeSpots)
  <2>1. Place \in Spots BY <1>2 DEF Spots
  <2>2. QED BY <1>3, <2>1, MovesInto
<1>5. fs' \in Tree BY <1>2, CallsKeepTrees
<1>6. Absent.kind = "none" BY DEF Absent
<1>7. ShapeOf(fs')
  <2>1. \A q \in Path : fs[q].kind = "dir" => fs'[q].kind = "dir"
    BY <1>3 DEF Alike
  <2>2. \A q \in Path : fs[q].kind = "none" => fs'[q].kind = "none"
    BY <1>3 DEF Alike
  <2>3. QED BY <1>2, <1>5, <2>1, <2>2, ShapeKept DEF DiskInv
<1>8. WorkInv' BY DEF WorkInv
<1>9. OthersKept BY <1>2 DEF OthersKept
<1>10. LeftInv'
  <2>1. ASSUME NEW p \in Path, fs'[p].kind = "file", ~fs'[p].full
        PROVE  \/ SameData(fs[p], fs'[p]) /\ ~(pc = "reading" /\ p = Resolve(fs, Place))
               \/ Leftover(p)'
    <3>1. CASE p # Resolve(fs, Place)
      BY <1>3, <1>6, <2>1, <3>1 DEF Alike, SameData
    <3>2. CASE p = Resolve(fs, Place) /\ p # Place
      <4>1. fs[Place].kind = "link" /\ p = fs[Place].to BY <3>2 DEF Resolve
      <4>2. p \in LinkedFrom(Own(idx)) BY <1>2, <4>1 DEF DiskInv, LinkInv
      <4>3. idx \in Index' /\ p \in LinkedFrom(Own(idx))
        BY <1>2, <4>2, SameJob
      <4>4. Index' = Index /\ \A i : (p \in LinkedFrom(Own(i)))' <=> p \in LinkedFrom(Own(i))
        BY <1>2, SameJob, SamePlaces
      <4>5. QED BY <1>2, <4>3, <4>4 DEF Leftover
    <3>3. CASE p = Resolve(fs, Place) /\ p = Place
      <4>1. fs' = fs BY <1>3, <1>6, <2>1, <3>3
      <4>2. fs[Place].kind = "file" BY <2>1, <3>3, <4>1
      <4>3. Place # <<>> BY <4>2 DEF DiskInv, ShapeOf
      <4>4. ~fs[Parent(Place)].writable BY <1>3, <1>6, <2>1, <3>3, <4>2, <4>3
      <4>5. Parent(Place) \in Path BY <1>2, ParentProperties
      <4>6. fs[Parent(Place)].kind = "dir"
        BY <1>2, <4>2, <4>3 DEF DiskInv, ShapeOf
      <4>7. Locked(Parent(Place)) BY <4>4, <4>5, <4>6 DEF DiskInv, LockInv, Locked
      <4>8. Locked(Parent(p))' BY <1>2, <3>3, <4>7, SamePlaces
      <4>9. QED BY <4>8 DEF Leftover
    <3>4. QED BY <3>1, <3>2, <3>3
  <2>2. QED BY <1>2, <2>1, LeftoversKept
<1>11. QED BY <1>2, <1>4, <1>7, <1>8, <1>9, <1>10 DEF Sound

\* A field of a node, changed: every kind and every link stays.
Filled(t, r) == [t EXCEPT ![r].full = TRUE]
ForkFilled(t, r) == [t EXCEPT ![r].forkFull = TRUE]
Forked(t, r, i) == [t EXCEPT ![r].fork = i, ![r].forkFull = FALSE, ![r].stamp = 0]

\* Nothing but r differs.
OnlyAt(t, u, r) == \A q \in Path : q # r => u[q] = t[q]

\* A node whose file is whole now.
LEMMA FullNode ==
  ASSUME NEW t \in Tree, NEW r \in Path, NEW u, u = Filled(t, r)
  PROVE  /\ u \in Tree /\ OnlyAt(t, u, r)
         /\ u[r].kind = t[r].kind /\ u[r].to = t[r].to /\ u[r].src = t[r].src
         /\ u[r].full = TRUE /\ SameFork(t[r], u[r])
         /\ t[r].kind # "link" => Moves(t, u, {}, {r}, {})
<1>1. t[r] \in Node BY DEF Tree
<1>2. u[r] = [t[r] EXCEPT !.full = TRUE] /\ \A q \in Path : q # r => u[q] = t[q]
  BY DEF Tree, Filled
<1>3. 0 \in Nat /\ TRUE \in BOOLEAN OBVIOUS
<1>4. u \in Tree /\ (t[r].kind # "link" => Moves(t, u, {}, {r}, {}))
  BY <1>3, TreeUpdates, FieldMoves DEF Filled
<1>5. QED BY <1>1, <1>2, <1>4 DEF Node, SameFork, OnlyAt

\* A node whose fork is whole now.
LEMMA ForkFullNode ==
  ASSUME NEW t \in Tree, NEW r \in Path, NEW u, u = ForkFilled(t, r)
  PROVE  /\ u \in Tree /\ OnlyAt(t, u, r)
         /\ u[r].kind = t[r].kind /\ u[r].to = t[r].to /\ u[r].fork = t[r].fork
         /\ u[r].forkFull = TRUE /\ SameData(t[r], u[r])
         /\ t[r].kind # "link" => Moves(t, u, {}, {r}, {})
<1>1. t[r] \in Node BY DEF Tree
<1>2. u[r] = [t[r] EXCEPT !.forkFull = TRUE] /\ \A q \in Path : q # r => u[q] = t[q]
  BY DEF Tree, ForkFilled
<1>3. 0 \in Nat /\ TRUE \in BOOLEAN OBVIOUS
<1>4. u \in Tree /\ (t[r].kind # "link" => Moves(t, u, {}, {r}, {}))
  BY <1>3, TreeUpdates, FieldMoves DEF ForkFilled
<1>5. QED BY <1>1, <1>2, <1>4 DEF Node, SameData, OnlyAt

\* A node whose fork is about to be written.
LEMMA ForkNode ==
  ASSUME NEW t \in Tree, NEW r \in Path, NEW i \in Nat,
         NEW u, u = Forked(t, r, i)
  PROVE  /\ u \in Tree /\ OnlyAt(t, u, r)
         /\ u[r].kind = t[r].kind /\ u[r].to = t[r].to /\ u[r].fork = i
         /\ SameData(t[r], u[r])
         /\ t[r].kind # "link" => Moves(t, u, {}, {r}, {})
<1>1. t[r] \in Node BY DEF Tree
<1>2. /\ u[r] = [t[r] EXCEPT !.fork = i, !.forkFull = FALSE, !.stamp = 0]
      /\ \A q \in Path : q # r => u[q] = t[q]
  BY DEF Tree, Forked
<1>3. FALSE \in BOOLEAN OBVIOUS
<1>4. u \in Tree /\ (t[r].kind # "link" => Moves(t, u, {}, {r}, {}))
  BY <1>3, TreeUpdates, FieldMoves DEF Forked
<1>5. LET n == [t[r] EXCEPT !.fork = i, !.forkFull = FALSE, !.stamp = 0]
      IN n.kind = t[r].kind /\ n.to = t[r].to /\ n.fork = i /\ SameData(t[r], n)
  BY <1>1 DEF Node, SameData
<1>6. QED BY <1>2, <1>4, <1>5 DEF OnlyAt

\* A tree with the same kinds has the same shape.
LEMMA KindShape ==
  ASSUME NEW t \in Tree, NEW u \in Tree, ShapeOf(t), \A p \in Path : u[p].kind = t[p].kind
  PROVE  ShapeOf(u)
<1>1. QED BY ShapeKept

\* What one node stands for when it is dressed afterwards.
LEMMA AlikeKeeps ==
  ASSUME NEW n, NEW m, Alike(n, m)
  PROVE  /\ SameData(n, m) /\ SameFork(n, m)
         /\ m.kind = n.kind /\ m.src = n.src /\ m.full = n.full
         /\ m.fork = n.fork /\ m.forkFull = n.forkFull /\ m.to = n.to
BY DEF Alike, SameData, SameFork

\* ReadDone keeps to it.
LEMMA ReadDoneStep == ASSUME IndInv, DiskInv, ReadDone PROVE Sound
<1>1. EntryStep BY EntrySteps DEF OneEntry
<1>2. pc = "reading" /\ Succeed BY DEF ReadDone
<1>3. /\ ~Escapes(entry.path) /\ ~entry.fork /\ entry.kind = "file"
      /\ LET n == fs[Resolve(fs, Place)]
         IN n.kind = "file" /\ n.src = idx
  BY <1>2 DEF DiskInv, WorkInv
<1>4. /\ fs \in Tree /\ Place \in Path
      /\ idx \in Index /\ idx \in Nat /\ entry \in EntryRecord /\ job' = job
  BY <1>1, <1>3, EntryContext
<1>own. Own(idx) = Place BY <1>1, <1>3, EntryContext
<1> DEFINE r == Resolve(fs, Place)
           w == [fs EXCEPT ![r].full = TRUE]
           mode == entry.mode
           M == IF mode = "ro" THEN {Resolve(w, Place)} ELSE {}
<1>5. /\ r \in Path /\ fs[r].kind = "file" /\ fs[r].src = idx
      /\ w = [fs EXCEPT ![r].full = TRUE]
      /\ fs' = SetTime(SetMode(w, Place, mode), Place, idx)
      /\ mode # "none" => mode \in {"rw", "ro"}
      /\ M = IF mode = "ro" THEN {Resolve(w, Place)} ELSE {}
      /\ {r} \subseteq Spots
      /\ Resolve(w, Place) = r => M \subseteq ModeSpots
  <2>1. r \in Path BY <1>1, <1>3, EntryContext
  <2>2. fs' = SetTime(SetMode(w, Place, mode), Place, idx)
    BY DEF ReadDone
  <2>3. mode # "none" => mode \in {"rw", "ro"}
    BY <1>4 DEF EntryRecord, Modes
  <2>4. {r} \subseteq Spots BY <1>own DEF Spots
  <2>5. Resolve(w, Place) = r => M \subseteq ModeSpots
    BY <1>own DEF Spots, ModeSpots
  <2>6. QED BY <1>3, <2>1, <2>2, <2>3, <2>4, <2>5
<1>r. r = Resolve(fs, Place) OBVIOUS
<1>w. w = Filled(fs, r) BY <1>5 DEF Filled
<1>u. fs' = SetTime(SetMode(w, Place, mode), Place, idx) BY <1>5
<1>m. mode # "none" => mode \in {"rw", "ro"} BY <1>5
<1>M. M = IF mode = "ro" THEN {Resolve(w, Place)} ELSE {} BY <1>5
<1>t. fs \in Tree /\ r \in Path /\ Place \in Path /\ idx \in Nat BY <1>4, <1>5
<1> HIDE DEF r, w, M, mode
<1>6. /\ \A q \in Path : q # r => w[q] = fs[q]
      /\ w[r].kind = fs[r].kind /\ w[r].to = fs[r].to /\ w[r].src = fs[r].src
      /\ w[r].full = TRUE /\ SameFork(fs[r], w[r])
      /\ w \in Tree /\ Moves(fs, w, {}, {r}, {})
  <2>1. fs[r].kind # "link" BY <1>5
  <2>2. OnlyAt(fs, w, r) BY <1>t, <1>w, FullNode
  <2>3. /\ w[r].kind = fs[r].kind /\ w[r].to = fs[r].to /\ w[r].src = fs[r].src
        /\ w[r].full = TRUE /\ SameFork(fs[r], w[r])
        /\ w \in Tree /\ Moves(fs, w, {}, {r}, {})
    BY <1>t, <1>w, <2>1, FullNode
  <2>4. QED BY <2>2, <2>3 DEF OnlyAt
<1>8. Resolve(w, Place) = r BY <1>4, <1>5, <1>6, <1>r DEF Resolve
<1>10. /\ Moves(w, fs', {}, {}, M) /\ fs' \in Tree
       /\ \A q \in Path : Alike(w[q], fs'[q])
       /\ Resolve(fs', Place) = r
  <2>1. w \in Tree BY <1>6
  <2>2. QED BY <1>t, <1>u, <1>m, <1>M, <1>8, <2>1, Dressed
<1>11. Moves(fs, fs', Around(idx), Spots, ModeSpots)
  <2>1. {r} \subseteq Spots /\ M \subseteq ModeSpots BY <1>5, <1>8
  <2>2. Moves(fs, w, Around(idx), Spots, ModeSpots) BY <1>6, <2>1, MovesInto
  <2>3. Moves(w, fs', Around(idx), Spots, ModeSpots) BY <1>10, <2>1, MovesInto
  <2>4. QED BY <2>2, <2>3, MovesTransitive
<1>12. ShapeOf(fs')
  <2>1. \A q \in Path : fs'[q].kind = fs[q].kind BY <1>6, <1>10, AlikeKeeps
  <2>2. QED BY <1>4, <1>10, <2>1, KindShape DEF DiskInv
<1>13. pc' = "entry" BY <1>2 DEF Succeed, NextEntry
<1>14. WorkInv' BY <1>13 DEF WorkInv
<1>15. fs'[r].kind = "file" /\ fs'[r].src = idx /\ fs'[r].full
  BY <1>5, <1>6, <1>10, AlikeKeeps
<1>16. \A q \in Path : q # r => Alike(fs[q], fs'[q])
  BY <1>6, <1>10 DEF Alike
<1>17. LeftInv'
  <2>1. \A p \in Path : fs'[p].kind = "file" /\ ~fs'[p].full =>
          p # r /\ SameData(fs[p], fs'[p])
    BY <1>15, <1>16, AlikeKeeps
  <2>2. QED BY <1>4, <1>r, <2>1, LeftoversKept
<1>18. OthersKept
  <2>1. SameFork(fs[r], fs'[r]) BY <1>5, <1>6, <1>10, AlikeKeeps DEF SameFork
  <2>2. \A q \in Path : fs[q].kind = "link" => q # r BY <1>5
  <2>3. QED BY <1>3, <1>16, <2>1, <2>2, AlikeKeeps DEF OthersKept
<1>19. ASSUME NEW i \in done', i = idx
       PROVE  ~Escapes(entries[i].path) /\ Standing(i)'
  <2>1. /\ entries' = entries /\ Own(i)' = Place /\ entries[i] = entry
    BY <1>4, <1>own, <1>19, SamePlaces, SameJob DEF entry
  <2>2. Resolve(fs', Place) = r BY <1>10
  <2>3. Standing(i)' BY <1>3, <1>15, <1>19, <2>1, <2>2 DEF Standing
  <2>4. QED BY <1>3, <2>1, <2>3
<1>20. QED BY <1>11, <1>12, <1>14, <1>17, <1>18, <1>19 DEF Sound

\* WriteChunk keeps to it.
LEMMA WriteChunkStep == ASSUME IndInv, DiskInv, WriteChunk PROVE Sound
<1>1. EntryStep BY EntrySteps DEF OneEntry
<1>2. pc = "reading" BY DEF WriteChunk
<1>3. ~Escapes(entry.path) BY <1>2 DEF DiskInv, WorkInv
<1>4. fs \in Tree /\ idx \notin done /\ Resolve(fs, Place) \in Path BY <1>1, <1>3, EntryContext
<1>5. CASE Abort /\ fs' = RemoveFile(fs, Place)
  <2>1. pc' \notin {"reading", "forking"} /\ done' = done BY <1>5 DEF Abort
  <2>2. QED BY <1>1, <1>2, <1>5, <2>1, RemoveStep
<1>6. CASE /\ fs' = Touch(fs, Resolve(fs, Place))
           /\ UNCHANGED <<pc, idx, done, failed, aborted, result>>
  <2>1. Moves(fs, fs', {}, {}, {}) BY <1>4, <1>6, TouchMoves
  <2>2. Moves(fs, fs', Around(idx), {}, ModeSpots) BY <2>1, MovesInto
  <2>3. fs' \in Tree
    <3>1. 0 \in Nat OBVIOUS
    <3>2. QED BY <1>4, <1>6, <3>1, CallsKeepTrees
  <2>4. ShapeOf(fs')
    <3>1. \A q \in Path : Alike(fs[q], fs'[q]) BY <2>1 DEF Moves
    <3>2. QED BY <1>4, <2>3, <3>1, AlikeShape DEF DiskInv
  <2>5. QED BY <1>1, <1>2, <1>4, <1>6, <2>2, <2>4, QuietStep
<1>7. QED BY <1>5, <1>6 DEF WriteChunk

\* ReadFails keeps to it.
LEMMA ReadFailsStep == ASSUME IndInv, DiskInv, ReadFails PROVE Sound
<1>1. EntryStep BY EntrySteps DEF OneEntry
<1>2. /\ pc = "reading" /\ fs' = RemoveFile(fs, Place)
      /\ pc' \notin {"reading", "forking"} /\ done' = done
  BY FailEnds DEF ReadFails
<1>3. QED BY <1>1, <1>2, RemoveStep

\* What stood stays, and nothing unfinished is new.
Kept(t, u) ==
  \A p \in Path :
    /\ t[p].kind # "none" => Alike(t[p], u[p])
    /\ u[p].kind = "file" /\ ~u[p].full => Alike(t[p], u[p])

\* On macOS, the file a fork belongs to, made when missing.
LEMMA MacBaseMade ==
  ASSUME NEW t \in Tree, ShapeOf(t), Place \in Path, ~MacBaseFails(t),
         NEW b, b = MacBase(t), NEW r, r = Resolve(t, Place)
  PROVE  /\ b \in Tree /\ ShapeOf(b) /\ Moves(t, b, {}, {r}, {})
         /\ Resolve(b, Place) = r /\ Kept(t, b)
<1>1. r \in Path BY ResolveInPath
<1>2. CASE Exists(t, Place)
  <2>1. b = t BY <1>2 DEF MacBase
  <2>2. Moves(t, t, {}, {}, {})
    <3>1. 0 \in Nat OBVIOUS
    <3>2. QED BY <3>1, TouchMoves
  <2>3. Moves(t, b, {}, {r}, {}) BY <2>1, <2>2, MovesInto
  <2>4. Kept(t, b) BY <2>1 DEF Kept, Alike
  <2>5. QED BY <2>1, <2>3, <2>4
<1>3. CASE ~Exists(t, Place)
  <2> DEFINE c == Create(t, Place, 0)
  <2>1. t[r].kind = "none" /\ CanCreate(t, Place)
    <3>1. t[r] \in Node BY <1>1 DEF Tree
    <3>2. QED BY <1>3, <3>1 DEF Exists, MacBaseFails
  <2>2. b = Filled(c, r) BY <1>3 DEF MacBase, Filled
  <2>3. 0 \in Nat OBVIOUS
  <2>4. c \in Tree BY <2>3, CallsKeepTrees
  <2>5. ShapeOf(c) /\ Resolve(c, Place) = r BY <2>1, <2>3, CreateShape
  <2>6. /\ Moves(t, c, {}, {r}, {}) /\ c[r].kind = "file"
        /\ \A q \in Path \ {r} : Alike(t[q], c[q])
    BY <2>3, CreateMoves
  <2> HIDE DEF c
  <2>7. OnlyAt(c, b, r) BY <1>1, <2>2, <2>4, FullNode
  <2>8. /\ b \in Tree /\ b[r].kind = c[r].kind /\ b[r].to = c[r].to
        /\ b[r].full = TRUE /\ Moves(c, b, {}, {r}, {})
    BY <1>1, <2>2, <2>4, <2>6, FullNode
  <2>9. Moves(t, b, {}, {r}, {}) BY <2>6, <2>8, MovesTransitive
  <2>10. \A q \in Path : b[q].kind = c[q].kind /\ b[q].to = c[q].to
    BY <2>7, <2>8 DEF OnlyAt
  <2>11. Resolve(b, Place) = r BY <2>5, <2>10 DEF Resolve
  <2>12. ShapeOf(b) BY <2>4, <2>5, <2>8, <2>10, KindShape
  <2>13. \A q \in Path : q # r => Alike(t[q], b[q])
    BY <2>6, <2>7 DEF OnlyAt
  <2>14. Kept(t, b) BY <2>1, <2>8, <2>13 DEF Kept
  <2>15. QED BY <2>8, <2>9, <2>11, <2>12, <2>14
<1>4. QED BY <1>2, <1>3

\* StartFork keeps to it.
LEMMA StartForkStep == ASSUME IndInv, DiskInv, StartFork PROVE Sound
<1>1. EntryStep BY EntrySteps DEF OneEntry
<1>2. ~Escapes(entry.path) /\ pc = "work" /\ entry.fork
  <2>1. "file" # "fork" /\ "dir" # "fork" /\ "link" # "fork" OBVIOUS
  <2>2. entry \in EntryRecord BY <1>1, EntryContext
  <2>3. QED BY <2>1, <2>2 DEF StartFork, Working, EntryRecord, EntryKinds
<1>3. /\ fs \in Tree /\ Place \in Path
      /\ idx \in Index /\ idx \in Nat /\ job' = job /\ idx \notin done
  BY <1>1, <1>2, EntryContext
<1>4. CASE fs' = fs /\ Fail("io")
  BY <1>2, <1>4, StillSteps DEF OneEntry
<1>5. CASE fs' = WithParent /\ ~ParentFails /\ Fail("io")
  <2>1. pc' \in {"entry", "returned"} /\ done' = done BY <1>5, FailEnds
  <2>2. QED BY <1>1, <1>2, <1>5, <2>1, ParentOnlyStep
<1>6. CASE /\ ~ParentFails /\ ~MacOS /\ fs' = WithParent /\ pc' = "forking"
           /\ UNCHANGED <<idx, done, failed, aborted, event, result>>
  BY <1>1, <1>2, <1>6, ParentOnlyStep
<1>7. ASSUME ~ParentFails, MacOS, ~MacBaseFails(WithParent),
             \/ fs' = MacBase(WithParent) /\ Fail("io")
             \/ /\ CanOpenFork(MacBase(WithParent))
                /\ fs' = OpenFork(MacBase(WithParent))
                /\ pc' = "forking"
                /\ UNCHANGED <<idx, done, failed, aborted, event, result>>
      PROVE  Sound
  <2> DEFINE t == WithParent
             b == MacBase(t)
             r == Resolve(fs, Place)
  <2>own. {r} \subseteq Spots BY <1>1, <1>2, <1>7, EntryContext DEF Spots
  <2>1. /\ t \in Tree /\ ShapeOf(t) /\ Moves(fs, t, Around(idx), {}, {})
        /\ Resolve(t, Place) = r
    BY <1>1, <1>2, <1>7, ParentMade
  <2>2. /\ b \in Tree /\ ShapeOf(b) /\ Moves(t, b, {}, {r}, {})
        /\ Resolve(b, Place) = r /\ Kept(t, b)
    BY <1>3, <1>7, <2>1, MacBaseMade
  <2>3. r \in Path BY <1>1, <1>2, EntryContext
  <2>r. r = Resolve(fs, Place) /\ MacBase(WithParent) = b OBVIOUS
  <2>t. \A p \in Path : /\ fs[p].kind # "none" => Alike(fs[p], t[p])
                        /\ t[p].kind = "file" => Alike(fs[p], t[p])
    BY <2>1, NothingWritten
  <2> HIDE DEF t, b, r
  <2>4. /\ \A p \in Path : fs[p].kind # "none" => Alike(fs[p], b[p])
        /\ \A p \in Path : b[p].kind = "file" /\ ~b[p].full => SameData(fs[p], b[p])
    BY <2>2, <2>t DEF Kept, Alike, SameData
  <2>5. CASE fs' = b /\ Fail("io")
    <3>1. Moves(fs, fs', Around(idx), Spots, ModeSpots)
      BY <2>own, <2>1, <2>2, <2>5, Composed
    <3>2. pc' \in {"entry", "returned"} /\ done' = done BY <2>5, FailEnds
    <3>3. WorkInv' BY <3>2 DEF WorkInv
    <3>4. OthersKept BY <1>3, <3>2 DEF OthersKept
    <3>5. LeftInv' BY <1>2, <1>3, <2>4, <2>5, LeftoversKept
    <3>6. QED BY <1>3, <2>2, <2>5, <3>1, <3>2, <3>3, <3>4, <3>5 DEF Sound
  <2>6. CASE /\ CanOpenFork(b) /\ fs' = OpenFork(b) /\ pc' = "forking"
             /\ UNCHANGED <<idx, done, failed, aborted, event, result>>
    <3>1. fs' = Forked(b, r, idx) /\ b[r].kind = "file"
      BY <2>2, <2>6 DEF OpenFork, Forked, CanOpenFork
    <3>2. OnlyAt(b, fs', r) BY <1>3, <2>2, <2>3, <3>1, ForkNode
    <3>3. /\ fs' \in Tree
          /\ fs'[r].kind = b[r].kind /\ fs'[r].to = b[r].to /\ fs'[r].fork = idx
          /\ SameData(b[r], fs'[r]) /\ Moves(b, fs', {}, {r}, {})
      BY <1>3, <2>2, <2>3, <3>1, ForkNode
    <3>4. Moves(t, fs', {}, {r}, {}) BY <2>2, <3>3, MovesTransitive
    <3>5. Moves(fs, fs', Around(idx), Spots, ModeSpots)
      BY <2>own, <2>1, <3>4, Composed
    <3>6. \A q \in Path : fs'[q].kind = b[q].kind /\ fs'[q].to = b[q].to /\ SameData(b[q], fs'[q])
      BY <3>2, <3>3 DEF OnlyAt, SameData
    <3>7. ShapeOf(fs') BY <2>2, <3>3, <3>6, KindShape
    <3>8. Resolve(fs', Place) = r BY <1>3, <2>2, <3>6 DEF Resolve
    <3>9. entry' = entry /\ Place' = Place /\ idx' = idx /\ done' = done
      BY <1>3, <2>6, SameJob, SamePlaces DEF entry, Place
    <3>10. WorkInv'
      <4>1. pc' = "forking" BY <2>6
      <4>2. fs'[Resolve(fs', Place')].kind = "file" /\ fs'[Resolve(fs', Place')].fork = idx'
        BY <3>1, <3>3, <3>8, <3>9
      <4>3. QED BY <1>2, <3>9, <4>1, <4>2 DEF WorkInv
    <3>11. OthersKept
      <4>1. \A q \in Path : fs[q].kind = "file" => SameData(fs[q], fs'[q])
        BY <2>4, <3>6 DEF Alike, SameData
      <4>2. \A q \in Path : fs[q].kind = "link" => Alike(fs[q], fs'[q])
        <5>1. ASSUME NEW q \in Path, fs[q].kind = "link" PROVE Alike(fs[q], fs'[q])
          <6>1. Alike(fs[q], b[q]) BY <2>4, <5>1
          <6>2. q # r BY <3>1, <5>1, <6>1 DEF Alike
          <6>3. fs'[q] = b[q] BY <3>2, <6>2 DEF OnlyAt
          <6>4. QED BY <6>1, <6>3
        <5>2. QED BY <5>1
      <4>3. QED BY <1>2, <1>7, <4>1, <4>2 DEF OthersKept
    <3>12. LeftInv'
      <4>1. \A p \in Path : fs'[p].kind = "file" /\ ~fs'[p].full => SameData(fs[p], fs'[p])
        BY <2>4, <3>6 DEF SameData
      <4>2. QED BY <1>2, <1>3, <4>1, LeftoversKept
    <3>13. QED BY <1>3, <3>5, <3>7, <3>9, <3>10, <3>11, <3>12 DEF Sound
  <2>7. QED BY <1>7, <2>5, <2>6, <2>r
<1>8. QED BY <1>4, <1>5, <1>6, <1>7 DEF StartFork

\* MacForkDone keeps to it.
LEMMA MacForkDoneStep == ASSUME IndInv, DiskInv, MacForkDone PROVE Sound
<1>1. EntryStep BY EntrySteps DEF OneEntry
<1>2. pc = "forking" /\ Succeed /\ MacOS BY DEF MacForkDone
<1>3. /\ ~Escapes(entry.path) /\ entry.fork
      /\ LET n == fs[Resolve(fs, Place)]
         IN n.kind = "file" /\ n.fork = idx
  BY <1>2 DEF DiskInv, WorkInv
<1>4. /\ fs \in Tree /\ Place \in Path
      /\ idx \in Index /\ idx \in Nat /\ job' = job
  BY <1>1, <1>3, EntryContext
<1>own. Own(idx) = Place BY <1>1, <1>2, <1>3, EntryContext
<1> DEFINE r == Resolve(fs, Place)
           w == ForkFilled(fs, r)
<1>5. /\ r \in Path /\ fs[r].kind = "file" /\ fs[r].fork = idx
      /\ fs' = SetTime(w, Place, idx) /\ {r} \subseteq Spots
  <2>1. r \in Path BY <1>1, <1>3, EntryContext
  <2>2. fs' = SetTime(w, Place, idx) BY DEF MacForkDone, ForkFilled
  <2>3. {r} \subseteq Spots BY <1>own DEF Spots
  <2>4. QED BY <1>3, <2>1, <2>2, <2>3
<1>r. r = Resolve(fs, Place) /\ w = ForkFilled(fs, r) OBVIOUS
<1> HIDE DEF r, w
<1>6. OnlyAt(fs, w, r) BY <1>4, <1>5, <1>r, ForkFullNode
<1>7. /\ w \in Tree /\ w[r].kind = fs[r].kind /\ w[r].to = fs[r].to /\ w[r].fork = fs[r].fork
      /\ w[r].forkFull = TRUE /\ SameData(fs[r], w[r]) /\ Moves(fs, w, {}, {r}, {})
  BY <1>4, <1>5, <1>r, ForkFullNode
<1>8. Moves(w, fs', {}, {}, {}) /\ fs' \in Tree
  <2>1. "none" # "none" => "none" \in {"rw", "ro"} OBVIOUS
  <2>2. QED BY <1>4, <1>5, <1>7, <2>1, MetadataMoves, MetadataKeepsTrees
<1>9. \A q \in Path : Alike(w[q], fs'[q]) BY <1>8 DEF Moves
<1>10. Moves(fs, fs', Around(idx), Spots, ModeSpots)
  <2>1. Moves(fs, w, Around(idx), Spots, ModeSpots) BY <1>5, <1>7, MovesInto
  <2>2. Moves(w, fs', Around(idx), Spots, ModeSpots) BY <1>8, MovesInto
  <2>3. QED BY <2>1, <2>2, MovesTransitive
<1>11. \A q \in Path : /\ fs'[q].kind = fs[q].kind /\ fs'[q].to = fs[q].to
                       /\ SameData(fs[q], fs'[q])
  BY <1>6, <1>7, <1>9 DEF OnlyAt, Alike, SameData
<1>12. ShapeOf(fs') BY <1>4, <1>8, <1>11, KindShape DEF DiskInv
<1>13. pc' = "entry" BY <1>2 DEF Succeed, NextEntry
<1>14. WorkInv' BY <1>13 DEF WorkInv
<1>15. LeftInv' BY <1>2, <1>4, <1>11, LeftoversKept
<1>16. OthersKept
  <2>1. \A q \in Path : fs[q].kind = "link" => Alike(fs[q], fs'[q])
    BY <1>5, <1>6, <1>9 DEF OnlyAt
  <2>2. QED BY <1>2, <1>3, <1>11, <2>1 DEF OthersKept
<1>17. ASSUME NEW i \in done', i = idx
       PROVE  ~Escapes(entries[i].path) /\ Standing(i)'
  <2>1. /\ entries' = entries /\ Own(i)' = Place /\ entries[i] = entry /\ MacOS' = MacOS
    BY <1>4, <1>own, <1>17, SamePlaces, SameJob DEF entry
  <2>2. Resolve(fs', Place) = r BY <1>4, <1>11, <1>r DEF Resolve
  <2>3. fs'[r].kind = "file" /\ fs'[r].fork = idx /\ fs'[r].forkFull
    BY <1>5, <1>7, <1>9 DEF Alike
  <2>4. Standing(i)' BY <1>2, <1>3, <1>17, <2>1, <2>2, <2>3 DEF Standing
  <2>5. QED BY <1>3, <2>1, <2>4
<1>18. QED BY <1>10, <1>12, <1>14, <1>15, <1>16, <1>17 DEF Sound

\* WriteSidecar keeps to it.
LEMMA WriteSidecarStep == ASSUME IndInv, DiskInv, WriteSidecar PROVE Sound
<1>1. EntryStep BY EntrySteps DEF OneEntry
<1>2. pc = "forking" /\ ~MacOS BY DEF WriteSidecar
<1>3. ~Escapes(entry.path) /\ entry.fork
  BY <1>2 DEF DiskInv, WorkInv
<1> DEFINE side == SidecarPath(Place)
           begun == Create(fs, side, idx)
           r == Resolve(fs, side)
           whole == Filled(begun, r)
<1>4. /\ fs \in Tree
      /\ idx \in Index /\ idx \in Nat /\ job' = job /\ idx \notin done
  BY <1>1, <1>3, EntryContext
<1>own. Own(idx) = side BY <1>1, <1>2, <1>3, EntryContext
<1>5. side \in Path /\ r \in Path /\ {r} \subseteq Spots
  <2>1. Own(idx) \in Path /\ Resolve(fs, Own(idx)) \in Path
    BY <1>1, <1>3, EntryContext
  <2>2. QED BY <1>own, <2>1 DEF Spots
<1>6. CASE fs' = fs /\ Fail("io")
  BY <1>2, <1>6, StillSteps DEF OneEntry
<1>7. ASSUME CanCreate(fs, side),
             \/ DiskFaults /\ fs' = begun /\ Fail("io")
             \/ fs' = SetTime(whole, side, idx) /\ Succeed
      PROVE  Sound
  <2>1. ShapeOf(begun) /\ fs[r].kind \in {"none", "file"} /\ Resolve(begun, side) = r
    BY <1>4, <1>5, <1>7, CreateShape DEF DiskInv
  <2>2. /\ Moves(fs, begun, {}, {r}, {})
        /\ begun[r].kind = "file" /\ begun[r].src = idx
        /\ fs[r].kind = "file" => begun[r].fork = fs[r].fork /\ begun[r].forkFull = fs[r].forkFull
        /\ \A q \in Path \ {r} : Alike(fs[q], begun[q])
    BY <1>4, <1>5, CreateMoves
  <2>3. begun \in Tree BY <1>4, CallsKeepTrees
  <2>w. r = Resolve(fs, side) /\ whole = Filled(begun, r) OBVIOUS
  <2> HIDE DEF side, begun, r, whole
  <2>4. Moves(fs, begun, Around(idx), Spots, ModeSpots) BY <1>5, <2>2, MovesInto
  <2>5. CASE DiskFaults /\ fs' = begun /\ Fail("io")
    <3>1. pc' \in {"entry", "returned"} /\ done' = done BY <2>5, FailEnds
    <3>2. WorkInv' BY <3>1 DEF WorkInv
    <3>3. OthersKept BY <1>4, <3>1 DEF OthersKept
    <3>4. LeftInv'
      <4>1. ASSUME NEW p \in Path, fs'[p].kind = "file", ~fs'[p].full
            PROVE  SameData(fs[p], fs'[p]) \/ Leftover(p)'
        <5>1. CASE p = r
          <6>1. entries'[fs'[p].src].fork
            BY <1>3, <1>4, <2>2, <2>5, <5>1, SameJob DEF entry
          <6>2. QED BY <2>5, <6>1 DEF Leftover
        <5>2. CASE p # r BY <2>2, <2>5, <5>2, AlikeKeeps
        <5>3. QED BY <5>1, <5>2
      <4>2. QED BY <1>2, <1>4, <4>1, LeftoversKept
    <3>5. QED BY <1>4, <2>1, <2>4, <2>5, <3>1, <3>2, <3>3, <3>4 DEF Sound
  <2>6. CASE fs' = SetTime(whole, side, idx) /\ Succeed
    <3>1. OnlyAt(begun, whole, r) BY <1>5, <2>3, <2>w, FullNode
    <3>2. /\ whole \in Tree
          /\ whole[r].kind = begun[r].kind /\ whole[r].to = begun[r].to
          /\ whole[r].src = begun[r].src /\ whole[r].full = TRUE
          /\ SameFork(begun[r], whole[r]) /\ Moves(begun, whole, {}, {r}, {})
      BY <1>5, <2>2, <2>3, <2>w, FullNode
    <3>3. Moves(whole, fs', {}, {}, {}) /\ fs' \in Tree
      <4>1. "none" # "none" => "none" \in {"rw", "ro"} OBVIOUS
      <4>2. QED BY <1>4, <1>5, <2>6, <3>2, <4>1, MetadataMoves, MetadataKeepsTrees
    <3>4. \A q \in Path : Alike(whole[q], fs'[q]) BY <3>3 DEF Moves
    <3>5. Moves(fs, fs', Around(idx), Spots, ModeSpots)
      <4>1. Moves(begun, whole, Around(idx), Spots, ModeSpots) BY <1>5, <3>2, MovesInto
      <4>2. Moves(whole, fs', Around(idx), Spots, ModeSpots) BY <3>3, MovesInto
      <4>3. QED BY <2>4, <4>1, <4>2, MovesTransitive
    <3>6. \A q \in Path : fs'[q].kind = begun[q].kind /\ fs'[q].to = begun[q].to
      BY <3>1, <3>2, <3>4 DEF OnlyAt, Alike
    <3>7. ShapeOf(fs') BY <2>1, <2>3, <3>3, <3>6, KindShape
    <3>8. \A q \in Path : q # r => Alike(fs[q], fs'[q])
      BY <2>2, <3>1, <3>4 DEF OnlyAt, Alike
    <3>9. /\ fs'[r].kind = "file" /\ fs'[r].src = idx /\ fs'[r].full
          /\ fs[r].kind = "file" => SameFork(fs[r], fs'[r])
      BY <1>5, <2>2, <3>2, <3>4 DEF Alike, SameFork
    <3>10. pc' = "entry" BY <2>6 DEF Succeed, NextEntry
    <3>11. WorkInv' BY <3>10 DEF WorkInv
    <3>12. OthersKept
      <4>1. \A q \in Path : fs[q].kind = "link" => Alike(fs[q], fs'[q])
        BY <2>1, <3>8
      <4>2. \A q \in Path : fs[q].kind = "file" => SameFork(fs[q], fs'[q])
        BY <3>8, <3>9, AlikeKeeps
      <4>3. QED BY <1>2, <4>1, <4>2 DEF OthersKept
    <3>13. LeftInv'
      <4>1. \A p \in Path : fs'[p].kind = "file" /\ ~fs'[p].full => SameData(fs[p], fs'[p])
        BY <3>8, <3>9, AlikeKeeps
      <4>2. QED BY <1>2, <1>4, <4>1, LeftoversKept
    <3>14. ASSUME NEW i \in done', i = idx
           PROVE  ~Escapes(entries[i].path) /\ Standing(i)'
      <4>1. /\ entries' = entries /\ Own(i)' = side /\ entries[i] = entry /\ MacOS' = MacOS
        BY <1>4, <1>own, <3>14, SamePlaces, SameJob DEF entry
      <4>2. Resolve(fs', side) = r BY <1>5, <2>1, <3>6 DEF Resolve
      <4>3. Standing(i)' BY <1>2, <1>3, <3>9, <3>14, <4>1, <4>2 DEF Standing
      <4>4. QED BY <1>3, <4>1, <4>3
    <3>15. QED BY <3>5, <3>7, <3>11, <3>12, <3>13, <3>14 DEF Sound
  <2>7. QED BY <1>7, <2>5, <2>6 DEF begun, whole, side, r
<1>8. QED BY <1>6, <1>7 DEF WriteSidecar, Filled

\* Every step on an entry does what it should to the disk.
LEMMA EntriesAreSound == ASSUME IndInv, DiskInv, OneEntry PROVE Sound
BY MakeDirStep, MakeLinkStep, CreateFileStep, WriteChunkStep, ReadFailsStep,
   ReadDoneStep, StartForkStep, MacForkDoneStep, WriteSidecarStep, StillSteps
DEF OneEntry

----------------------------------------------------------------------------
(***************************************************************************)
(* The disk's invariants hold throughout.                                  *)
(***************************************************************************)
LEMMA InitDisk == Init => DiskInv
<1> SUFFICES ASSUME Init PROVE DiskInv
  OBVIOUS
<1>1. IndInv BY InitInv
<1>2. /\ job.tree \in Trees /\ fs = job.tree /\ done = {} /\ pc = "preflight"
  BY DEF Init
<1>3. fs \in Tree BY <1>1, ListingTypes DEF IndInv
<1>4. \A p \in Path : fs[p].full BY <1>2, SoundTrees
<1>5. ShapeOf(fs) BY <1>2, SoundTrees DEF ShapeOf
<1>6. LinkInv BY <1>2 DEF LinkInv, LinkedFrom
<1>7. LockInv BY <1>2 DEF LockInv
<1>8. WorkInv BY <1>2 DEF WorkInv
<1>9. LeftInv BY <1>4 DEF LeftInv
<1>10. GoodInv BY <1>2 DEF GoodInv
<1>11. QED BY <1>5, <1>6, <1>7, <1>8, <1>9, <1>10 DEF DiskInv

\* Links and locks come from the call or from the archive, whoever adds one.
LEMMA LinksAndLocks ==
  ASSUME LinkInv, LockInv, job' = job, NEW A, NEW D, NEW L, Moves(fs, fs', A, D, L),
         \A p \in Path : p \in L => \E i \in Index : entries[i].mode = "ro" /\ p \in Ends(i)
  PROVE  LinkInv' /\ LockInv'
<1>1. /\ entries' = entries /\ Index' = Index
      /\ \A p : LinkedFrom(p)' = LinkedFrom(p)
      /\ \A i : Ends(i)' = Ends(i)
  BY SameJob, SamePlaces
<1>2. LinkInv'
  <2> SUFFICES ASSUME NEW p \in Path, fs'[p].kind = "link"
               PROVE  fs'[p].to \in LinkedFrom(p)
    BY <1>1 DEF LinkInv
  <2>1. Alike(fs[p], fs'[p]) \/ fs'[p].to \in LinkedFrom(p) BY DEF Moves
  <2>2. QED BY <2>1 DEF LinkInv, Alike
<1>3. LockInv'
  <2> SUFFICES ASSUME NEW p \in Path, ~fs'[p].writable
               PROVE  \/ fs'[p].kind = job.tree[p].kind /\ ~job.tree[p].writable
                      \/ \E i \in Index : entries[i].mode = "ro" /\ p \in Ends(i)
    BY <1>1 DEF LockInv
  <2>1. (fs'[p].kind = fs[p].kind /\ ~fs[p].writable) \/ p \in L BY DEF Moves
  <2>2. QED BY <2>1 DEF LockInv
<1>4. QED BY <1>2, <1>3

\* Only RefusePath is about a path that escapes.
LEMMA RefusedOrGood ==
  ASSUME DiskInv, OneEntry
  PROVE  RefusePath \/ ~Escapes(entry.path)
BY DEF OneEntry, MakeDir, MakeLink, CreateFile, StartFork, Working, WriteChunk, ReadFails,
       ReadDone, ReadFork, ForkFails, MacForkDone, ForkTooLong, WriteSidecar, DiskInv, WorkInv

\* The places an entry's step is at are among its ends.
LEMMA SpotsAreEnds ==
  ASSUME LinkInv, Own(idx) \in Path
  PROVE  Spots \subseteq Ends(idx)
BY DEF LinkInv, Spots, Ends, Resolve

\* The steps on an entry.
LEMMA EntryKeepsDisk == ASSUME IndInv, DiskInv, OneEntry PROVE DiskInv'
<1>1. Sound /\ EntryStep BY EntriesAreSound, EntrySteps
<1>2. /\ fs \in Tree /\ job' = job /\ idx \in Index
      /\ ~Escapes(entry.path) => Own(idx) \in Path
  BY <1>1, EntryContext
<1>3. LinkInv /\ LockInv /\ GoodInv BY DEF DiskInv
<1>4. LinkInv' /\ LockInv'
  <2>1. CASE RefusePath
    <3>1. Moves(fs, fs', {}, {}, {}) BY <1>2, <2>1, TouchMoves DEF RefusePath
    <3>2. QED BY <1>2, <1>3, <3>1, LinksAndLocks
  <2>2. CASE ~Escapes(entry.path)
    <3>1. Moves(fs, fs', Around(idx), Spots, ModeSpots) BY <1>1 DEF Sound
    <3>2. Spots \subseteq Ends(idx) BY <1>2, <1>3, <2>2, SpotsAreEnds
    <3>3. \A p \in Path : p \in ModeSpots =>
            \E i \in Index : entries[i].mode = "ro" /\ p \in Ends(i)
      BY <1>2, <3>2 DEF ModeSpots, entry
    <3>4. QED BY <1>2, <1>3, <3>1, <3>3, LinksAndLocks
  <2>3. QED BY <2>1, <2>2, RefusedOrGood
<1>5. GoodInv'
  <2>1. done' = done \/ done' = done \cup {idx}
    BY <1>1 DEF EntryStep, Succeed, Fail, Proceed, Chunk, Abort
  <2>2. entries' = entries BY <1>2, SameJob
  <2>3. \A i \in done' : i = idx => ~Escapes(entries[i].path) BY <1>1 DEF Sound
  <2>4. QED BY <1>3, <2>1, <2>2, <2>3 DEF GoodInv
<1>6. ShapeOf(fs') /\ WorkInv' /\ LeftInv' BY <1>1 DEF Sound
<1>7. QED BY <1>4, <1>5, <1>6 DEF DiskInv

\* What the steps about no one entry do to the tree.
LEMMA FrameMoves ==
  ASSUME IndInv, DiskInv,
         VerifyPassword \/ MakeWrapper \/ SkipEntry \/ StartEntry \/ EndLoop \/ ApplyDirTime
  PROVE  /\ job' = job /\ done' = done /\ fs \in Tree /\ fs' \in Tree
         /\ Moves(fs, fs', WithAncestors(Dest), {}, {}) /\ ShapeOf(fs')
         /\ ~MakeWrapper => Moves(fs, fs', {}, {}, {})
         /\ pc \notin {"work", "reading", "forking"} /\ pc' \notin {"reading", "forking"}
<1>1. /\ job' = job /\ done' = done
      /\ pc \notin {"work", "reading", "forking"} /\ pc' \notin {"reading", "forking"}
  BY DEF VerifyPassword, MakeWrapper, SkipEntry, StartEntry, EndLoop, ApplyDirTime,
         Abort, NextEntry, Return
<1>2. fs \in Tree /\ Index \subseteq Nat /\ dirTimes \in Seq(Index) /\ ShapeOf(fs)
  BY ListingTypes DEF IndInv, TypeOK, DiskInv
<1>3. Moves(fs, fs, {}, {}, {}) BY <1>2, TouchMoves
<1>4. CASE fs' = fs
  <2>1. Moves(fs, fs, WithAncestors(Dest), {}, {}) BY <1>3, MovesInto
  <2>2. QED BY <1>1, <1>2, <1>3, <1>4, <2>1
<1>5. CASE MakeWrapper /\ fs' # fs
  <2>1. fs' = MakeDirs(fs, Dest) /\ CanMakeDirs(fs, Dest) BY <1>5 DEF MakeWrapper
  <2>2. Dest \in Path BY PathAssumption, PlaceAssumption DEF Dest
  <2>3. fs' \in Tree BY <1>2, <2>1, CallsKeepTrees
  <2>4. Moves(fs, fs', WithAncestors(Dest), {}, {}) BY <1>2, <2>1, MakeDirsMoves
  <2>5. ShapeOf(fs') BY <1>2, <2>1, <2>2, MakeDirsShape
  <2>6. QED BY <1>1, <1>2, <1>5, <2>3, <2>4, <2>5
<1>6. CASE ApplyDirTime /\ fs' # fs
  <2>1. /\ dirTimes # <<>>
        /\ fs' = SetTime(fs, Target(Head(dirTimes)), Head(dirTimes))
    BY <1>6 DEF ApplyDirTime
  <2>2. Head(dirTimes) \in Nat BY <1>2, <2>1, HeadTailProperties
  <2>3. fs' \in Tree BY <1>2, <2>1, <2>2, MetadataKeepsTrees
  <2>4. Moves(fs, fs', {}, {}, {}) BY <1>2, <1>3, <2>1, <2>2, TouchMoves DEF SetTime
  <2>5. Moves(fs, fs', WithAncestors(Dest), {}, {}) BY <2>4, MovesInto
  <2>6. \A p \in Path : Alike(fs[p], fs'[p]) BY <2>4 DEF Moves
  <2>7. ShapeOf(fs') BY <1>2, <2>3, <2>6, AlikeShape
  <2>8. QED BY <1>1, <1>2, <2>3, <2>4, <2>5, <2>7
<1>7. fs' = fs \/ MakeWrapper \/ ApplyDirTime
  BY DEF VerifyPassword, SkipEntry, StartEntry, EndLoop
<1>8. QED BY <1>4, <1>5, <1>6, <1>7

\* The steps before, between and after the entries.
LEMMA FrameKeepsDisk ==
  ASSUME IndInv, DiskInv,
         VerifyPassword \/ MakeWrapper \/ SkipEntry \/ StartEntry \/ EndLoop \/ ApplyDirTime
  PROVE  DiskInv'
<1>1. /\ job' = job /\ done' = done
      /\ Moves(fs, fs', WithAncestors(Dest), {}, {}) /\ ShapeOf(fs')
      /\ pc # "reading" /\ pc' \notin {"reading", "forking"}
  BY FrameMoves
<1>2. LinkInv /\ LockInv /\ GoodInv BY DEF DiskInv
<1>3. LinkInv' /\ LockInv' BY <1>1, <1>2, LinksAndLocks
<1>4. WorkInv' BY <1>1 DEF WorkInv
<1>5. GoodInv' BY <1>1, <1>2, SameJob DEF GoodInv
<1>6. LeftInv'
  <2>1. ASSUME NEW p \in Path, fs'[p].kind = "file" PROVE SameData(fs[p], fs'[p])
    <3>1. Alike(fs[p], fs'[p]) BY <1>1, <2>1, NothingWritten
    <3>2. QED BY <3>1 DEF Alike, SameData
  <2>2. QED BY <1>1, <2>1, LeftoversKept
<1>7. QED BY <1>1, <1>3, <1>4, <1>5, <1>6 DEF DiskInv

\* Every step.
LEMMA StepDisk == ASSUME IndInv, DiskInv, [Next]_vars PROVE DiskInv'
<1>1. CASE OneEntry BY <1>1, EntryKeepsDisk
<1>2. CASE VerifyPassword \/ MakeWrapper \/ SkipEntry \/ StartEntry \/ EndLoop \/ ApplyDirTime
  BY <1>2, FrameKeepsDisk
<1>3. CASE UNCHANGED vars
  <2>1. job' = job /\ fs' = fs /\ pc' = pc /\ idx' = idx /\ done' = done BY <1>3 DEF vars
  <2>2. /\ entries' = entries /\ MacOS' = MacOS /\ Index' = Index
        /\ \A p : Locked(p)' = Locked(p) /\ LinkedFrom(p)' = LinkedFrom(p)
        /\ \A i : Own(i)' = Own(i) /\ Target(i)' = Target(i) /\ Ends(i)' = Ends(i)
    BY <2>1, SameJob, SamePlaces
  <2>3. entry' = entry /\ Place' = Place BY <2>1, <2>2 DEF entry, Place
  <2>4. LinkInv' BY <2>1, <2>2 DEF DiskInv, LinkInv
  <2>5. LockInv' BY <2>1, <2>2 DEF DiskInv, LockInv
  <2>6. WorkInv' BY <2>1, <2>2, <2>3 DEF DiskInv, WorkInv
  <2>7. \A p : Leftover(p)' <=> Leftover(p) BY <2>1, <2>2 DEF Leftover
  <2>8. LeftInv' BY <2>1, <2>3, <2>7 DEF DiskInv, LeftInv
  <2>9. GoodInv' BY <2>1, <2>2 DEF DiskInv, GoodInv
  <2>10. ShapeOf(fs)' BY <2>1 DEF DiskInv
  <2>11. QED BY <2>4, <2>5, <2>6, <2>8, <2>9, <2>10 DEF DiskInv
<1>4. QED BY <1>1, <1>2, <1>3 DEF Next, OneEntry

\* The disk's invariants hold throughout every call.
THEOREM DiskInductive == Spec => []DiskInv
<1>1. Init => DiskInv BY InitDisk
<1>2. IndInv /\ DiskInv /\ [Next]_vars => DiskInv' BY StepDisk
<1>3. QED BY <1>1, <1>2, Inductive, PTL DEF Spec

\* No unfinished file is left but where the code cannot help it.
THEOREM UnfinishedGoes == Spec => []UnfinishedIsRemoved
<1>1. DiskInv => UnfinishedIsRemoved
  BY DEF DiskInv, LeftInv, Leftover, UnfinishedIsRemoved
<1>2. QED BY <1>1, DiskInductive, PTL

----------------------------------------------------------------------------
(***************************************************************************)
(* What was extracted stands.                                              *)
(***************************************************************************)

\* Disturbs, made inductive: the entry being worked on is not yet held against
\* the other fork of its file.
Undoes(j, i) ==
  /\ Ends(i) \cap Ends(j) # {}
  /\ ~BothDirs(i, j)
  /\ ~(ForkPair(i, j) /\ (j \in done \/ (j = idx /\ Busy)))

\* The loop has done with entry j, or has it in hand.
Passed(j) == j < idx \/ (j = idx /\ pc # "entry")

\* FinishedStays, strengthened: what would excuse an entry is behind the loop.
StandInv ==
  \A i \in done :
    (\A j \in Subset : i < j /\ Passed(j) => ~Undoes(j, i)) => Standing(i)

\* An entry stands as long as its place, and what a link there leads to, stay.
LEMMA StandingKept ==
  ASSUME NEW i \in Index, job' = job, Standing(i), entries[i] \in EntryRecord,
         \A q \in {Own(i), Resolve(fs, Own(i))} :
           fs[q].kind # "none" => Alike(fs[q], fs'[q])
  PROVE  Standing(i)'
<1> DEFINE o == Own(i)
           r == Resolve(fs, o)
<1>1. entries' = entries /\ Own(i)' = o /\ MacOS' = MacOS
  BY SameJob, SamePlaces
<1>2. entries[i].fork \in BOOLEAN BY DEF EntryRecord
<1>3. fs[o].kind # "none" BY <1>2 DEF Standing, Resolve
<1>4. Alike(fs[o], fs'[o]) BY <1>3
<1>5. Resolve(fs', o) = r BY <1>4 DEF Alike, Resolve
<1>6. CASE fs[r].kind # "none"
  <2>1. Alike(fs[r], fs'[r]) BY <1>6
  <2> HIDE DEF o, r
  <2>2. /\ fs'[r].kind = fs[r].kind /\ fs'[r].src = fs[r].src /\ fs'[r].full = fs[r].full
        /\ fs'[r].fork = fs[r].fork /\ fs'[r].forkFull = fs[r].forkFull
        /\ fs'[o].kind = fs[o].kind /\ fs'[o].src = fs[o].src
    BY <1>4, <2>1 DEF Alike
  <2>3. QED BY <1>1, <1>5, <2>2 DEF Standing, o, r
<1>7. CASE fs[r].kind = "none"
  <2>1. ~entries[i].fork /\ entries[i].kind = "link" /\ fs[o].kind = "link" /\ fs[o].src = i
    BY <1>2, <1>7 DEF Standing
  <2>2. fs'[o].kind = "link" /\ fs'[o].src = i BY <1>4, <2>1 DEF Alike
  <2>3. QED BY <1>1, <2>1, <2>2 DEF Standing
<1>8. QED BY <1>6, <1>7

\* A directory's step changes nothing that was there but its mode and time.
LEMMA DirsAreQuiet ==
  ASSUME IndInv, DiskInv, OneEntry, entry.kind = "dir", ~entry.fork,
         NEW p \in Path, fs[p].kind # "none"
  PROVE  Alike(fs[p], fs'[p])
<1>1. EntryStep BY EntrySteps
<1>2. fs \in Tree /\ entry \in EntryRecord /\ idx \in Nat BY <1>1, EntryContext
<1>3. fs' = fs \/ MakeDir
  BY DEF OneEntry, RefusePath, MakeLink, CreateFile, StartFork, Working, WriteChunk,
         ReadFails, ReadDone, ReadFork, ForkFails, MacForkDone, ForkTooLong, WriteSidecar,
         DiskInv, WorkInv
<1>4. CASE fs' = fs BY <1>4 DEF Alike
<1>5. CASE MakeDir /\ fs' # fs
  <2> DEFINE t == MakeDirs(fs, Place)
             L == IF entry.mode = "ro" THEN {Resolve(t, Place)} ELSE {}
  <2>1. fs' = SetMode(t, Place, entry.mode) BY <1>5 DEF MakeDir
  <2>2. ~Escapes(entry.path) BY <1>5 DEF MakeDir, Working
  <2>3. Place \in Path BY <1>1, <2>2, EntryContext
  <2>4. t \in Tree /\ Moves(fs, t, WithAncestors(Place), {}, {})
    BY <1>2, CallsKeepTrees, MakeDirsMoves
  <2>5. entry.mode # "none" => entry.mode \in {"rw", "ro"}
    BY <1>2 DEF EntryRecord, Modes
  <2>6. Moves(t, fs', {}, {}, L) BY <1>2, <2>1, <2>3, <2>4, <2>5, MetadataMoves
  <2> HIDE DEF t, L
  <2>7. Alike(fs[p], t[p]) BY <2>4, NothingWritten
  <2>8. Alike(t[p], fs'[p]) BY <2>6 DEF Moves
  <2>9. QED BY <2>7, <2>8 DEF Alike
<1>6. QED BY <1>3, <1>4, <1>5

\* A step that writes nothing leaves every entry standing.
LEMMA NoWork ==
  ASSUME OneEntry
  PROVE  pc' # "work"
BY DEF OneEntry, RefusePath, MakeDir, MakeLink, CreateFile, StartFork, WriteChunk,
       ReadFails, ReadDone, ReadFork, ForkFails, MacForkDone, ForkTooLong, WriteSidecar,
       Succeed, Fail, Abort, NextEntry, Return

\* The step on entry idx leaves an earlier one as it is, if it may not undo it.
LEMMA EarlierStands ==
  ASSUME IndInv, DiskInv, OneEntry, NEW i \in done, i # idx, Standing(i),
         \/ Ends(i) \cap Ends(idx) = {}
         \/ BothDirs(i, idx)
         \/ ForkPair(i, idx) /\ (idx \in done' \/ (idx' = idx /\ Busy'))
  PROVE  Standing(i)'
<1>1. Sound /\ EntryStep BY EntriesAreSound, EntrySteps
<1>2. /\ fs \in Tree /\ job' = job /\ idx \in Index /\ entry \in EntryRecord
      /\ ~Escapes(entry.path) => Own(idx) \in Path
  BY <1>1, EntryContext
<1>3. /\ TypeOK /\ i \in Index /\ entries[i] \in EntryRecord
      /\ ~Escapes(entries[i].path) /\ LinkInv
  BY ListingTypes DEF IndInv, TypeOK, DiskInv, GoodInv
<1>4. Own(i) \in Path /\ Resolve(fs, Own(i)) \in Path
  BY <1>2, <1>3, PlacesExist, ResolveInPath
<1> DEFINE Q == {Own(i), Resolve(fs, Own(i))}
<1>5. Q \subseteq Path /\ Q \subseteq Ends(i)
  BY <1>3, <1>4 DEF LinkInv, Ends, Resolve
<1>6. CASE RefusePath
  <2>1. \A q \in Q : Alike(fs[q], fs'[q]) BY <1>6 DEF RefusePath, Alike
  <2>2. QED BY <1>2, <1>3, <2>1, StandingKept
<1>7. CASE ~Escapes(entry.path) /\ Ends(i) \cap Ends(idx) = {}
  <2>1. Spots \subseteq Ends(idx) BY <1>2, <1>3, <1>7, SpotsAreEnds
  <2>2. \A q \in Q : q \in Path /\ q \notin Spots BY <1>5, <1>7, <2>1
  <2>3. Moves(fs, fs', Around(idx), Spots, ModeSpots) BY <1>1 DEF Sound
  <2>4. \A q \in Q : fs[q].kind # "none" => Alike(fs[q], fs'[q])
    BY <2>2, <2>3 DEF Moves
  <2>5. QED BY <1>2, <1>3, <2>4, StandingKept
<1>8. CASE BothDirs(i, idx)
  <2>1. entry.kind = "dir" /\ ~entry.fork BY <1>8 DEF BothDirs, entry
  <2>2. \A q \in Q : fs[q].kind # "none" => Alike(fs[q], fs'[q])
    BY <1>5, <2>1, DirsAreQuiet
  <2>3. QED BY <1>2, <1>3, <2>2, StandingKept
<1>9. CASE ForkPair(i, idx) /\ (idx \in done' \/ (idx' = idx /\ Busy'))
  <2>1. idx \in done' \/ (idx' = idx /\ pc' \in {"reading", "forking"})
    BY <1>9, NoWork DEF Busy
  <2>2. \A p \in Path :
          /\ fs[p].kind = "link" => Alike(fs[p], fs'[p])
          /\ fs[p].kind = "file" => IF entry.fork /\ MacOS
                                    THEN SameData(fs[p], fs'[p])
                                    ELSE SameFork(fs[p], fs'[p])
    BY <1>1, <2>1 DEF Sound, OthersKept
  <2>3. MacOS /\ entries[i].fork # entry.fork /\ entries[i].kind = "file"
    BY <1>9 DEF ForkPair, entry
  <2>4. entries[i].fork \in BOOLEAN /\ entry.fork \in BOOLEAN
    BY <1>2, <1>3 DEF EntryRecord
  <2> DEFINE r == Resolve(fs, Own(i))
  <2>5. fs[r].kind = "file" /\ r \in Path
    BY <1>4, <2>3, <2>4 DEF Standing
  <2>6. fs'[r].kind = "file"
    BY <2>2, <2>5 DEF SameData, SameFork
  <2>7. Resolve(fs', Own(i)) = r
    <3>1. CASE fs[Own(i)].kind = "link"
      BY <1>4, <2>2, <3>1 DEF Alike, Resolve
    <3>2. CASE fs[Own(i)].kind # "link"
      <4>1. r = Own(i) BY <3>2 DEF Resolve
      <4>2. QED BY <2>6, <4>1 DEF Resolve
    <3>3. QED BY <3>1, <3>2
  <2>8. entries' = entries /\ Own(i)' = Own(i) /\ MacOS' = MacOS
    BY <1>2, SameJob, SamePlaces
  <2>9. CASE entries[i].fork
    <3>1. ~entry.fork BY <2>3, <2>4, <2>9
    <3>2. SameFork(fs[r], fs'[r]) BY <2>2, <2>5, <3>1
    <3>3. fs[r].fork = i /\ fs[r].forkFull BY <2>3, <2>9 DEF Standing
    <3>4. fs'[r].fork = i /\ fs'[r].forkFull BY <3>2, <3>3 DEF SameFork
    <3>5. QED BY <2>3, <2>6, <2>7, <2>8, <2>9, <3>4 DEF Standing
  <2>10. CASE ~entries[i].fork
    <3>1. entry.fork BY <2>3, <2>4, <2>10
    <3>2. SameData(fs[r], fs'[r]) BY <2>2, <2>3, <2>5, <3>1
    <3>3. fs[r].src = i /\ fs[r].full BY <2>3, <2>10 DEF Standing
    <3>4. fs'[r].src = i /\ fs'[r].full BY <3>2, <3>3 DEF SameData
    <3>5. QED BY <2>3, <2>6, <2>7, <2>8, <2>10, <3>4 DEF Standing
  <2>11. QED BY <2>4, <2>9, <2>10
<1>10. QED BY <1>6, <1>7, <1>8, <1>9, RefusedOrGood

\* The steps on an entry.
LEMMA EntryKeepsStanding ==
  ASSUME IndInv, DiskInv, StandInv, OneEntry
  PROVE  StandInv'
<1>1. Sound /\ EntryStep BY EntriesAreSound, EntrySteps
<1>2. job' = job /\ idx \in Nat /\ idx \in Subset /\ Busy BY <1>1, EntryContext
<1>3. /\ Subset' = Subset /\ \A i : Ends(i)' = Ends(i)
      /\ \A i, j : BothDirs(i, j)' = BothDirs(i, j) /\ ForkPair(i, j)' = ForkPair(i, j)
  BY <1>2, SameJob, SamePlaces
<1>4. Subset \subseteq Nat BY ListingTypes DEF IndInv, Subset
<1>5. /\ idx' = idx \/ (idx' = idx + 1 /\ pc' = "entry")
      /\ idx' = idx => pc' # "entry"
      /\ done' = done \/ done' = done \cup {idx}
  BY <1>1, <1>2
  DEF EntryStep, Succeed, Fail, Proceed, Chunk, Abort, NextEntry, Return, Busy
<1> SUFFICES ASSUME NEW i \in done',
                    \A j \in Subset : i < j /\ Passed(j)' => ~Undoes(j, i)'
             PROVE  Standing(i)'
  BY <1>3 DEF StandInv
<1>6. CASE i = idx BY <1>1, <1>6 DEF Sound
<1>7. CASE i # idx
  <2>1. i \in done BY <1>5, <1>7
  <2>2. i \in Subset /\ i < idx BY <2>1 DEF IndInv, ReportInv
  <2>3. \A j \in Subset : i < j /\ Passed(j) => Passed(j)' /\ (j < idx \/ j = idx)
    BY <1>2, <1>4, <1>5 DEF Passed
  <2>4. ASSUME NEW j \in Subset, i < j, j < idx, Undoes(j, i)
        PROVE  Undoes(j, i)'
    <3>1. j \in Nat /\ j # idx /\ ~(j = idx' /\ Busy') BY <1>2, <1>4, <1>5, <2>4
    <3>2. j \in done' => j \in done BY <1>5, <3>1
    <3>3. QED BY <1>3, <2>4, <3>1, <3>2 DEF Undoes
  <2>5. ~Undoes(idx, i) BY <1>2, <1>3, <2>2, <2>3 DEF Undoes, Passed, Busy
  <2>6. \A j \in Subset : i < j /\ Passed(j) => ~Undoes(j, i)
    BY <2>3, <2>4, <2>5
  <2>7. Standing(i) BY <2>1, <2>6 DEF StandInv
  <2> DEFINE Free(n) == ~Undoes(n, i)'
  <2>8. \A j \in Subset : j = idx => Free(j)
    BY <1>2, <2>2, <2>3 DEF Passed, Busy
  <2>9. PICK n \in Subset : n = idx /\ Free(n) BY <1>2, <2>8
  <2>10. \/ Ends(i) \cap Ends(idx) = {}
         \/ BothDirs(i, idx)
         \/ ForkPair(i, idx) /\ (idx \in done' \/ (idx' = idx /\ Busy'))
    BY <1>3, <2>9 DEF Undoes
  <2>11. QED BY <1>7, <2>1, <2>7, <2>10, EarlierStands
<1>8. QED BY <1>6, <1>7

\* The steps before, between and after the entries.
LEMMA FrameKeepsStanding ==
  ASSUME IndInv, DiskInv, StandInv,
         VerifyPassword \/ MakeWrapper \/ SkipEntry \/ StartEntry \/ EndLoop \/ ApplyDirTime
  PROVE  StandInv'
<1>1. /\ job' = job /\ done' = done /\ fs \in Tree
      /\ ~MakeWrapper => Moves(fs, fs', {}, {}, {})
      /\ pc \notin {"work", "reading", "forking"} /\ pc' \notin {"reading", "forking"}
  BY FrameMoves
<1>2. idx \in Nat /\ Subset \subseteq Nat /\ TypeOK
  BY ListingTypes DEF IndInv, Subset
<1>3. /\ Subset' = Subset /\ \A i : Ends(i)' = Ends(i)
      /\ \A i, j : BothDirs(i, j)' = BothDirs(i, j) /\ ForkPair(i, j)' = ForkPair(i, j)
  BY <1>1, SameJob, SamePlaces
<1>4. CASE pc \in {"preflight", "wrap"}
  <2>1. idx = 1 BY <1>4 DEF IndInv, EventInv
  <2>2. \A i \in done : i \in Subset /\ i < 1 BY <2>1 DEF IndInv, ReportInv
  <2>3. Subset \subseteq Index /\ \A i \in Index : ~(i < 1)
    BY ListingTypes DEF Subset, Index, IndInv
  <2>4. done = {} BY <2>2, <2>3
  <2>5. QED BY <1>1, <2>4 DEF StandInv
<1>5. CASE pc \notin {"preflight", "wrap"}
  <2>1. ~MakeWrapper BY <1>5 DEF MakeWrapper
  <2>2. Moves(fs, fs', {}, {}, {}) BY <1>1, <2>1
  <2>3. \/ idx' = idx + 1 /\ pc = "entry" /\ pc' = "entry"
        \/ idx' = idx /\ pc = "entry" /\ pc' # "entry"
        \/ idx' = idx /\ pc = "stamp" /\ pc' \in {"stamp", "returned"}
    BY <1>5
    DEF VerifyPassword, MakeWrapper, SkipEntry, StartEntry, EndLoop, ApplyDirTime,
        Abort, NextEntry, Return
  <2> SUFFICES ASSUME NEW i \in done,
                      \A j \in Subset : i < j /\ Passed(j)' => ~Undoes(j, i)'
               PROVE  Standing(i)'
    BY <1>1, <1>3 DEF StandInv
  <2>4. ASSUME NEW j \in Subset, i < j, Passed(j) PROVE ~Undoes(j, i)
    <3>1. j \in Nat BY <1>2
    <3>2. Passed(j)' BY <1>2, <2>3, <2>4, <3>1 DEF Passed
    <3>3. ~(j = idx' /\ Busy') BY <1>1, <1>2, <2>3, <2>4, <3>1 DEF Passed, Busy
    <3>4. ~Undoes(j, i)' BY <2>4, <3>2
    <3>5. QED BY <1>1, <1>3, <3>3, <3>4 DEF Undoes
  <2>5. Standing(i) BY <2>4 DEF StandInv
  <2>6. i \in Index /\ entries[i] \in EntryRecord /\ ~Escapes(entries[i].path)
    BY <1>2, ListingTypes DEF TypeOK, DiskInv, GoodInv
  <2>7. Own(i) \in Path /\ Resolve(fs, Own(i)) \in Path
    BY <1>1, <1>2, <2>6, PlacesExist, ResolveInPath
  <2>8. \A q \in {Own(i), Resolve(fs, Own(i))} : Alike(fs[q], fs'[q])
    BY <2>2, <2>7 DEF Moves
  <2>9. QED BY <1>1, <2>5, <2>6, <2>8, StandingKept
<1>6. QED BY <1>4, <1>5

\* Every step.
LEMMA StepStanding == ASSUME IndInv, DiskInv, StandInv, [Next]_vars PROVE StandInv'
<1>1. CASE OneEntry BY <1>1, EntryKeepsStanding
<1>2. CASE VerifyPassword \/ MakeWrapper \/ SkipEntry \/ StartEntry \/ EndLoop \/ ApplyDirTime
  BY <1>2, FrameKeepsStanding
<1>3. CASE UNCHANGED vars
  <2>1. job' = job /\ fs' = fs /\ pc' = pc /\ idx' = idx /\ done' = done BY <1>3 DEF vars
  <2>2. /\ Subset' = Subset /\ entries' = entries /\ MacOS' = MacOS
        /\ \A i : Ends(i)' = Ends(i) /\ Own(i)' = Own(i)
        /\ \A i, j : BothDirs(i, j)' = BothDirs(i, j) /\ ForkPair(i, j)' = ForkPair(i, j)
    BY <2>1, SameJob, SamePlaces
  <2>3. \A i, j : Undoes(j, i)' <=> Undoes(j, i) BY <2>1, <2>2 DEF Undoes, Busy
  <2>4. \A i : Standing(i)' <=> Standing(i) BY <2>1, <2>2 DEF Standing
  <2>5. \A j : Passed(j)' <=> Passed(j) BY <2>1 DEF Passed
  <2>6. QED BY <2>1, <2>2, <2>3, <2>4, <2>5 DEF StandInv
<1>4. QED BY <1>1, <1>2, <1>3 DEF Next, OneEntry

\* What was extracted stands until an entry that can undo it is taken up.
THEOREM StandInductive == Spec => []StandInv
<1>1. Init => StandInv BY DEF Init, StandInv
<1>2. IndInv /\ DiskInv /\ StandInv /\ [Next]_vars => StandInv' BY StepStanding
<1>3. QED BY <1>1, <1>2, Inductive, DiskInductive, PTL DEF Spec

\* "Entries already written in full stay": see FinishedStays.
THEOREM FinishedRemain == Spec => []FinishedStays
<1>1. IndInv /\ StandInv => FinishedStays
  <2> SUFFICES ASSUME IndInv, StandInv, NEW i \in done,
                      \A j \in Subset : i < j /\ j <= idx => ~Disturbs(j, i)
               PROVE  Standing(i)
    BY DEF FinishedStays
  <2>1. idx \in Nat /\ Subset \subseteq Nat BY ListingTypes DEF IndInv, Subset
  <2>2. \A j \in Subset : Passed(j) => j <= idx BY <2>1 DEF Passed
  <2>3. \A j : Undoes(j, i) => Disturbs(j, i) BY DEF Undoes, Disturbs
  <2>4. QED BY <2>2, <2>3 DEF StandInv
<1>2. QED BY <1>1, Inductive, StandInductive, PTL

----------------------------------------------------------------------------
(***************************************************************************)
(* The names a call adds.                                                  *)
(***************************************************************************)

\* A name is there because the call found it, for the wrapper or for an entry.
NameInv ==
  \A p \in Path : fs[p].kind # "none" =>
    \/ job.tree[p].kind # "none"
    \/ p \in WithAncestors(Dest)
    \/ \E i \in Subset : ~Escapes(entries[i].path)
         /\ (p \in WithAncestors(Own(i)) \/ p \in LinkedFrom(Own(i)))

\* The ancestors of the directory are among the ancestors.
LEMMA AboveParent ==
  ASSUME NEW p \in Path, NEW q \in WithAncestors(Parent(p))
  PROVE  q \in WithAncestors(p)
<1>1. p \in Seq(STRING) /\ Len(p) \in Nat BY ParentProperties
<1>2. CASE p = <<>>
  <2>1. Parent(p) = <<>> BY <1>2 DEF Parent
  <2>2. QED BY <1>2, <2>1
<1>3. CASE p # <<>>
  <2>1. /\ Parent(p) \in Seq(STRING) /\ Len(Parent(p)) = Len(p) - 1 /\ Len(p) > 0
    BY <1>3, ParentProperties, PathAssumption
  <2>2. PICK k \in 0..Len(Parent(p)) : q = SubSeq(Parent(p), 1, k) BY DEF WithAncestors
  <2>3. k \in 0..Len(p) /\ k <= Len(p) - 1 BY <1>1, <2>1, <2>2
  <2>4. SubSeq(Parent(p), 1, k) = SubSeq(p, 1, k)
    BY <1>1, <2>1, <2>3 DEF Parent
  <2>5. QED BY <2>2, <2>3, <2>4 DEF WithAncestors
<1>4. QED BY <1>2, <1>3

\* A name at the top, above a place: the place's first component.
LEMMA TopOf ==
  ASSUME NEW p \in Path, NEW q \in WithAncestors(p), Len(q) = 1
  PROVE  q = <<p[1]>> /\ Len(p) >= 1
<1>1. p \in Seq(STRING) /\ Len(p) \in Nat BY ParentProperties
<1>2. PICK k \in 0..Len(p) : q = SubSeq(p, 1, k) BY DEF WithAncestors
<1>3. q \in Seq(STRING) /\ Len(q) = k /\ \A m \in 1..k : q[m] = p[m]
  BY <1>1, <1>2, PrefixProperties
<1>4. k = 1 /\ q[1] = p[1] BY <1>3
<1>5. <<p[1]>> \in Seq(STRING) /\ Len(<<p[1]>>) = 1 /\ <<p[1]>>[1] = p[1]
  <2>1. p[1] \in STRING BY <1>1, <1>2, <1>4, ElementOfSeq
  <2>2. QED BY <2>1
<1>6. q = <<p[1]>> BY <1>3, <1>4, <1>5, SeqEqual
<1>7. Len(p) >= 1 BY <1>1, <1>2, <1>4
<1>8. QED BY <1>6, <1>7

\* The steps on an entry.
LEMMA EntryKeepsNames ==
  ASSUME IndInv, DiskInv, NameInv, OneEntry
  PROVE  NameInv'
<1>1. Sound /\ EntryStep BY EntriesAreSound, EntrySteps
<1>2. /\ job' = job /\ idx \in Subset
      /\ ~Escapes(entry.path) => Own(idx) \in Path
  BY <1>1, EntryContext
<1>3. /\ Subset' = Subset /\ entries' = entries /\ Dest' = Dest
      /\ \A i : Own(i)' = Own(i)
      /\ \A p : LinkedFrom(p)' = LinkedFrom(p)
  BY <1>2, SameJob, SamePlaces
<1> SUFFICES ASSUME NEW p \in Path, fs'[p].kind # "none", fs[p].kind = "none"
             PROVE  \E i \in Subset : ~Escapes(entries[i].path)
                      /\ (p \in WithAncestors(Own(i)) \/ p \in LinkedFrom(Own(i)))
  BY <1>2, <1>3 DEF NameInv
<1>4. ~Escapes(entry.path)
  <2>1. ~RefusePath BY DEF RefusePath
  <2>2. QED BY <2>1, RefusedOrGood
<1>5. p \in Around(idx) \/ p \in Spots
  BY <1>1 DEF Sound, Moves, Alike
<1>6. CASE p \in Spots
  <2>1. p = Own(idx) \/ p \in LinkedFrom(Own(idx))
    BY <1>2, <1>4, <1>6, SpotsAreEnds DEF DiskInv, Ends
  <2>2. p = Own(idx) => p \in WithAncestors(Own(idx)) BY ParentProperties
  <2>3. QED BY <1>2, <1>4, <2>1, <2>2 DEF entry
<1>7. CASE p \in Around(idx)
  <2>1. p = Own(idx) \/ p \in WithAncestors(Parent(Own(idx)))
    BY <1>7 DEF Around
  <2>2. p \in WithAncestors(Own(idx))
    BY <1>2, <1>4, <2>1, ParentProperties, AboveParent
  <2>3. QED BY <1>2, <1>4, <2>2 DEF entry
<1>8. QED BY <1>5, <1>6, <1>7

\* Every step.
LEMMA StepNames == ASSUME IndInv, DiskInv, NameInv, [Next]_vars PROVE NameInv'
<1>1. CASE OneEntry BY <1>1, EntryKeepsNames
<1>2. CASE \/ VerifyPassword \/ MakeWrapper \/ SkipEntry \/ StartEntry \/ EndLoop
           \/ ApplyDirTime \/ UNCHANGED vars
  <2>1. job' = job /\ Moves(fs, fs', WithAncestors(Dest), {}, {})
    <3>1. CASE UNCHANGED vars
      <4>1. fs \in Tree BY ListingTypes DEF IndInv
      <4>2. Moves(fs, fs', {}, {}, {}) BY <3>1, <4>1, TouchMoves DEF vars
      <4>3. Moves(fs, fs', WithAncestors(Dest), {}, {}) BY <4>2, MovesInto
      <4>4. QED BY <3>1, <4>3 DEF vars
    <3>2. CASE ~UNCHANGED vars BY <1>2, <3>2, FrameMoves
    <3>3. QED BY <3>1, <3>2
  <2>2. /\ Subset' = Subset /\ entries' = entries /\ Dest' = Dest
        /\ \A i : Own(i)' = Own(i)
        /\ \A p : LinkedFrom(p)' = LinkedFrom(p)
    BY <2>1, SameJob, SamePlaces
  <2>3. \A p \in Path : fs'[p].kind # "none" /\ fs[p].kind = "none" => p \in WithAncestors(Dest)
    BY <2>1 DEF Moves, Alike
  <2>4. QED BY <2>1, <2>2, <2>3 DEF NameInv
<1>3. QED BY <1>1, <1>2 DEF Next, OneEntry

\* Every name a call adds is the wrapper's or above what an entry claims.
THEOREM NamesAreClaimed == Spec => []NameInv
<1>1. Init => NameInv BY DEF Init, NameInv
<1>2. IndInv /\ DiskInv /\ NameInv /\ [Next]_vars => NameInv' BY StepNames
<1>3. QED BY <1>1, <1>2, Inductive, DiskInductive, PTL DEF Spec

\* The first component of the place an entry claims.
LEMMA TopOfOwn ==
  ASSUME TypeOK, NEW i \in Index, ~Escapes(entries[i].path), ~BesideTop(i),
         Len(Own(i)) >= 1
  PROVE  Own(i)[1] = Target(i)[1] /\ Len(Target(i)) >= 1
<1>1. /\ Target(i) \in Path /\ Own(i) \in Path /\ Len(Own(i)) = Len(Target(i))
      /\ entries[i].fork /\ ~MacOS => Own(i) = SidecarPath(Target(i))
      /\ ~(entries[i].fork /\ ~MacOS) => Own(i) = Target(i)
  BY PlacesExist
<1>2. Len(Own(i)) \in Nat BY <1>1, ParentProperties
<1>3. CASE Own(i) = Target(i) BY <1>3
<1>4. CASE Own(i) # Target(i)
  <2>1. Len(Own(i)) > 1 BY <1>2, <1>4 DEF BesideTop
  <2>2. Own(i) = SidecarPath(Target(i)) BY <1>1, <1>4
  <2>3. 1 \in 1 .. Len(Target(i)) - 1 BY <1>1, <1>2, <2>1
  <2>4. \A m \in 1 .. Len(Target(i)) - 1 : SidecarPath(Target(i))[m] = Target(i)[m]
    BY <1>1, <2>2, SidecarBeside
  <2>5. QED BY <1>1, <2>1, <2>2, <2>3, <2>4
<1>5. QED BY <1>3, <1>4

\* With the wrapper on, all targets begin alike.
LEMMA OneTop ==
  ASSUME TypeOK, opts.wrapper, \A i \in Subset : Dot \notin Comps(entries[i].path)
  PROVE  \E c : /\ \A i \in Subset : ~Escapes(entries[i].path) /\ Len(Target(i)) >= 1
                                       => Target(i)[1] = c
                /\ \A p \in WithAncestors(Dest) : Len(p) = 1 => p = <<c>>
<1>1. \A i \in Subset : entries[i] \in EntryRecord /\ i \in Index
  BY ListingTypes DEF Subset
<1>2. CASE Wrapped
  <2>1. Dest = <<Wrapper>> /\ Dest \in Path BY <1>2, PlaceAssumption DEF Dest
  <2>2. Dest \in Seq(STRING) /\ Len(Dest) = 1 /\ Dest[1] = Wrapper
    BY <2>1, PathAssumption
  <2>3. ASSUME NEW i \in Subset, ~Escapes(entries[i].path)
        PROVE  Target(i)[1] = Wrapper
    <3>1. Normal(entries[i].path) \in Seq(STRING)
      BY <1>1, <2>3, PlacesExist, PathAssumption
    <3>2. Target(i) = Dest \o Normal(entries[i].path) BY DEF Target, SafeJoin
    <3>3. Len(Dest) + Len(Normal(entries[i].path)) >= 1
      BY <2>2, <3>1, LenProperties
    <3>4. 1 \in 1 .. Len(Dest) + Len(Normal(entries[i].path))
      BY <2>2, <3>1, <3>3, LenProperties
    <3>5. (Dest \o Normal(entries[i].path))[1] = Dest[1]
      BY <2>2, <3>1, <3>4, ConcatProperties
    <3>6. QED BY <2>2, <3>2, <3>5
  <2>4. \A p \in WithAncestors(Dest) : Len(p) = 1 => p = <<Wrapper>>
    BY <2>1, <2>2, TopOf
  <2>5. QED BY <2>3, <2>4
<1>3. CASE ~Wrapped
  <2>1. Dest = <<>> /\ HasCommonRoot(entries, Subset) BY <1>3 DEF Dest, Wrapped
  <2>2. PICK i \in Subset : TRUE BY <2>1 DEF HasCommonRoot
  <2>3. ASSUME NEW j \in Subset PROVE Target(j)[1] = entries[i].path[1]
    <3>1. entries[j].path \in Seq(STRING) BY <1>1 DEF EntryRecord
    <3>2. entries[j].path # <<>> /\ entries[j].path[1] = entries[i].path[1]
      BY <2>1 DEF HasCommonRoot
    <3>3. 1 \in DOMAIN entries[j].path
      BY <3>1, <3>2, LenProperties, EmptySeq
    <3>4. entries[j].path[1] # Dot BY <3>3 DEF Comps
    <3>5. Target(j) = <<>> \o entries[j].path
      BY <2>1, <3>4 DEF Target, SafeJoin, Normal
    <3>6. QED BY <3>1, <3>2, <3>5, ConcatEmptySeq
  <2>4. \A p \in WithAncestors(Dest) : Len(p) # 1
    <3>1. ASSUME NEW p \in WithAncestors(Dest) PROVE Len(p) = 0
      <4>1. <<>> \in Path BY PathAssumption
      <4>2. Len(p) <= Len(<<>>) /\ p \in Path BY <2>1, <4>1, AncestorProperties
      <4>3. QED BY <4>2, ParentProperties
    <3>2. QED BY <3>1
  <2>5. QED BY <2>3, <2>4
<1>4. QED BY <1>2, <1>3

\* With the wrapper on, a call adds at most one name at the top: see OneNewTop.
THEOREM OneTopIsNew == Spec => []OneNewTop
<1>1. IndInv /\ NameInv => OneNewTop
  <2> SUFFICES ASSUME IndInv, NameInv, opts.wrapper,
                      \A i \in Subset : Dot \notin Comps(entries[i].path) /\ ~BesideTop(i)
               PROVE  Cardinality(NewTops \ ThroughLinks) <= 1
    BY DEF OneNewTop
  <2>1. TypeOK BY DEF IndInv
  <2>2. PICK c : /\ \A i \in Subset : ~Escapes(entries[i].path) /\ Len(Target(i)) >= 1
                                        => Target(i)[1] = c
                 /\ \A p \in WithAncestors(Dest) : Len(p) = 1 => p = <<c>>
    BY <2>1, OneTop
  <2>3. ASSUME NEW p \in NewTops \ ThroughLinks PROVE p = <<c>>
    <3>1. p \in Path /\ Len(p) = 1 /\ job.tree[p].kind = "none" /\ fs[p].kind # "none"
      BY DEF NewTops
    <3>2. CASE p \in WithAncestors(Dest) BY <2>2, <3>1, <3>2
    <3>3. ASSUME NEW i \in Subset, ~Escapes(entries[i].path),
                 p \in WithAncestors(Own(i)) \/ p \in LinkedFrom(Own(i))
          PROVE  p = <<c>>
      <4>1. i \in Index BY DEF Subset
      <4>2. p \notin LinkedFrom(Own(i))
        <5>1. p \in WithAncestors(p) BY <3>1, ParentProperties
        <5>2. QED BY <2>3, <4>1, <5>1 DEF ThroughLinks
      <4>3. Own(i) \in Path BY <2>1, <3>3, <4>1, PlacesExist
      <4>4. p = <<Own(i)[1]>> /\ Len(Own(i)) >= 1 BY <3>1, <3>3, <4>2, <4>3, TopOf
      <4>5. Own(i)[1] = Target(i)[1] /\ Len(Target(i)) >= 1
        BY <2>1, <3>3, <4>1, <4>4, TopOfOwn
      <4>6. QED BY <2>2, <3>3, <4>4, <4>5
    <3>4. QED BY <3>1, <3>2, <3>3 DEF NameInv
  <2>4. NewTops \ ThroughLinks \in SUBSET {<<c>>} BY <2>3
  <2>5. IsFiniteSet({<<c>>}) /\ Cardinality({<<c>>}) = 1 BY FS_Singleton
  <2>6. Cardinality(NewTops \ ThroughLinks) <= Cardinality({<<c>>})
    BY <2>4, <2>5, FS_Subset
  <2>7. QED BY <2>5, <2>6
<1>2. QED BY <1>1, Inductive, NamesAreClaimed, PTL

----------------------------------------------------------------------------
(***************************************************************************)
(* An archive without a conflict in itself.                                *)
(***************************************************************************)

\* The loop has come to entry i.
Reached(i) == i < idx \/ (i = idx /\ pc \in {"reading", "forking", "stamp", "returned"})

\* What may be in the report of such an archive.
Excused(f) ==
  \/ f.why \in {"reader", "unsupported"}
  \/ DiskFaults /\ entries[f.index].fork

\* Whose a file, a link or a lock is.
IsLink(i) == entries[i].kind = "link" /\ ~entries[i].fork

\* Every file and link is the one at the place of an entry the loop has reached.
LeavesInv ==
  /\ \A i \in Subset : Leaf(i) => fs[Own(i)].kind # "dir"
  /\ \A p \in Path : fs[p].kind \in {"file", "link"} =>
       \E i \in Subset :
         p = Own(i) /\ Leaf(i) /\ Reached(i) /\ (fs[p].kind = "link" <=> IsLink(i))
  /\ \A p \in Path : ~fs[p].writable => \E i \in Subset : entries[i].mode = "ro" /\ p = Own(i)

\* CleanIsExtracted, strengthened by what is on the disk.
CleanInv ==
  Clean =>
    /\ LeavesInv
    /\ pc = "forking" => fs[Parent(Place)].kind = "dir"
    /\ \A f \in failed : Excused(f)

\* An entry that is no directory has a name of its own, below the destination.
LEMMA LeafIsNamed ==
  ASSUME TypeOK, Clean, NEW i \in Subset
  PROVE  /\ i \in Index /\ entries[i] \in EntryRecord /\ ~Escapes(entries[i].path)
         /\ Own(i) \in Path /\ Target(i) \in Path /\ Parent(Own(i)) = Parent(Target(i))
         /\ Leaf(i) => Own(i) # <<>> /\ Own(i) \notin WithAncestors(Dest)
<1>1. i \in Index /\ entries[i] \in EntryRecord BY ListingTypes DEF Subset
<1>2. ~Escapes(entries[i].path) BY DEF Clean
<1>3. /\ Own(i) \in Path /\ Target(i) \in Path /\ Parent(Own(i)) = Parent(Target(i))
      /\ Len(Own(i)) = Len(Dest) + Len(Normal(entries[i].path))
      /\ Normal(entries[i].path) \in Path /\ Dest \in Path
  BY <1>1, <1>2, PlacesExist
<1>4. ASSUME Leaf(i) PROVE Own(i) # <<>> /\ Own(i) \notin WithAncestors(Dest)
  <2>1. Normal(entries[i].path) # <<>>
    <3>1. CASE entries[i].kind # "dir" BY <3>1 DEF Clean
    <3>2. CASE entries[i].fork
      <4>1. entries \in Archives /\ entries \in Seq(EntryRecord)
        BY ListingTypes DEF TypeOK, entries
      <4>2. i \in DOMAIN entries BY <1>1, <4>1, LenProperties DEF Index
      <4>3. QED BY <3>2, <4>1, <4>2, ForksAreNamed
    <3>3. QED BY <1>4, <3>1, <3>2 DEF Leaf
  <2>2. Len(Normal(entries[i].path)) > 0 BY <1>3, <2>1, ParentProperties
  <2>3. Len(Dest) \in Nat /\ Len(Normal(entries[i].path)) \in Nat
    BY <1>3, ParentProperties
  <2>4. Len(Own(i)) > Len(Dest) /\ Len(Own(i)) > 0 BY <1>3, <2>2, <2>3
  <2>5. Own(i) # <<>> BY <2>4
  <2>6. \A q \in WithAncestors(Dest) : Len(q) <= Len(Dest) BY <1>3, AncestorProperties
  <2>7. Own(i) \notin WithAncestors(Dest)
    <3>1. ASSUME Own(i) \in WithAncestors(Dest) PROVE FALSE
      <4>1. Len(Own(i)) <= Len(Dest) BY <2>6, <3>1
      <4>2. Len(Own(i)) \in Nat BY <1>3, <2>3
      <4>3. QED BY <2>3, <2>4, <4>1, <4>2
    <3>2. QED BY <3>1
  <2>8. QED BY <2>5, <2>7
<1>5. QED BY <1>1, <1>2, <1>3, <1>4

\* Nothing lies under a leaf.
LEMMA NothingUnder ==
  ASSUME TypeOK, Clean, NEW i \in Subset, NEW j \in Subset, Leaf(i)
  PROVE  Own(i) \notin WithAncestors(Parent(Own(j)))
<1>1. CASE i # j BY <1>1 DEF Clean, Leaf
<1>2. CASE i = j
  <2>1. Own(i) \in Path /\ Own(i) # <<>> BY LeafIsNamed
  <2>2. Parent(Own(i)) \in Path /\ Len(Own(i)) \in Nat /\ Len(Parent(Own(i))) = Len(Own(i)) - 1
    BY <2>1, ParentProperties
  <2>3. \A q \in WithAncestors(Parent(Own(i))) : Len(q) <= Len(Own(i)) - 1
    BY <2>2, AncestorProperties
  <2>4. ~(Len(Own(i)) <= Len(Own(i)) - 1) BY <2>2
  <2>5. QED BY <1>2, <2>3, <2>4
<1>3. QED BY <1>1, <1>2

\* A leaf shares its place with the other fork of a macOS file only.
LEMMA SharedPlace ==
  ASSUME TypeOK, Clean, NEW i \in Subset, NEW j \in Subset, i # j,
         Own(i) = Own(j), Leaf(i) \/ Leaf(j)
  PROVE  /\ MacOS /\ entries[i].kind = "file" /\ entries[j].kind = "file"
         /\ entries[i].fork # entries[j].fork
         /\ entries[i].mode # "ro" /\ entries[j].mode # "ro"
BY DEF Clean, BothDirs, ForkPair, Leaf

\* What is made read-only is a plain file.
LEMMA LockedIsPlain ==
  ASSUME Clean, NEW i \in Subset, entries[i].mode = "ro"
  PROVE  Leaf(i) /\ entries[i].kind = "file" /\ ~entries[i].fork
BY DEF Clean, Leaf

\* The way to an entry's place is free.
LEMMA WayIsFree ==
  ASSUME TypeOK, Clean, LeavesInv, NEW i \in Subset, NEW q \in WithAncestors(Parent(Own(i)))
  PROVE  /\ q \in Path /\ fs[q].kind \in {"none", "dir"} /\ fs[q].writable
         /\ Parent(q) \in WithAncestors(Parent(Own(i)))
<1>1. Own(i) \in Path BY LeafIsNamed
<1>2. Parent(Own(i)) \in Path BY <1>1, ParentProperties
<1>3. q \in Path /\ Parent(q) \in WithAncestors(Parent(Own(i))) BY <1>2, AncestorProperties
<1>4. fs[q].kind \in Kinds
  BY <1>3, ListingTypes DEF Tree, Node
<1>5. fs[q].kind \notin {"file", "link"} BY <1>3, NothingUnder DEF LeavesInv
<1>6. fs[q].writable
  <2> SUFFICES ASSUME ~fs[q].writable PROVE FALSE
    OBVIOUS
  <2>1. PICK k \in Subset : entries[k].mode = "ro" /\ q = Own(k) BY <1>3 DEF LeavesInv
  <2>2. Leaf(k) BY <2>1, LockedIsPlain
  <2>3. QED BY <2>1, <2>2, NothingUnder
<1>7. QED BY <1>3, <1>4, <1>5, <1>6 DEF Kinds

\* The place itself, when the loop has not yet been there.
LEMMA PlaceIsFree ==
  ASSUME TypeOK, Clean, LeavesInv, idx \in Subset, NEW o, o = Own(idx)
  PROVE  /\ o \in Path /\ fs[o].kind \in Kinds
         /\ ~Leaf(idx) => fs[o].kind \in {"none", "dir"}
         /\ Leaf(idx) => fs[o].kind # "dir"
         /\ ~IsLink(idx) => fs[o].kind # "link"
         /\ IsLink(idx) /\ pc = "work" => fs[o].kind = "none"
         /\ Leaf(idx) /\ pc = "work" /\ fs[o].kind = "file" => fs[o].writable
         /\ entry.fork => fs[o].writable
<1>1. o \in Path BY LeafIsNamed
<1>2. fs[o].kind \in Kinds BY <1>1, ListingTypes DEF Tree, Node
<1>3. Leaf(idx) => fs[o].kind # "dir" BY DEF LeavesInv
<1>4. ASSUME fs[o].kind \in {"file", "link"}
      PROVE  \E i \in Subset :
               /\ o = Own(i) /\ Leaf(i) /\ Reached(i)
               /\ fs[o].kind = "link" <=> IsLink(i)
  BY <1>1, <1>4 DEF LeavesInv
<1>5. ~Leaf(idx) => fs[o].kind \in {"none", "dir"}
  <2> SUFFICES ASSUME ~Leaf(idx), fs[o].kind \in {"file", "link"} PROVE FALSE
    BY <1>2 DEF Kinds
  <2>1. PICK i \in Subset : o = Own(i) /\ Leaf(i) BY <1>4
  <2>2. entries[idx].kind = "file" BY <2>1, SharedPlace
  <2>3. QED BY <2>2 DEF Leaf
<1>6. ~IsLink(idx) => fs[o].kind # "link"
  <2> SUFFICES ASSUME ~IsLink(idx), fs[o].kind = "link" PROVE FALSE
    OBVIOUS
  <2>1. PICK i \in Subset : o = Own(i) /\ Leaf(i) /\ IsLink(i) BY <1>4
  <2>2. entries[i].kind = "file" BY <2>1, SharedPlace
  <2>3. QED BY <2>1, <2>2 DEF IsLink
<1>7. ASSUME pc = "work", fs[o].kind \in {"file", "link"}, Leaf(idx)
      PROVE  entries[idx].kind = "file" /\ entries[idx].mode # "ro"
  <2>1. PICK i \in Subset : o = Own(i) /\ Leaf(i) /\ Reached(i) BY <1>4, <1>7
  <2>2. idx \in Nat BY ListingTypes
  <2>3. i # idx BY <1>7, <2>1, <2>2 DEF Reached
  <2>4. QED BY <2>1, <2>3, SharedPlace
<1>8. IsLink(idx) /\ pc = "work" => fs[o].kind = "none"
  <2> SUFFICES ASSUME IsLink(idx), pc = "work", fs[o].kind # "none" PROVE FALSE
    OBVIOUS
  <2>1. Leaf(idx) BY DEF IsLink, Leaf
  <2>2. fs[o].kind \in {"file", "link"} BY <1>2, <1>3, <2>1 DEF Kinds
  <2>3. QED BY <1>7, <2>1, <2>2 DEF IsLink
<1>9. ASSUME ~fs[o].writable, Leaf(idx) PROVE entries[idx].mode = "ro"
  <2>1. PICK i \in Subset : entries[i].mode = "ro" /\ o = Own(i)
    BY <1>1, <1>9 DEF LeavesInv
  <2>2. CASE i = idx BY <2>1, <2>2
  <2>3. CASE i # idx BY <1>9, <2>1, <2>3, SharedPlace
  <2>4. QED BY <2>2, <2>3
<1>10. Leaf(idx) /\ pc = "work" /\ fs[o].kind = "file" => fs[o].writable
  BY <1>7, <1>9
<1>11. entry.fork => fs[o].writable
  <2> SUFFICES ASSUME entry.fork, ~fs[o].writable PROVE FALSE
    OBVIOUS
  <2>1. entries[idx].mode = "ro" BY <1>9 DEF Leaf, entry
  <2>2. QED BY <2>1, LockedIsPlain DEF entry
<1>12. QED BY <1>1, <1>2, <1>3, <1>5, <1>6, <1>8, <1>10, <1>11

\* The directory of the place is there or can be made, and then be written to.
LEMMA ParentIsReady ==
  ASSUME TypeOK, Clean, LeavesInv, ShapeOf(fs), idx \in Subset
  PROVE  /\ ~ParentFails /\ WithParent \in Tree
         /\ WithParent[Parent(Place)].kind = "dir" /\ WithParent[Parent(Place)].writable
         /\ \A p \in Path : p \notin WithAncestors(Parent(Place)) =>
              Alike(fs[p], WithParent[p])
         /\ \A p \in Path : ~WithParent[p].writable => ~fs[p].writable
<1>1. fs \in Tree BY ListingTypes
<1>2. Own(idx) \in Path /\ Parent(Place) = Parent(Own(idx)) BY LeafIsNamed DEF Place
<1>3. Parent(Place) \in Path BY <1>2, ParentProperties
<1>4. \A q \in WithAncestors(Parent(Place)) :
        /\ fs[q].kind \in {"none", "dir"} /\ fs[q].writable
        /\ Parent(q) \in WithAncestors(Parent(Place))
  BY <1>2, WayIsFree
<1>5. CanMakeDirs(fs, Parent(Place)) BY <1>4 DEF CanMakeDirs
<1>6. WithParent \in Tree BY <1>1, CallsKeepTrees DEF WithParent
<1>7. Moves(fs, WithParent, WithAncestors(Parent(Place)), {}, {})
      /\ \A q \in Path : ~WithParent[q].writable => ~fs[q].writable
  BY <1>1, MakeDirsMoves DEF WithParent
<1>8. Parent(Place) \in WithAncestors(Parent(Place)) BY <1>3, ParentProperties
<1>9. WithParent[Parent(Place)].kind = "dir"
  <2>1. \/ WithParent[Parent(Place)].kind = "dir"
        \/ fs[Resolve(fs, Parent(Place))].kind = "dir" /\ WithParent = fs
    BY <1>1, <1>3, <1>5, <1>8, MakeDirsShape DEF WithParent
  <2>2. Resolve(fs, Parent(Place)) = Parent(Place) BY <1>4, <1>8 DEF Resolve
  <2>3. QED BY <2>1, <2>2
<1>10. WithParent[Parent(Place)].writable BY <1>3, <1>4, <1>7, <1>8
<1>11. QED BY <1>5, <1>6, <1>7, <1>9, <1>10 DEF ParentFails, Moves

\* What a step on an entry of such an archive does at the entry's own place, and
\* what it may report.
OwnKind ==
  LET o == Own(idx)
  IN /\ Leaf(idx) => fs'[o].kind \in {"none", IF IsLink(idx) THEN "link" ELSE "file"}
     /\ ~Leaf(idx) => fs'[o].kind = "dir"

Delivered ==
  failed' \subseteq failed \cup
    {[index |-> idx, why |-> w] :
       w \in {"reader", "unsupported"} \cup (IF DiskFaults /\ entry.fork THEN {"io"} ELSE {})}

\* What every step on an entry of such an archive keeps to.
Smooth ==
  /\ OwnKind /\ Delivered
  /\ pc' = "forking" => fs'[Parent(Place)].kind = "dir"

\* An entry given up is reported with its reason.
LEMMA FailsSo ==
  ASSUME NEW why, Fail(why)
  PROVE  failed' \subseteq failed \cup {[index |-> idx, why |-> why]}
BY DEF Fail

\* The same facts are there for every step on an entry of such an archive.
LEMMA CleanEntry ==
  ASSUME IndInv, DiskInv, CleanInv, Clean, OneEntry
  PROVE  /\ fs \in Tree /\ TypeOK /\ LeavesInv /\ ShapeOf(fs) /\ idx \in Subset /\ idx \in Nat
         /\ entry \in EntryRecord /\ ~Escapes(entry.path) /\ EntryStep
         /\ Own(idx) \in Path /\ Place \in Path /\ job' = job
         /\ Own(idx) \notin WithAncestors(Parent(Place)) \/ ~Leaf(idx)
         /\ Parent(Own(idx)) = Parent(Place)
         /\ fs[Own(idx)].kind # "link" /\ Resolve(fs, Own(idx)) = Own(idx)
         /\ entry.fork /\ ~MacOS => Own(idx) = SidecarPath(Place)
         /\ ~(entry.fork /\ ~MacOS) => Own(idx) = Place
<1>1. EntryStep BY EntrySteps
<1>2. /\ fs \in Tree /\ idx \in Subset /\ idx \in Nat /\ entry \in EntryRecord /\ job' = job /\ Busy
      /\ ~Escapes(entry.path) =>
           /\ Place \in Path /\ Own(idx) \in Path
           /\ entry.fork /\ ~MacOS => Own(idx) = SidecarPath(Place)
           /\ ~(entry.fork /\ ~MacOS) => Own(idx) = Place
  BY <1>1, EntryContext
<1>3. TypeOK /\ LeavesInv /\ ShapeOf(fs) BY DEF IndInv, CleanInv, DiskInv
<1>4. ~Escapes(entry.path) /\ Parent(Own(idx)) = Parent(Place)
  BY <1>2, <1>3, LeafIsNamed DEF entry, Place
<1>5. Own(idx) \notin WithAncestors(Parent(Place)) \/ ~Leaf(idx)
  BY <1>2, <1>3, <1>4, NothingUnder
<1>6. fs[Own(idx)].kind # "link"
  <2>1. CASE pc = "work" BY <1>2, <1>3, <2>1, PlaceIsFree
  <2>2. CASE pc # "work"
    <3>1. ~IsLink(idx) BY <1>2, <2>2 DEF Busy, DiskInv, WorkInv, IsLink, entry
    <3>2. QED BY <1>2, <1>3, <3>1, PlaceIsFree
  <2>3. QED BY <2>1, <2>2
<1>7. Resolve(fs, Own(idx)) = Own(idx) BY <1>6 DEF Resolve
<1>8. QED BY <1>1, <1>2, <1>3, <1>4, <1>5, <1>6, <1>7

\* Mode and time change no kind.
LEMMA TimeKeepsKinds ==
  ASSUME NEW t \in Tree, NEW p \in Path, NEW i \in Nat, NEW m,
         m # "none" => m \in {"rw", "ro"}, NEW q \in Path
  PROVE  /\ SetMode(t, p, m)[q].kind = t[q].kind
         /\ SetTime(t, p, i)[q].kind = t[q].kind
         /\ SetTime(SetMode(t, p, m), p, i)[q].kind = t[q].kind
<1>1. /\ \A r \in Path : Alike(t[r], SetMode(t, p, m)[r])
      /\ \A r \in Path : Alike(t[r], SetTime(t, p, i)[r])
  BY MetadataMoves DEF Moves
<1>2. SetMode(t, p, m) \in Tree BY MetadataKeepsTrees
<1>3. \A r \in Path : Alike(SetMode(t, p, m)[r], SetTime(SetMode(t, p, m), p, i)[r])
  BY <1>2, MetadataMoves DEF Moves
<1>4. QED BY <1>1, <1>3 DEF Alike

\* A step that reports nothing.
LEMMA SmoothQuiet ==
  ASSUME Leaf(idx), failed' \subseteq failed, pc' # "forking",
         fs'[Own(idx)].kind \in {"none", IF IsLink(idx) THEN "link" ELSE "file"}
  PROVE  Smooth
BY DEF Smooth, OwnKind, Delivered

\* MakeDir keeps to it.
LEMMA MakeDirSmooth ==
  ASSUME IndInv, DiskInv, CleanInv, Clean, MakeDir
  PROVE  Smooth
<1>1. OneEntry BY DEF OneEntry
<1>2. pc = "work" /\ ~entry.fork /\ entry.kind = "dir" BY DEF MakeDir, Working
<1>3. /\ fs \in Tree /\ TypeOK /\ LeavesInv /\ ShapeOf(fs) /\ idx \in Subset /\ idx \in Nat
      /\ entry \in EntryRecord /\ Place \in Path
  BY <1>1, CleanEntry
<1>own. Own(idx) = Place /\ fs[Place].kind # "link" BY <1>1, <1>2, CleanEntry
<1>4. ~Leaf(idx) BY <1>2 DEF Leaf, entry
<1>5. fs[Place].kind \in {"none", "dir"} BY <1>3, <1>4, <1>own, PlaceIsFree
<1>6. CanMakeDirs(fs, Place)
  <2>1. ASSUME NEW q \in WithAncestors(Place)
        PROVE  /\ fs[q].kind \in {"none", "dir"}
               /\ q # <<>> => fs[Parent(q)].writable
    <3>1. CASE q = Place
      <4>1. Parent(Place) \in Path BY <1>3, ParentProperties
      <4>2. Parent(Place) \in WithAncestors(Parent(Place)) BY <4>1, ParentProperties
      <4>3. fs[Parent(Place)].writable BY <1>3, <1>own, <4>2, WayIsFree
      <4>4. QED BY <1>5, <3>1, <4>3
    <3>2. CASE q # Place
      <4>1. q \in WithAncestors(Parent(Place)) BY <1>3, <3>2, AncestorProperties
      <4>2. fs[q].kind \in {"none", "dir"} /\ Parent(q) \in WithAncestors(Parent(Place))
        BY <1>3, <1>own, <4>1, WayIsFree
      <4>3. fs[Parent(q)].writable BY <1>3, <1>own, <4>2, WayIsFree
      <4>4. QED BY <4>2, <4>3
    <3>3. QED BY <3>1, <3>2
  <2>2. QED BY <2>1 DEF CanMakeDirs
<1>7. fs' = SetMode(MakeDirs(fs, Place), Place, entry.mode) /\ Succeed
  BY <1>6 DEF MakeDir
<1>8. fs'[Place].kind = "dir"
  <2> DEFINE t == MakeDirs(fs, Place)
  <2>1. t[Resolve(t, Place)].kind = "dir" BY <1>3, <1>6, MakeDirsShape
  <2>2. t \in Tree /\ Moves(fs, t, WithAncestors(Place), {}, {})
    BY <1>3, CallsKeepTrees, MakeDirsMoves
  <2> HIDE DEF t
  <2>3. Resolve(t, Place) = Resolve(fs, Place) BY <1>3, <2>2, SameWay
  <2>4. Resolve(fs, Place) = Place BY <1>own DEF Resolve
  <2>5. entry.mode # "none" => entry.mode \in {"rw", "ro"}
    BY <1>3 DEF EntryRecord, Modes
  <2>6. SetMode(t, Place, entry.mode)[Place].kind = t[Place].kind
    BY <1>3, <2>2, <2>5, TimeKeepsKinds
  <2>7. QED BY <1>7, <2>1, <2>3, <2>4, <2>6 DEF t
<1>9. failed' = failed /\ pc' = "entry" BY <1>7 DEF Succeed, NextEntry
<1>10. QED BY <1>4, <1>own, <1>8, <1>9 DEF Smooth, OwnKind, Delivered

\* The place, once its directory is made.
LEMMA AtPlace ==
  ASSUME IndInv, DiskInv, CleanInv, Clean, OneEntry, pc = "work", Leaf(idx),
         Own(idx) = Place
  PROVE  /\ ~ParentFails /\ WithParent \in Tree /\ Place # <<>>
         /\ Resolve(WithParent, Place) = Place
         /\ WithParent[Parent(Place)].kind = "dir" /\ WithParent[Parent(Place)].writable
         /\ IsLink(idx) => WithParent[Place].kind = "none"
         /\ ~IsLink(idx) => WithParent[Place].kind \in {"none", "file"}
         /\ ~IsLink(idx) => CanCreate(WithParent, Place)
         /\ WithParent[Place].kind = "file" => WithParent[Place].writable
<1>1. /\ fs \in Tree /\ TypeOK /\ LeavesInv /\ ShapeOf(fs) /\ idx \in Subset
      /\ Place \in Path /\ Place \notin WithAncestors(Parent(Place))
      /\ fs[Place].kind # "link"
  BY CleanEntry
<1>2. /\ ~ParentFails /\ WithParent \in Tree
      /\ WithParent[Parent(Place)].kind = "dir" /\ WithParent[Parent(Place)].writable
      /\ Alike(fs[Place], WithParent[Place])
      /\ ~WithParent[Place].writable => ~fs[Place].writable
  BY <1>1, ParentIsReady
<1>3. Place # <<>> BY <1>1, LeafIsNamed
<1>4. WithParent[Place].kind = fs[Place].kind BY <1>2 DEF Alike
<1>5. /\ fs[Place].kind \in {"none", "file"}
      /\ IsLink(idx) => fs[Place].kind = "none"
      /\ fs[Place].kind = "file" => fs[Place].writable
  BY <1>1, PlaceIsFree DEF Kinds
<1>6. Resolve(WithParent, Place) = Place BY <1>1, <1>4 DEF Resolve
<1>7. CanCreate(WithParent, Place)
  BY <1>2, <1>3, <1>4, <1>5, <1>6 DEF CanCreate
<1>8. QED BY <1>2, <1>3, <1>4, <1>5, <1>6, <1>7

\* MakeLink keeps to it.
LEMMA MakeLinkSmooth ==
  ASSUME IndInv, DiskInv, CleanInv, Clean, MakeLink
  PROVE  Smooth
<1>1. OneEntry BY DEF OneEntry
<1>2. /\ fs \in Tree /\ TypeOK /\ idx \in Subset /\ idx \in Nat /\ entry \in EntryRecord
      /\ Place \in Path /\ job' = job
  BY <1>1, CleanEntry
<1>3. pc = "work" /\ ~entry.fork /\ entry.kind = "link"
  BY <1>2 DEF MakeLink, Working, EntryRecord
<1>own. Own(idx) = Place BY <1>1, <1>3, CleanEntry
<1>4. Leaf(idx) /\ IsLink(idx) BY <1>3 DEF Leaf, IsLink, entry
<1>5. /\ ~ParentFails /\ WithParent \in Tree /\ Place # <<>>
      /\ WithParent[Parent(Place)].kind = "dir" /\ WithParent[Parent(Place)].writable
      /\ WithParent[Place].kind = "none"
  BY <1>1, <1>3, <1>4, <1>own, AtPlace
<1>6. CanLink(WithParent, Place) BY <1>5 DEF CanLink
<1>7. entry.to # Outside BY <1>2, <1>3 DEF Clean, entry
<1>8. Succeed BY <1>5, <1>6, <1>7 DEF MakeLink
<1>9. pc' = "entry" /\ failed' = failed /\ idx \in done'
  BY <1>8 DEF Succeed, NextEntry
<1>10. fs'[Place].kind = "link"
  <2>1. Sound BY <1>1, EntriesAreSound
  <2>2. \A i \in done' : i = idx => Standing(i)' BY <2>1 DEF Sound
  <2>3. PICK i \in done' : i = idx /\ Standing(i)' BY <1>9, <2>2
  <2>4. entries' = entries /\ Own(i)' = Place
    BY <1>2, <1>own, <2>3, SameJob, SamePlaces
  <2>5. ~entries[i].fork /\ entries[i].kind = "link" BY <1>3, <2>3 DEF entry
  <2>6. QED BY <2>3, <2>4, <2>5 DEF Standing
<1>11. QED BY <1>4, <1>own, <1>9, <1>10, SmoothQuiet

\* CreateFile keeps to it.
LEMMA CreateFileSmooth ==
  ASSUME IndInv, DiskInv, CleanInv, Clean, CreateFile
  PROVE  Smooth
<1>1. OneEntry BY DEF OneEntry
<1>2. fs \in Tree /\ idx \in Nat /\ entry \in EntryRecord /\ Place \in Path
  BY <1>1, CleanEntry
<1>3. pc = "work" /\ ~entry.fork /\ entry.kind = "file"
  BY <1>2 DEF CreateFile, Working, EntryRecord
<1>own. Own(idx) = Place BY <1>1, <1>3, CleanEntry
<1>4. Leaf(idx) /\ ~IsLink(idx) BY <1>3 DEF Leaf, IsLink, entry
<1>5. /\ ~ParentFails /\ WithParent \in Tree /\ CanCreate(WithParent, Place)
      /\ Resolve(WithParent, Place) = Place
  BY <1>1, <1>3, <1>4, <1>own, AtPlace
<1>6. /\ fs' = Create(WithParent, Place, idx) /\ pc' = "reading" /\ failed' = failed
  BY <1>5 DEF CreateFile
<1>7. fs'[Place].kind = "file"
  <2>1. WithParent \in Tree /\ Place \in Path /\ idx \in Nat BY <1>2, <1>5
  <2>2. Create(WithParent, Place, idx)[Resolve(WithParent, Place)].kind = "file"
    BY <2>1, CreateMoves
  <2>3. QED BY <1>5, <1>6, <2>2
<1>8. QED BY <1>4, <1>own, <1>6, <1>7, SmoothQuiet

\* The file being read.
LEMMA ReadingContext ==
  ASSUME IndInv, DiskInv, CleanInv, Clean, OneEntry, pc = "reading"
  PROVE  /\ fs \in Tree /\ idx \in Nat /\ entry \in EntryRecord /\ Place \in Path
         /\ Own(idx) = Place /\ Resolve(fs, Place) = Place /\ fs[Place].kind = "file"
         /\ Leaf(idx) /\ ~IsLink(idx)
<1>1. ~entry.fork /\ entry.kind = "file" /\ fs[Resolve(fs, Place)].kind = "file"
  BY DEF DiskInv, WorkInv
<1>2. fs \in Tree /\ idx \in Nat /\ entry \in EntryRecord /\ Place \in Path
  BY CleanEntry
<1>3. Own(idx) = Place /\ Resolve(fs, Place) = Place BY <1>1, CleanEntry
<1>4. QED BY <1>1, <1>2, <1>3 DEF Leaf, IsLink, entry

\* Reading keeps to it.
LEMMA ReadingSmooth ==
  ASSUME IndInv, DiskInv, CleanInv, Clean, WriteChunk \/ ReadFails \/ ReadDone
  PROVE  Smooth
<1>1. OneEntry /\ pc = "reading" BY DEF OneEntry, WriteChunk, ReadFails, ReadDone
<1>2. /\ fs \in Tree /\ idx \in Nat /\ entry \in EntryRecord /\ Place \in Path
      /\ Own(idx) = Place /\ Resolve(fs, Place) = Place /\ fs[Place].kind = "file"
      /\ Leaf(idx) /\ ~IsLink(idx)
  BY <1>1, ReadingContext
<1>3. RemoveFile(fs, Place)[Place].kind \in {"none", "file"}
  <2>1. RemoveFile(fs, Place)[Place] = Absent \/ RemoveFile(fs, Place) = fs
    BY <1>2, RemoveMoves
  <2>2. Absent.kind = "none" BY DEF Absent
  <2>3. QED BY <1>2, <2>1, <2>2
<1>4. CASE WriteChunk
  <2>1. failed' = failed /\ pc' # "forking" BY <1>1, <1>4 DEF WriteChunk, Abort
  <2>2. fs' = RemoveFile(fs, Place) \/ fs' = Touch(fs, Place) BY <1>2, <1>4 DEF WriteChunk
  <2>3. Touch(fs, Place)[Place].kind = fs[Place].kind
    <3>1. 0 \in Nat OBVIOUS
    <3>2. Moves(fs, Touch(fs, Place), {}, {}, {}) BY <1>2, <3>1, TouchMoves
    <3>3. QED BY <1>2, <3>2 DEF Moves, Alike
  <2>4. fs'[Place].kind \in {"none", "file"} BY <1>2, <1>3, <2>2, <2>3
  <2>5. QED BY <1>2, <2>1, <2>4, SmoothQuiet
<1>5. CASE ReadFails
  <2>1. Fail("reader") /\ fs' = RemoveFile(fs, Place) BY <1>5 DEF ReadFails
  <2>2. pc' # "forking" BY <2>1, FailEnds
  <2>3. Delivered BY <2>1, FailsSo DEF Delivered
  <2>4. OwnKind BY <1>2, <1>3, <2>1 DEF OwnKind
  <2>5. QED BY <2>2, <2>3, <2>4 DEF Smooth
<1>6. CASE ReadDone
  <2> DEFINE w == Filled(fs, Place)
             mode == entry.mode
  <2>1. /\ Succeed
        /\ fs' = SetTime(SetMode([fs EXCEPT ![Resolve(fs, Place)].full = TRUE],
                                 Place, entry.mode), Place, idx)
    BY <1>6 DEF ReadDone
  <2>2. fs' = SetTime(SetMode(w, Place, mode), Place, idx) BY <1>2, <2>1 DEF Filled
  <2>3. mode # "none" => mode \in {"rw", "ro"} BY <1>2 DEF EntryRecord, Modes
  <2>w. w = Filled(fs, Place) OBVIOUS
  <2> HIDE DEF w, mode
  <2>4. w \in Tree /\ w[Place].kind = "file" BY <1>2, <2>w, FullNode
  <2>5. fs'[Place].kind = "file" BY <1>2, <2>2, <2>3, <2>4, TimeKeepsKinds
  <2>6. failed' = failed /\ pc' = "entry" BY <2>1 DEF Succeed, NextEntry
  <2>7. QED BY <1>2, <2>5, <2>6, SmoothQuiet
<1>7. QED BY <1>4, <1>5, <1>6

\* A new file is one, empty and writable.
LEMMA NewFile ==
  ASSUME NEW t \in Tree, NEW p \in Path, NEW i \in Nat, NEW c, c = Create(t, p, i),
         NEW r, r = Resolve(t, p)
  PROVE  /\ c \in Tree /\ c[r].kind = "file" /\ r \in Path
         /\ t[r].kind # "file" => c[r].writable
         /\ t[r].kind = "file" => c[r].writable = t[r].writable
BY CreateMoves, CallsKeepTrees, ResolveInPath

\* A file filled is of its kind.
LEMMA FilledNode ==
  ASSUME NEW t \in Tree, NEW r \in Path
  PROVE  Filled(t, r)[r].kind = t[r].kind /\ Filled(t, r)[r].writable = t[r].writable
<1>1. t[r] \in Node BY DEF Tree
<1>2. Filled(t, r)[r] = [t[r] EXCEPT !.full = TRUE] BY DEF Filled, Tree
<1>3. QED BY <1>1, <1>2 DEF Node

\* StartFork keeps to it.
LEMMA StartForkSmooth ==
  ASSUME IndInv, DiskInv, CleanInv, Clean, StartFork
  PROVE  Smooth
<1>1. OneEntry BY DEF OneEntry
<1>2. /\ fs \in Tree /\ idx \in Nat /\ entry \in EntryRecord /\ Place \in Path
      /\ TypeOK /\ LeavesInv /\ ShapeOf(fs) /\ idx \in Subset /\ Own(idx) \in Path
      /\ Parent(Own(idx)) = Parent(Place)
      /\ fs[Own(idx)].kind # "link"
  BY <1>1, CleanEntry
<1>3. pc = "work" /\ entry.fork
  <2>1. "file" # "fork" /\ "dir" # "fork" /\ "link" # "fork" OBVIOUS
  <2>2. QED BY <1>2, <2>1 DEF StartFork, Working, EntryRecord, EntryKinds
<1>4. Leaf(idx) /\ ~IsLink(idx) BY <1>3 DEF Leaf, IsLink, entry
<1>5. /\ ~ParentFails /\ WithParent \in Tree
      /\ WithParent[Parent(Place)].kind = "dir"
      /\ \A p \in Path : p \notin WithAncestors(Parent(Place)) => Alike(fs[p], WithParent[p])
  BY <1>2, ParentIsReady
<1>6. CASE ~MacOS
  <2>1. fs' = WithParent /\ failed' = failed BY <1>5, <1>6 DEF StartFork
  <2>2. Own(idx) \notin WithAncestors(Parent(Place)) BY <1>1, <1>4, CleanEntry
  <2>3. fs'[Own(idx)].kind = fs[Own(idx)].kind BY <1>2, <1>5, <2>1, <2>2 DEF Alike
  <2>4. fs[Own(idx)].kind \in {"none", "file"}
    BY <1>2, <1>4, PlaceIsFree DEF Kinds
  <2>5. QED BY <1>4, <1>5, <2>1, <2>3, <2>4 DEF Smooth, OwnKind, Delivered
<1>7. CASE MacOS
  <2>own. Own(idx) = Place BY <1>1, <1>7, CleanEntry
  <2>1. /\ CanCreate(WithParent, Place) /\ Resolve(WithParent, Place) = Place
        /\ WithParent[Place].kind \in {"none", "file"}
        /\ WithParent[Place].kind = "file" => WithParent[Place].writable
        /\ WithParent[Parent(Place)].kind = "dir"
    BY <1>1, <1>3, <1>4, <2>own, AtPlace
  <2> DEFINE b == MacBase(WithParent)
             c == Create(WithParent, Place, 0)
  <2>2. b \in Tree /\ b[Place].kind = "file" /\ b[Place].writable
        /\ b[Parent(Place)].kind = "dir"
    <3>1. CASE WithParent[Place].kind = "file"
      <4>1. b = WithParent BY <2>1, <3>1 DEF MacBase, Exists
      <4>2. QED BY <1>5, <2>1, <3>1, <4>1
    <3>2. CASE WithParent[Place].kind = "none"
      <4>1. b = Filled(c, Resolve(WithParent, Place))
        BY <2>1, <3>2 DEF MacBase, Exists, Filled
      <4>2. b = Filled(c, Place) BY <2>1, <4>1
      <4>c. c = Create(WithParent, Place, 0) /\ 0 \in Nat OBVIOUS
      <4>d. Place = Resolve(WithParent, Place) BY <2>1
      <4> HIDE DEF b, c
      <4>3. c \in Tree /\ c[Place].kind = "file" /\ c[Place].writable
        <5>1. WithParent[Place].kind # "file" BY <3>2
        <5>2. QED BY <1>2, <1>5, <4>c, <4>d, <5>1, NewFile
      <4>4. b[Place].kind = "file" /\ b[Place].writable
        BY <1>2, <4>2, <4>3, FilledNode
      <4>5. b \in Tree /\ OnlyAt(c, b, Place) BY <1>2, <4>2, <4>3, FullNode
      <4>6. Parent(Place) \in Path /\ Parent(Place) # Place
        BY <1>2, <2>1, <3>2, ParentProperties
      <4>7. c[Parent(Place)].kind = WithParent[Parent(Place)].kind
        <5>1. \A q \in Path \ {Resolve(WithParent, Place)} :
                Alike(WithParent[q], Create(WithParent, Place, 0)[q])
          BY <1>2, <1>5, <4>c, CreateMoves
        <5>2. QED BY <4>c, <4>d, <4>6, <5>1 DEF Alike
      <4>8. QED BY <2>1, <4>4, <4>5, <4>6, <4>7 DEF OnlyAt
    <3>3. QED BY <2>1, <3>1, <3>2
  <2>3. Resolve(b, Place) = Place BY <2>2 DEF Resolve
  <2>4. CanOpenFork(b) BY <2>2, <2>3 DEF CanOpenFork
  <2>5. ~MacBaseFails(WithParent) BY <2>1 DEF MacBaseFails
  <2>6. fs' = OpenFork(b) /\ pc' = "forking" /\ failed' = failed
    BY <1>5, <1>7, <2>4, <2>5 DEF StartFork
  <2> HIDE DEF b
  <2>7. fs' = Forked(b, Place, idx) BY <2>3, <2>6 DEF OpenFork, Forked
  <2>8. OnlyAt(b, fs', Place) /\ fs'[Place].kind = b[Place].kind
    BY <1>2, <2>2, <2>7, ForkNode
  <2>9. fs'[Parent(Place)].kind = "dir" /\ fs'[Place].kind = "file"
    <3>1. Parent(Place) \in Path BY <1>2, ParentProperties
    <3>2. "file" # "dir" OBVIOUS
    <3>3. Parent(Place) # Place BY <2>2, <3>2
    <3>4. QED BY <2>2, <2>8, <3>1, <3>3 DEF OnlyAt
  <2>10. QED BY <1>4, <2>own, <2>6, <2>9 DEF Smooth, OwnKind, Delivered
<1>8. QED BY <1>6, <1>7

\* A fork being read.
LEMMA ForkingSmooth ==
  ASSUME IndInv, DiskInv, CleanInv, Clean, ReadFork \/ ForkFails \/ ForkTooLong
  PROVE  Smooth
<1>1. OneEntry /\ pc = "forking" BY DEF OneEntry, ReadFork, ForkFails, ForkTooLong
<1>2. entry.fork BY <1>1 DEF DiskInv, WorkInv
<1>3. Leaf(idx) /\ ~IsLink(idx) BY <1>2 DEF Leaf, IsLink, entry
<1>4. /\ TypeOK /\ LeavesInv /\ idx \in Subset BY <1>1, CleanEntry
<1>5. fs[Own(idx)].kind \in {"none", "file"} BY <1>3, <1>4, PlaceIsFree DEF Kinds
<1>6. fs[Parent(Place)].kind = "dir" BY <1>1 DEF CleanInv
<1>7. CASE ReadFork
  <2>1. fs' = fs /\ failed' = failed BY <1>7 DEF ReadFork
  <2>2. QED BY <1>3, <1>5, <1>6, <2>1 DEF Smooth, OwnKind, Delivered
<1>8. CASE ForkFails \/ ForkTooLong
  <2>1. fs' = fs /\ (Fail("reader") \/ Fail("unsupported"))
    BY <1>8 DEF ForkFails, ForkTooLong
  <2>2. pc' # "forking" BY <2>1, FailEnds
  <2>3. Delivered BY <2>1, FailsSo DEF Delivered
  <2>4. QED BY <1>3, <1>5, <2>1, <2>2, <2>3 DEF Smooth, OwnKind
<1>9. QED BY <1>7, <1>8

\* MacForkDone keeps to it.
LEMMA MacForkDoneSmooth ==
  ASSUME IndInv, DiskInv, CleanInv, Clean, MacForkDone
  PROVE  Smooth
<1>1. OneEntry BY DEF OneEntry
<1>2. pc = "forking" /\ MacOS /\ Succeed BY DEF MacForkDone
<1>3. entry.fork /\ fs[Resolve(fs, Place)].kind = "file"
  BY <1>2 DEF DiskInv, WorkInv
<1>4. Leaf(idx) /\ ~IsLink(idx) BY <1>3 DEF Leaf, IsLink, entry
<1>5. fs \in Tree /\ idx \in Nat /\ Place \in Path BY <1>1, CleanEntry
<1>own. Own(idx) = Place BY <1>1, <1>2, CleanEntry
<1>6. Resolve(fs, Place) = Place BY <1>1, <1>own, CleanEntry
<1> DEFINE w == ForkFilled(fs, Place)
<1>7. fs' = SetTime([fs EXCEPT ![Resolve(fs, Place)].forkFull = TRUE], Place, idx)
  BY DEF MacForkDone
<1>8. fs' = SetTime(w, Place, idx) BY <1>6, <1>7 DEF ForkFilled
<1>w. w = ForkFilled(fs, Place) OBVIOUS
<1> HIDE DEF w
<1>9. w \in Tree /\ w[Place].kind = "file" BY <1>3, <1>5, <1>6, <1>w, ForkFullNode
<1>10. fs'[Place].kind = "file"
  <2>1. "none" # "none" => "none" \in {"rw", "ro"} OBVIOUS
  <2>2. QED BY <1>5, <1>8, <1>9, <2>1, TimeKeepsKinds
<1>11. failed' = failed /\ pc' = "entry" BY <1>2 DEF Succeed, NextEntry
<1>12. QED BY <1>4, <1>own, <1>10, <1>11, SmoothQuiet

\* WriteSidecar keeps to it.
LEMMA WriteSidecarSmooth ==
  ASSUME IndInv, DiskInv, CleanInv, Clean, WriteSidecar
  PROVE  Smooth
<1>1. OneEntry BY DEF OneEntry
<1>2. pc = "forking" /\ ~MacOS BY DEF WriteSidecar
<1>3. entry.fork BY <1>2 DEF DiskInv, WorkInv
<1>4. Leaf(idx) /\ ~IsLink(idx) BY <1>3 DEF Leaf, IsLink, entry
<1>5. /\ fs \in Tree /\ idx \in Nat /\ TypeOK /\ LeavesInv /\ idx \in Subset
      /\ Own(idx) \in Path /\ Parent(Own(idx)) = Parent(Place)
  BY <1>1, CleanEntry
<1>own. Own(idx) = SidecarPath(Place) BY <1>1, <1>2, <1>3, CleanEntry
<1>6. Resolve(fs, Own(idx)) = Own(idx) BY <1>1, CleanEntry
<1>7. fs[Own(idx)].kind \in {"none", "file"} /\ fs[Own(idx)].writable
  BY <1>3, <1>4, <1>5, PlaceIsFree DEF Kinds
<1>8. fs[Parent(Own(idx))].kind = "dir" BY <1>2, <1>5 DEF CleanInv
<1>9. fs[Parent(Own(idx))].writable
  <2>1. Parent(Own(idx)) \in Path BY <1>5, ParentProperties
  <2>2. Parent(Own(idx)) \in WithAncestors(Parent(Own(idx))) BY <2>1, ParentProperties
  <2>3. QED BY <1>5, <2>2, WayIsFree
<1>10. Own(idx) # <<>> BY <1>4, <1>5, LeafIsNamed
<1>11. CanCreate(fs, Own(idx)) BY <1>6, <1>7, <1>8, <1>9, <1>10 DEF CanCreate
<1> DEFINE o == Own(idx)
           c == Create(fs, o, idx)
           w == Filled(c, o)
<1>12. \/ DiskFaults /\ fs' = c /\ Fail("io")
       \/ fs' = SetTime(w, o, idx) /\ Succeed
  BY <1>own, <1>6, <1>11 DEF WriteSidecar, Filled
<1>c. c = Create(fs, o, idx) /\ w = Filled(c, o) /\ o \in Path BY <1>5
<1>o. o = Resolve(fs, o) /\ o = Own(idx) BY <1>6
<1> HIDE DEF o, c, w
<1>13. c \in Tree /\ c[o].kind = "file" BY <1>5, <1>c, <1>o, NewFile
<1>14. w \in Tree /\ w[o].kind = "file" BY <1>c, <1>13, FullNode
<1>15. CASE DiskFaults /\ fs' = c /\ Fail("io")
  <2>1. pc' # "forking" BY <1>15, FailEnds
  <2>2. Delivered BY <1>3, <1>15, FailsSo DEF Delivered
  <2>3. fs'[Own(idx)].kind = "file" BY <1>13, <1>15, <1>o
  <2>4. QED BY <1>4, <2>1, <2>2, <2>3 DEF Smooth, OwnKind
<1>16. CASE fs' = SetTime(w, o, idx) /\ Succeed
  <2>1. "none" # "none" => "none" \in {"rw", "ro"} OBVIOUS
  <2>2. fs'[o].kind = "file" BY <1>5, <1>c, <1>14, <1>16, <2>1, TimeKeepsKinds
  <2>3. failed' = failed /\ pc' = "entry" BY <1>16 DEF Succeed, NextEntry
  <2>4. fs'[Own(idx)].kind = "file" BY <2>2, <1>o
  <2>5. QED BY <1>4, <2>3, <2>4, SmoothQuiet
<1>17. QED BY <1>12, <1>15, <1>16

\* The steps on an entry, together.
LEMMA EntriesAreSmooth == ASSUME IndInv, DiskInv, CleanInv, Clean, OneEntry PROVE Smooth
<1>1. ~RefusePath
  <2>1. ~Escapes(entry.path) BY CleanEntry
  <2>2. QED BY <2>1 DEF RefusePath
<1>2. QED
  BY <1>1, MakeDirSmooth, MakeLinkSmooth, CreateFileSmooth, ReadingSmooth, StartForkSmooth,
     ForkingSmooth, MacForkDoneSmooth, WriteSidecarSmooth DEF OneEntry

\* Whether an archive is without conflict depends on the call alone.
LEMMA SameClean ==
  ASSUME job' = job
  PROVE  /\ Clean' <=> Clean
         /\ \A i : (Leaf(i)' <=> Leaf(i)) /\ (IsLink(i)' <=> IsLink(i))
         /\ \A f : Excused(f)' <=> Excused(f)
<1>1. /\ entries' = entries /\ Subset' = Subset /\ MacOS' = MacOS
      /\ \A i : Own(i)' = Own(i)
      /\ \A i, j : BothDirs(i, j)' = BothDirs(i, j) /\ ForkPair(i, j)' = ForkPair(i, j)
  BY SameJob, SamePlaces
<1>2. Clean' <=> Clean BY <1>1 DEF Clean
<1>3. QED BY <1>1, <1>2 DEF Leaf, IsLink, Excused

\* The loop does not go back.
LEMMA EntryReaches ==
  ASSUME IndInv, OneEntry
  PROVE  \A i \in Subset : Reached(i) \/ i = idx => Reached(i)'
<1>1. EntryStep BY EntrySteps
<1>2. idx \in Nat /\ Subset \subseteq Nat BY ListingTypes DEF IndInv, Subset
<1>3. idx' = idx + 1 \/ (idx' = idx /\ pc' \in {"reading", "forking", "stamp", "returned"})
  BY <1>1, NoWork
  DEF EntryStep, Succeed, Fail, Proceed, Chunk, Abort, NextEntry, Return, Busy
<1>4. QED BY <1>2, <1>3 DEF Reached

\* The steps on an entry: what is on the disk.
LEMMA EntryKeepsLeaves ==
  ASSUME IndInv, DiskInv, CleanInv, Clean, OneEntry
  PROVE  LeavesInv'
<1>1. Sound /\ Smooth BY EntriesAreSound, EntriesAreSmooth
<1>2. /\ TypeOK /\ LeavesInv /\ idx \in Subset /\ Own(idx) \in Path /\ job' = job
      /\ Spots = {Own(idx)}
  BY CleanEntry DEF Spots
<1>3. /\ Subset' = Subset /\ entries' = entries
      /\ \A i : Own(i)' = Own(i) /\ (Leaf(i)' <=> Leaf(i)) /\ (IsLink(i)' <=> IsLink(i))
  BY <1>2, SameJob, SamePlaces, SameClean
<1>4. /\ Moves(fs, fs', Around(idx), Spots, ModeSpots) /\ OwnKind
  BY <1>1 DEF Sound, Smooth
<1>5. ASSUME NEW i \in Subset, Leaf(i), Own(i) = Own(idx) PROVE Leaf(idx)
  <2>1. CASE i = idx BY <1>5, <2>1
  <2>2. CASE i # idx
    <3>1. entries[idx].kind = "file" BY <1>2, <1>5, <2>2, SharedPlace
    <3>2. QED BY <3>1 DEF Leaf
  <2>3. QED BY <2>1, <2>2
<1>6. ASSUME NEW i \in Subset, Leaf(i) PROVE fs'[Own(i)].kind # "dir"
  <2>1. Own(i) \in Path /\ fs[Own(i)].kind # "dir"
    BY <1>2, <1>6, LeafIsNamed DEF LeavesInv
  <2>2. Own(i) \notin Around(idx)
    BY <1>2, <1>5, <1>6, NothingUnder DEF Around
  <2>3. Alike(fs[Own(i)], fs'[Own(i)]) \/ Own(i) = Own(idx)
    BY <1>2, <1>4, <2>1, <2>2 DEF Moves
  <2>4. CASE Alike(fs[Own(i)], fs'[Own(i)]) BY <2>1, <2>4 DEF Alike
  <2>5. CASE Own(i) = Own(idx)
    <3>1. Leaf(idx) BY <1>5, <1>6, <2>5
    <3>2. QED BY <1>4, <2>5, <3>1 DEF OwnKind
  <2>6. QED BY <2>3, <2>4, <2>5
<1>7. ASSUME NEW p \in Path, fs'[p].kind \in {"file", "link"}
      PROVE  \E i \in Subset :
               p = Own(i) /\ Leaf(i) /\ Reached(i)' /\ (fs'[p].kind = "link" <=> IsLink(i))
  <2>1. Alike(fs[p], fs'[p]) \/ p = Own(idx) BY <1>2, <1>4, <1>7 DEF Moves
  <2>2. CASE Alike(fs[p], fs'[p])
    <3>1. fs[p].kind = fs'[p].kind BY <2>2 DEF Alike
    <3>2. PICK i \in Subset :
            p = Own(i) /\ Leaf(i) /\ Reached(i) /\ (fs[p].kind = "link" <=> IsLink(i))
      BY <1>2, <1>7, <3>1 DEF LeavesInv
    <3>3. Reached(i)' BY <3>2, EntryReaches
    <3>4. QED BY <3>1, <3>2, <3>3
  <2>3. CASE p = Own(idx)
    <3>1. Leaf(idx) /\ fs'[p].kind \in {"none", IF IsLink(idx) THEN "link" ELSE "file"}
      BY <1>4, <1>7, <2>3 DEF OwnKind
    <3>2. PICK n \in Subset : n = idx /\ Reached(n)' BY <1>2, EntryReaches
    <3>3. QED BY <1>7, <2>3, <3>1, <3>2
  <2>4. QED BY <2>1, <2>2, <2>3
<1>8. ASSUME NEW p \in Path, ~fs'[p].writable
      PROVE  \E i \in Subset : entries[i].mode = "ro" /\ p = Own(i)
  <2>1. ~fs[p].writable \/ p \in ModeSpots BY <1>4, <1>8 DEF Moves
  <2>2. CASE ~fs[p].writable BY <1>2, <2>2 DEF LeavesInv
  <2>3. CASE p \in ModeSpots BY <1>2, <2>3 DEF ModeSpots, entry
  <2>4. QED BY <2>1, <2>2, <2>3
<1>9. QED BY <1>3, <1>6, <1>7, <1>8 DEF LeavesInv

\* The steps on an entry: the report too.
LEMMA EntryKeepsClean ==
  ASSUME IndInv, DiskInv, CleanInv, OneEntry
  PROVE  CleanInv'
<1>1. job' = job BY EntrySteps DEF EntryStep
<1>2. (Clean' <=> Clean) /\ \A f : Excused(f)' <=> Excused(f) BY <1>1, SameClean
<1> SUFFICES ASSUME Clean
             PROVE  /\ LeavesInv'
                    /\ pc' = "forking" => fs'[Parent(Place')].kind = "dir"
                    /\ \A f \in failed' : Excused(f)
  BY <1>2 DEF CleanInv
<1>3. LeavesInv' BY EntryKeepsLeaves
<1>4. Smooth BY EntriesAreSmooth
<1>5. ASSUME pc' = "forking" PROVE fs'[Parent(Place')].kind = "dir"
  <2>1. idx' = idx
    BY <1>5, EntrySteps
    DEF EntryStep, Succeed, Fail, Proceed, Chunk, Abort, NextEntry, Return
  <2>2. Place' = Place BY <1>1, <2>1, SamePlaces DEF Place
  <2>3. QED BY <1>4, <1>5, <2>2 DEF Smooth
<1>6. ASSUME NEW f \in failed' PROVE Excused(f)
  <2>1. CASE f \in failed BY <2>1 DEF CleanInv
  <2>2. CASE f \notin failed
    <3>1. PICK w \in {"reader", "unsupported"}
                     \cup (IF DiskFaults /\ entry.fork THEN {"io"} ELSE {}) :
            f = [index |-> idx, why |-> w]
      BY <1>4, <1>6, <2>2 DEF Smooth, Delivered
    <3>2. f.index = idx /\ f.why = w BY <3>1
    <3>3. QED BY <3>1, <3>2 DEF Excused, entry
  <2>3. QED BY <2>1, <2>2
<1>7. QED BY <1>3, <1>5, <1>6

\* Such an archive is extracted into an empty directory.
LEMMA InitClean == Init => CleanInv
<1> SUFFICES ASSUME Init, Clean PROVE CleanInv
  BY DEF CleanInv
<1>1. TypeOK BY InitInv DEF IndInv
<1>2. fs = job.tree /\ failed = {} /\ pc = "preflight" BY DEF Init
<1>3. \A p \in Path : p # <<>> => fs[p] = Absent BY <1>2 DEF Clean
<1>4. Absent.kind = "none" /\ Absent.writable BY DEF Absent
<1>5. fs[<<>>].writable /\ fs[<<>>].kind = "dir"
  <2>1. job.tree \in Trees BY <1>1 DEF TypeOK
  <2>2. QED BY <1>2, <2>1, SoundTrees DEF Clean
<1>6. \A i \in Subset : Leaf(i) => Own(i) \in Path /\ Own(i) # <<>> BY <1>1, LeafIsNamed
<1>7. LeavesInv
  <2>1. \A i \in Subset : Leaf(i) => fs[Own(i)].kind # "dir" BY <1>3, <1>4, <1>6
  <2>2. \A p \in Path : fs[p].kind \notin {"file", "link"} /\ fs[p].writable
    BY <1>3, <1>4, <1>5
  <2>3. QED BY <2>1, <2>2 DEF LeavesInv
<1>8. QED BY <1>2, <1>7 DEF CleanInv

\* The steps before, between and after the entries.
LEMMA FrameKeepsClean ==
  ASSUME IndInv, DiskInv, CleanInv,
         VerifyPassword \/ MakeWrapper \/ SkipEntry \/ StartEntry \/ EndLoop \/ ApplyDirTime
  PROVE  CleanInv'
<1>1. /\ job' = job /\ Moves(fs, fs', WithAncestors(Dest), {}, {})
      /\ pc \notin {"work", "reading", "forking"} /\ pc' \notin {"reading", "forking"}
  BY FrameMoves
<1>2. (Clean' <=> Clean) /\ \A f : Excused(f)' <=> Excused(f) BY <1>1, SameClean
<1>3. failed' = failed
  BY DEF VerifyPassword, MakeWrapper, SkipEntry, StartEntry, EndLoop, ApplyDirTime, Abort
<1> SUFFICES ASSUME Clean PROVE LeavesInv'
  BY <1>1, <1>2, <1>3 DEF CleanInv
<1>4. TypeOK /\ LeavesInv BY DEF IndInv, CleanInv
<1>5. /\ Subset' = Subset /\ entries' = entries
      /\ \A i : Own(i)' = Own(i) /\ (Leaf(i)' <=> Leaf(i)) /\ (IsLink(i)' <=> IsLink(i))
  BY <1>1, SameJob, SamePlaces, SameClean
<1>6. \A i \in Subset : Reached(i) => Reached(i)'
  <2>1. idx \in Nat /\ Subset \subseteq Nat BY <1>4, ListingTypes DEF Subset
  <2>2. \/ idx' = idx + 1
        \/ idx' = idx /\ pc \notin {"stamp", "returned"}
        \/ idx' = idx /\ pc' \in {"stamp", "returned"}
    BY DEF VerifyPassword, MakeWrapper, SkipEntry, StartEntry, EndLoop, ApplyDirTime,
           Abort, NextEntry, Return
  <2>3. QED BY <1>1, <2>1, <2>2 DEF Reached
<1>7. ASSUME NEW i \in Subset, Leaf(i) PROVE fs'[Own(i)].kind # "dir"
  <2>1. Own(i) \in Path /\ Own(i) \notin WithAncestors(Dest) /\ fs[Own(i)].kind # "dir"
    BY <1>4, <1>7, LeafIsNamed DEF LeavesInv
  <2>2. QED BY <1>1, <2>1 DEF Moves, Alike
<1>8. ASSUME NEW p \in Path, fs'[p].kind \in {"file", "link"}
      PROVE  \E i \in Subset :
               p = Own(i) /\ Leaf(i) /\ Reached(i)' /\ (fs'[p].kind = "link" <=> IsLink(i))
  <2>1. fs'[p].kind = fs[p].kind BY <1>1, <1>8 DEF Moves, Alike
  <2>2. PICK i \in Subset :
          p = Own(i) /\ Leaf(i) /\ Reached(i) /\ (fs[p].kind = "link" <=> IsLink(i))
    BY <1>4, <1>8, <2>1 DEF LeavesInv
  <2>3. QED BY <1>6, <2>1, <2>2
<1>9. \A p \in Path : ~fs'[p].writable => ~fs[p].writable BY <1>1 DEF Moves
<1>10. QED BY <1>4, <1>5, <1>7, <1>8, <1>9 DEF LeavesInv

\* Every step.
LEMMA StepClean == ASSUME IndInv, DiskInv, CleanInv, [Next]_vars PROVE CleanInv'
<1>1. CASE OneEntry BY <1>1, EntryKeepsClean
<1>2. CASE VerifyPassword \/ MakeWrapper \/ SkipEntry \/ StartEntry \/ EndLoop \/ ApplyDirTime
  BY <1>2, FrameKeepsClean
<1>3. CASE UNCHANGED vars
  <2>1. job' = job /\ fs' = fs /\ pc' = pc /\ idx' = idx /\ failed' = failed BY <1>3 DEF vars
  <2>2. /\ Subset' = Subset /\ entries' = entries /\ (Clean' <=> Clean)
        /\ \A i : Own(i)' = Own(i) /\ Target(i)' = Target(i)
        /\ \A i : (Leaf(i)' <=> Leaf(i)) /\ (IsLink(i)' <=> IsLink(i))
        /\ \A f : Excused(f)' <=> Excused(f)
    BY <2>1, SameJob, SamePlaces, SameClean
  <2>3. Place' = Place BY <2>1, <2>2 DEF Place
  <2>4. \A i : Reached(i)' <=> Reached(i) BY <2>1 DEF Reached
  <2>5. LeavesInv' <=> LeavesInv BY <2>1, <2>2, <2>4 DEF LeavesInv
  <2>6. QED BY <2>1, <2>2, <2>3, <2>5 DEF CleanInv
<1>4. QED BY <1>1, <1>2, <1>3 DEF Next, OneEntry

\* Of an archive without a conflict in itself every leaf has its place to itself.
THEOREM CleanInductive == Spec => []CleanInv
<1>1. Init => CleanInv BY InitClean
<1>2. IndInv /\ DiskInv /\ CleanInv /\ [Next]_vars => CleanInv' BY StepClean
<1>3. QED BY <1>1, <1>2, Inductive, DiskInductive, PTL DEF Spec

\* Of such an archive only what the reader or the disk cannot deliver is reported.
THEOREM CleanArchivesExtract == Spec => []CleanIsExtracted
<1>1. CleanInv => CleanIsExtracted BY DEF CleanInv, Excused, CleanIsExtracted
<1>2. QED BY <1>1, CleanInductive, PTL

----------------------------------------------------------------------------
(***************************************************************************)
(* The promise is kept.                                                    *)
(***************************************************************************)
Peaceful == Clean /\ \A i, j \in Subset : ~ForkPair(i, j)

\* Where not even the two forks of a file meet, all that is counted stands.
CleanStands == Peaceful => \A i \in done : Standing(i)

\* A step on one entry leaves the others standing.
LEMMA PeacefulStands ==
  ASSUME IndInv, DiskInv, CleanInv, Peaceful, OneEntry, NEW i \in done, i # idx, Standing(i)
  PROVE  Standing(i)'
<1>1. Clean /\ ~ForkPair(i, idx)
  <2>1. idx \in Subset /\ i \in Subset
    BY CleanEntry DEF Peaceful, IndInv, ReportInv
  <2>2. QED BY <2>1 DEF Peaceful
<1>2. /\ TypeOK /\ LeavesInv /\ idx \in Subset /\ job' = job /\ Spots = {Own(idx)}
      /\ fs \in Tree
  BY <1>1, CleanEntry DEF Spots
<1>3. i \in Subset BY DEF IndInv, ReportInv
<1>4. i \in Index /\ entries[i] \in EntryRecord /\ Own(i) \in Path
  BY <1>1, <1>2, <1>3, LeafIsNamed
<1>5. Moves(fs, fs', Around(idx), Spots, ModeSpots)
  <2>1. Sound BY EntriesAreSound
  <2>2. QED BY <2>1 DEF Sound
<1>6. entries[i].fork \in BOOLEAN BY <1>4 DEF EntryRecord
<1>7. fs[Own(i)].kind # "none" BY <1>6 DEF Standing, Resolve
<1>8. Alike(fs[Own(i)], fs'[Own(i)])
  <2>1. CASE Own(i) # Own(idx) BY <1>2, <1>4, <1>5, <1>7, <2>1 DEF Moves
  <2>2. CASE Own(i) = Own(idx)
    <3>1. ~Leaf(idx)
      <4>1. Leaf(idx) => ForkPair(i, idx)
        BY <1>1, <1>2, <1>3, <2>2, SharedPlace DEF ForkPair
      <4>2. QED BY <1>1, <4>1
    <3>2. entry.kind = "dir" /\ ~entry.fork BY <3>1 DEF Leaf, entry
    <3>3. QED BY <1>4, <1>7, <3>2, DirsAreQuiet
  <2>3. QED BY <2>1, <2>2
<1>9. CASE IsLink(i)
  <2>1. entries' = entries /\ Own(i)' = Own(i) BY <1>2, SameJob, SamePlaces
  <2>2. fs[Own(i)].kind = "link" /\ fs[Own(i)].src = i BY <1>9 DEF Standing, IsLink
  <2>3. fs'[Own(i)].kind = "link" /\ fs'[Own(i)].src = i BY <1>8, <2>2 DEF Alike
  <2>4. QED BY <1>9, <2>1, <2>3 DEF Standing, IsLink
<1>10. CASE ~IsLink(i)
  <2>1. fs[Own(i)].kind # "link"
    <3> SUFFICES ASSUME fs[Own(i)].kind = "link" PROVE FALSE
      OBVIOUS
    <3>1. PICK k \in Subset : Own(i) = Own(k) /\ Leaf(k) /\ IsLink(k)
      BY <1>2, <1>4 DEF LeavesInv
    <3>2. k # i BY <1>10, <3>1
    <3>3. entries[k].kind = "file" BY <1>1, <1>2, <1>3, <3>1, <3>2, SharedPlace
    <3>4. QED BY <3>1, <3>3 DEF IsLink
  <2>2. Resolve(fs, Own(i)) = Own(i) BY <2>1 DEF Resolve
  <2>3. \A q \in {Own(i), Resolve(fs, Own(i))} : fs[q].kind # "none" => Alike(fs[q], fs'[q])
    BY <1>8, <2>2
  <2>4. QED BY <1>2, <1>4, <2>3, StandingKept
<1>11. QED BY <1>9, <1>10

\* Every step.
LEMMA StepCleanStands ==
  ASSUME IndInv, DiskInv, CleanInv, CleanStands, [Next]_vars
  PROVE  CleanStands'
<1>1. CASE OneEntry
  <2>1. EntryStep BY <1>1, EntrySteps
  <2>2. job' = job /\ done' \subseteq done \cup {idx}
    BY <2>1 DEF EntryStep, Succeed, Fail, Proceed, Chunk, Abort
  <2>3. Peaceful' <=> Peaceful BY <2>2, SameJob, SamePlaces, SameClean DEF Peaceful
  <2>4. ASSUME Peaceful, NEW i \in done' PROVE Standing(i)'
    <3>1. CASE i = idx
      <4>1. Sound BY <1>1, EntriesAreSound
      <4>2. QED BY <3>1, <4>1 DEF Sound
    <3>2. CASE i # idx
      <4>1. i \in done BY <2>2, <3>2
      <4>2. Standing(i) BY <2>4, <4>1 DEF CleanStands
      <4>3. QED BY <1>1, <2>4, <3>2, <4>1, <4>2, PeacefulStands
    <3>3. QED BY <3>1, <3>2
  <2>5. QED BY <2>3, <2>4 DEF CleanStands
<1>2. CASE VerifyPassword \/ MakeWrapper \/ SkipEntry \/ StartEntry \/ EndLoop \/ ApplyDirTime
  <2>1. /\ job' = job /\ done' = done /\ fs \in Tree
        /\ Moves(fs, fs', WithAncestors(Dest), {}, {})
    BY <1>2, FrameMoves
  <2>2. Peaceful' <=> Peaceful BY <2>1, SameJob, SamePlaces, SameClean DEF Peaceful
  <2>3. ASSUME Peaceful, NEW i \in done PROVE Standing(i)'
    <3>1. Standing(i) BY <2>3 DEF CleanStands
    <3>2. i \in Index /\ entries[i] \in EntryRecord /\ ~Escapes(entries[i].path) /\ TypeOK
      BY ListingTypes DEF IndInv, TypeOK, DiskInv, GoodInv
    <3>3. Own(i) \in Path /\ Resolve(fs, Own(i)) \in Path
      BY <2>1, <3>2, PlacesExist, ResolveInPath
    <3>4. \A q \in {Own(i), Resolve(fs, Own(i))} : fs[q].kind # "none" => Alike(fs[q], fs'[q])
      BY <2>1, <3>3, NothingWritten
    <3>5. QED BY <2>1, <3>1, <3>2, <3>4, StandingKept
  <2>4. QED BY <2>1, <2>2, <2>3 DEF CleanStands
<1>3. CASE UNCHANGED vars
  <2>1. job' = job /\ fs' = fs /\ done' = done BY <1>3 DEF vars
  <2>2. Peaceful' <=> Peaceful BY <2>1, SameJob, SamePlaces, SameClean DEF Peaceful
  <2>3. \A i : Standing(i)' <=> Standing(i)
    BY <2>1, SameJob, SamePlaces DEF Standing
  <2>4. QED BY <2>1, <2>2, <2>3 DEF CleanStands
<1>4. QED BY <1>1, <1>2, <1>3 DEF Next, OneEntry

\* Entries without a conflict all stand, from the moment they are counted.
THEOREM PeacefulInductive == Spec => []CleanStands
<1>1. Init => CleanStands BY DEF Init, CleanStands
<1>2. IndInv /\ DiskInv /\ CleanInv /\ CleanStands /\ [Next]_vars => CleanStands'
  BY StepCleanStands
<1>3. QED BY <1>1, <1>2, Inductive, DiskInductive, CleanInductive, PTL DEF Spec

\* What is kept is what the report counts.
LEMMA KeptIsDone == CleanStands => KeptWhole = done
BY DEF CleanStands, KeptWhole, Peaceful

\* The initial states are initial states of the promise.
LEMMA InitPromise == Init => Promise!Init
<1> SUFFICES ASSUME Init PROVE Promise!Init
  OBVIOUS
<1>1. Subset \subseteq Nat /\ opts.strict \in BOOLEAN
  BY InitInv, ListingTypes DEF IndInv, Subset, OptionRecord
<1>2. done = {} /\ failed = {} /\ result = "none" /\ ~aborted BY DEF Init
<1>3. FailedIndices = {} BY <1>2, FailedEmpty
<1>4. KeptWhole = {} BY <1>2 DEF KeptWhole
<1>5. Outcome = "running" BY <1>2 DEF Outcome
<1>6. QED BY <1>1, <1>2, <1>3, <1>4, <1>5 DEF Promise!Init

\* Who is next, and when nobody is.
LEMMA NextIsIdx ==
  ASSUME IndInv
  PROVE  /\ idx \in Subset => Promise!IsNext(idx)
         /\ idx \notin Index => Promise!Undecided = {}
         /\ idx = 1 => done \cup FailedIndices = {}
<1>1. idx \in Nat /\ Subset \subseteq Nat /\ Subset \subseteq Index /\ Len(entries) \in Nat
  BY ListingTypes DEF IndInv, Subset
<1>2. done \cup FailedIndices = {i \in Subset : i < idx} BY DEF IndInv, ReportInv
<1>3. \A i \in Subset : i \in Nat /\ (i \in done \cup FailedIndices <=> i < idx)
  BY <1>1, <1>2
<1>4. \A i \in Subset : i \in Promise!Undecided <=> idx <= i
  BY <1>1, <1>3 DEF Promise!Undecided
<1>u. Promise!Undecided \subseteq Subset BY DEF Promise!Undecided
<1>5. idx \in Subset => Promise!IsNext(idx) BY <1>1, <1>4, <1>u DEF Promise!IsNext
<1>6. idx \notin Index => Promise!Undecided = {}
  <2>1. idx \in 1 .. Len(entries) + 1 BY DEF IndInv, TypeOK
  <2>2. idx \notin Index => \A i \in Index : ~(idx <= i) BY <1>1, <2>1 DEF Index
  <2>3. QED BY <1>1, <1>4, <1>u, <2>2
<1>7. idx = 1 => done \cup FailedIndices = {}
  <2>1. \A i \in Index : ~(i < 1) BY <1>1 DEF Index
  <2>2. QED BY <1>1, <1>2, <2>1
<1>8. QED BY <1>5, <1>6, <1>7

\* The outcome, case by case.
LEMMA OutcomeIs ==
  ASSUME NEW r, NEW a \in BOOLEAN, NEW o,
         o = CASE r = "err" -> "error"
               [] r # "err" /\ a -> "cancelled"
               [] r = "ok" /\ ~a -> "complete"
               [] OTHER -> "running"
  PROVE  /\ r = "err" => o = "error"
         /\ r \in {"none", "ok"} /\ a => o = "cancelled"
         /\ r = "ok" /\ ~a => o = "complete"
         /\ r = "none" /\ ~a => o = "running"
OBVIOUS

\* How a step changes the outcome.
LEMMA Outcomes ==
  ASSUME TypeOK, TypeOK'
  PROVE  /\ result = "none" /\ ~aborted => Outcome = "running"
         /\ result \in {"none", "ok"} /\ aborted => Outcome = "cancelled"
         /\ result' = "err" => Outcome' = "error"
         /\ result' \in {"none", "ok"} /\ aborted' => Outcome' = "cancelled"
         /\ result' = "ok" /\ ~aborted' => Outcome' = "complete"
         /\ result' = "none" /\ ~aborted' => Outcome' = "running"
         /\ result' = result /\ aborted' = aborted => Outcome' = Outcome
<1>1. aborted \in BOOLEAN /\ aborted' \in BOOLEAN BY DEF TypeOK
<1>2. /\ result = "none" /\ ~aborted => Outcome = "running"
      /\ result \in {"none", "ok"} /\ aborted => Outcome = "cancelled"
  BY <1>1, OutcomeIs DEF Outcome
<1>3. /\ result' = "err" => Outcome' = "error"
      /\ result' \in {"none", "ok"} /\ aborted' => Outcome' = "cancelled"
      /\ result' = "ok" /\ ~aborted' => Outcome' = "complete"
      /\ result' = "none" /\ ~aborted' => Outcome' = "running"
  BY <1>1, OutcomeIs DEF Outcome
<1>4. result' = result /\ aborted' = aborted => Outcome' = Outcome BY DEF Outcome
<1>5. QED BY <1>2, <1>3, <1>4

\* A step on an entry is a step of the promise or none.
LEMMA EntryKeepsPromise ==
  ASSUME IndInv, IndInv', KeptWhole = done, KeptWhole' = done', OneEntry
  PROVE  Promise!Next \/ UNCHANGED Promise!vars
<1>1. EntryStep BY EntrySteps
<1>2. Busy /\ job' = job BY <1>1 DEF EntryStep
<1>3. Subset' = Subset /\ opts' = opts BY <1>2, SameJob
<1>4. idx \in Subset /\ Promise!IsNext(idx)
  BY <1>2, NextIsIdx DEF IndInv, LoopInv, Subset
<1>5. result = "none" /\ ~aborted /\ Outcome = "running"
  <2>1. result = "none" /\ ~aborted
    BY <1>2 DEF IndInv, LoopInv, Busy, TypeOK
  <2>2. QED BY <2>1, Outcomes DEF IndInv
<1>6. TypeOK /\ TypeOK' BY DEF IndInv
<1>7. CASE Succeed
  <2>1. done' = done \cup {idx} /\ failed' = failed /\ result' = result /\ aborted' = aborted
    BY <1>7 DEF Succeed
  <2>2. FailedIndices' = FailedIndices BY <2>1, FailedSame
  <2>3. Outcome' = Outcome BY <1>6, <2>1, Outcomes
  <2>4. Promise!Keep(idx) BY <1>3, <1>4, <2>1, <2>2, <2>3 DEF Promise!Keep
  <2>5. QED BY <1>4, <1>5, <2>4 DEF Promise!Next
<1>8. ASSUME NEW why \in Reasons, Fail(why) PROVE Promise!Next
  <2>1. CASE opts.strict
    <3>1. result' = "err" /\ done' = done /\ failed' = failed
      BY <1>8, <2>1 DEF Fail, Return
    <3>2. FailedIndices' = FailedIndices BY <3>1, FailedSame
    <3>3. Outcome' = "error" BY <1>6, <3>1, Outcomes
    <3>4. Promise!Finish BY <1>3, <2>1, <3>1, <3>2, <3>3 DEF Promise!Finish, Promise!Refuse
    <3>5. QED BY <1>5, <3>4 DEF Promise!Next
  <2>2. CASE ~opts.strict
    <3>1. /\ done' = done /\ result' = result /\ aborted' = aborted
          /\ failed' = failed \cup {[index |-> idx, why |-> why]}
      BY <1>8, <2>2 DEF Fail
    <3>2. FailedIndices' = FailedIndices \cup {idx} BY <3>1, FailedGrows
    <3>3. Outcome' = Outcome BY <1>6, <3>1, Outcomes
    <3>4. Promise!Report(idx) BY <1>3, <1>4, <2>2, <3>1, <3>2, <3>3 DEF Promise!Report
    <3>5. QED BY <1>4, <1>5, <3>4 DEF Promise!Next
  <2>3. QED BY <2>1, <2>2
<1>9. CASE Proceed \/ (Chunk /\ aborted' = aborted)
  <2>1. done' = done /\ failed' = failed /\ result' = result /\ aborted' = aborted
    BY <1>9 DEF Proceed, Chunk, Abort
  <2>2. FailedIndices' = FailedIndices BY <2>1, FailedSame
  <2>3. Outcome' = Outcome BY <1>6, <2>1, Outcomes
  <2>4. QED BY <1>3, <2>1, <2>2, <2>3 DEF Promise!vars
<1>10. CASE Chunk /\ aborted' # aborted
  <2>1. done' = done /\ failed' = failed /\ result' = result /\ aborted'
    BY <1>10 DEF Chunk, Abort
  <2>2. FailedIndices' = FailedIndices BY <2>1, FailedSame
  <2>3. Outcome' = "cancelled" BY <1>5, <1>6, <2>1, Outcomes
  <2>4. Promise!Finish BY <1>3, <2>1, <2>2, <2>3 DEF Promise!Finish, Promise!Cancel
  <2>5. QED BY <1>5, <2>4 DEF Promise!Next
<1>11. QED BY <1>1, <1>7, <1>8, <1>9, <1>10 DEF EntryStep

\* So are the steps before, between and after the entries.
LEMMA FrameKeepsPromise ==
  ASSUME IndInv, IndInv', KeptWhole = done, KeptWhole' = done',
         VerifyPassword \/ MakeWrapper \/ SkipEntry \/ StartEntry \/ EndLoop \/ ApplyDirTime
  PROVE  Promise!Next \/ UNCHANGED Promise!vars
<1>1. /\ job' = job /\ done' = done /\ failed' = failed
  BY DEF VerifyPassword, MakeWrapper, SkipEntry, StartEntry, EndLoop, ApplyDirTime, Abort
<1>2. Subset' = Subset /\ opts' = opts /\ FailedIndices' = FailedIndices
  BY <1>1, SameJob, FailedSame
<1>3. TypeOK /\ TypeOK' BY DEF IndInv
<1>4. CASE result' = result /\ aborted' = aborted
  <2>1. Outcome' = Outcome BY <1>3, <1>4, Outcomes
  <2>2. QED BY <1>1, <1>2, <2>1 DEF Promise!vars
<1>5. CASE (VerifyPassword \/ MakeWrapper) /\ result' # result
  <2>1. pc \in {"preflight", "wrap"} /\ result' = "err"
    BY <1>5 DEF VerifyPassword, MakeWrapper, Return
  <2>2. idx = 1 /\ result = "none" /\ ~aborted
    BY <2>1 DEF IndInv, EventInv, LoopInv, TypeOK
  <2>3. done \cup FailedIndices = {} BY <2>2, NextIsIdx
  <2>4. Outcome = "running" /\ Outcome' = "error" BY <1>3, <2>1, <2>2, Outcomes
  <2>5. Promise!Finish BY <1>1, <1>2, <2>3, <2>4 DEF Promise!Finish, Promise!Refuse
  <2>6. QED BY <2>4, <2>5 DEF Promise!Next
<1>6. CASE StartEntry /\ aborted' # aborted
  <2>1. pc = "entry" /\ aborted' /\ result' = result
    BY <1>6 DEF StartEntry, Abort
  <2>2. result = "none" /\ ~aborted
    BY <2>1 DEF IndInv, LoopInv, TypeOK
  <2>3. Outcome = "running" /\ Outcome' = "cancelled" BY <1>3, <2>1, <2>2, Outcomes
  <2>4. Promise!Finish BY <1>1, <1>2, <2>3 DEF Promise!Finish, Promise!Cancel
  <2>5. QED BY <2>3, <2>4 DEF Promise!Next
<1>7. CASE ApplyDirTime /\ result' # result
  <2>1. pc = "stamp" /\ result' = "ok" /\ aborted' = aborted
    BY <1>7 DEF ApplyDirTime, Return
  <2>2. result = "none" BY <2>1 DEF IndInv, LoopInv, TypeOK
  <2>3. CASE aborted
    <3>1. Outcome = "cancelled" /\ Outcome' = "cancelled"
      BY <1>3, <2>1, <2>2, <2>3, Outcomes
    <3>2. QED BY <1>1, <1>2, <3>1 DEF Promise!vars
  <2>4. CASE ~aborted
    <3>1. Outcome = "running" /\ Outcome' = "complete"
      BY <1>3, <2>1, <2>2, <2>4, Outcomes
    <3>2. idx \notin Index BY <2>1, <2>4 DEF IndInv, LoopInv
    <3>3. Promise!Undecided = {} BY <3>2, NextIsIdx
    <3>4. Promise!Finish BY <1>1, <1>2, <3>1, <3>3 DEF Promise!Finish, Promise!Complete
    <3>5. QED BY <3>1, <3>4 DEF Promise!Next
  <2>5. QED BY <2>3, <2>4
<1>8. \/ result' = result /\ aborted' = aborted
      \/ (VerifyPassword \/ MakeWrapper) /\ result' # result
      \/ StartEntry /\ aborted' # aborted
      \/ ApplyDirTime /\ result' # result
  BY DEF VerifyPassword, MakeWrapper, SkipEntry, StartEntry, EndLoop, ApplyDirTime, Abort
<1>9. QED BY <1>4, <1>5, <1>6, <1>7, <1>8

\* extract_all implements its promise, but for the fairness: every call decides its
\* entries in order, each kept or reported in one step, and an error ends it only
\* when it may.
THEOREM PromiseIsKept == Spec => Promise!Safe
<1>1. Init => Promise!Init BY InitPromise
<1>2. IndInv /\ IndInv' /\ CleanStands /\ CleanStands' /\ [Next]_vars
      => [Promise!Next]_(Promise!vars)
  <2> SUFFICES ASSUME IndInv, IndInv', CleanStands, CleanStands', [Next]_vars
               PROVE  Promise!Next \/ UNCHANGED Promise!vars
    OBVIOUS
  <2>1. KeptWhole = done BY KeptIsDone
  <2>2. KeptWhole' = done' BY DEF CleanStands, KeptWhole, Peaceful
  <2>3. CASE OneEntry BY <2>1, <2>2, <2>3, EntryKeepsPromise
  <2>4. CASE VerifyPassword \/ MakeWrapper \/ SkipEntry \/ StartEntry \/ EndLoop \/ ApplyDirTime
    BY <2>1, <2>2, <2>4, FrameKeepsPromise
  <2>5. CASE UNCHANGED vars
    <3>1. /\ job' = job /\ done' = done /\ failed' = failed /\ result' = result
          /\ aborted' = aborted
      BY <2>5 DEF vars
    <3>2. Subset' = Subset /\ opts' = opts /\ FailedIndices' = FailedIndices
      BY <3>1, SameJob, FailedSame
    <3>3. Outcome' = Outcome BY <3>1 DEF Outcome
    <3>4. QED BY <2>1, <2>2, <3>1, <3>2, <3>3 DEF Promise!vars
  <2>6. QED BY <2>3, <2>4, <2>5 DEF Next, OneEntry
<1>3. QED BY <1>1, <1>2, Inductive, PeacefulInductive, PTL DEF Spec, Promise!Safe

----------------------------------------------------------------------------
(***************************************************************************)
(* Times.                                                                  *)
(***************************************************************************)

\* Outside S no file's time is another.
StampKept(t, u, S) ==
  \A p \in Path : p \notin S /\ u[p].kind = "file" => u[p].stamp = t[p].stamp

\* A time set in one place is set in no other.
LEMMA TouchStamps ==
  ASSUME NEW t \in Tree, NEW r, NEW i, NEW u, u = [t EXCEPT ![r].stamp = i]
  PROVE  /\ \A p \in Path : p # r => u[p] = t[p]
         /\ r \in Path => u[r].kind = t[r].kind /\ u[r].stamp = i
<1>1. r \in Path => u[r] = [t[r] EXCEPT !.stamp = i] /\ t[r] \in Node
  BY DEF Tree
<1>2. QED BY <1>1 DEF Tree, Node

\* create_dir_all changes the time of directories only.
LEMMA MakeDirsStamps ==
  ASSUME NEW t \in Tree, NEW p \in Path, CanMakeDirs(t, p), NEW u, u = MakeDirs(t, p)
  PROVE  StampKept(t, u, {})
<1>1. CASE t[Resolve(t, p)].kind = "dir"
  BY <1>1 DEF MakeDirs, StampKept
<1>2. CASE t[Resolve(t, p)].kind # "dir"
  <2> DEFINE M == MissingOn(t, p)
             W == {Parent(r) : r \in M} \ M
  <2>1. u = [q \in DOMAIN t |-> CASE q \in M -> EmptyDir
                                  [] q \in W -> [t[q] EXCEPT !.stamp = 0]
                                  [] OTHER -> t[q]]
    BY <1>2 DEF MakeDirs
  <2>2. \A q \in WithAncestors(p) : t[q].kind \in {"none", "dir"}
    BY <1>2 DEF CanMakeDirs
  <2>3. \A q \in M : Parent(q) \in WithAncestors(p) /\ q \in WithAncestors(p)
    BY AncestorProperties DEF MissingOn
  <2>4. \A q \in W : t[q].kind = "dir"
    BY <2>2, <2>3 DEF MissingOn
  <2>5. EmptyDir.kind = "dir" BY DEF EmptyDir, Absent
  <2> SUFFICES ASSUME NEW q \in Path, u[q].kind = "file"
               PROVE  u[q].stamp = t[q].stamp
    BY DEF StampKept
  <2>6. DOMAIN t = Path /\ t[q] \in Node BY DEF Tree
  <2>v. u[q] = CASE q \in M -> EmptyDir
                [] q \in W -> [t[q] EXCEPT !.stamp = 0]
                [] OTHER -> t[q]
    BY <2>1, <2>6
  <2> HIDE DEF M, W
  <2>7. CASE q \in M
    <3>1. q \notin W BY <2>7 DEF W
    <3>2. u[q] = EmptyDir BY <2>v, <2>7, <3>1
    <3>3. QED BY <2>5, <3>2
  <2>8. CASE q \in W /\ q \notin M
    <3>1. u[q] = [t[q] EXCEPT !.stamp = 0] BY <2>v, <2>8
    <3>2. u[q].kind = "dir" BY <2>4, <2>6, <2>8, <3>1 DEF Node
    <3>3. QED BY <3>2
  <2>9. CASE q \notin M /\ q \notin W BY <2>v, <2>9
  <2>10. QED BY <2>7, <2>8, <2>9
<1>3. QED BY <1>1, <1>2

\* File::create changes the time of its place, and of the directory it adds to.
LEMMA CreateStamps ==
  ASSUME NEW t \in Tree, NEW p \in Path, NEW i \in Nat, CanCreate(t, p),
         NEW u, u = Create(t, p, i), NEW r, r = Resolve(t, p)
  PROVE  StampKept(t, u, {r})
<1>1. r \in Path BY ResolveInPath
<1>2. CASE t[r].kind = "file"
  <2>1. u = [t EXCEPT ![r].src = i, ![r].full = FALSE, ![r].stamp = 0]
    BY <1>2 DEF Create
  <2>2. \A q \in Path : q # r => u[q] = t[q] BY <1>1, <2>1 DEF Tree
  <2>3. QED BY <2>2 DEF StampKept
<1>3. CASE t[r].kind # "file"
  <2> DEFINE v == Touch(t, Parent(r))
             n == [Absent EXCEPT !.kind = "file", !.src = i, !.full = FALSE]
  <2>1. u = [v EXCEPT ![r] = n] BY <1>3 DEF Create
  <2>2. t[Parent(r)].kind = "dir" BY <1>3 DEF CanCreate
  <2>3. v = [t EXCEPT ![Parent(r)].stamp = 0] BY DEF Touch
  <2>4. /\ \A q \in Path : q # Parent(r) => v[q] = t[q]
        /\ Parent(r) \in Path => v[Parent(r)].kind = "dir"
    BY <2>2, <2>3, TouchStamps
  <2> HIDE DEF n, v
  <2>5. \A q \in Path : q # r => u[q] = v[q] BY <1>1, <2>1, <2>3 DEF Tree
  <2>6. QED BY <2>4, <2>5 DEF StampKept
<1>4. QED BY <1>2, <1>3

\* remove_file too, and what is gone has no time.
LEMMA RemoveStamps ==
  ASSUME NEW t \in Tree, NEW p \in Path, ShapeOf(t), NEW u, u = RemoveFile(t, p)
  PROVE  StampKept(t, u, {})
<1>1. CASE u = t BY <1>1 DEF StampKept
<1>2. CASE u # t
  <2> DEFINE v == Touch(t, Parent(p))
  <2>1. u = [v EXCEPT ![p] = Absent] /\ p # <<>> /\ t[p].kind # "none"
    BY <1>2 DEF RemoveFile
  <2>2. t[Parent(p)].kind = "dir" BY <2>1 DEF ShapeOf
  <2>3. v = [t EXCEPT ![Parent(p)].stamp = 0] BY DEF Touch
  <2>4. /\ \A q \in Path : q # Parent(p) => v[q] = t[q]
        /\ Parent(p) \in Path => v[Parent(p)].kind = "dir"
    BY <2>2, <2>3, TouchStamps
  <2> HIDE DEF v
  <2>5. u[p] = Absent /\ \A q \in Path : q # p => u[q] = v[q]
    BY <2>1, <2>3 DEF Tree
  <2>6. Absent.kind = "none" BY DEF Absent
  <2>7. QED BY <2>4, <2>5, <2>6 DEF StampKept
<1>3. QED BY <1>1, <1>2

\* A link added is no file.
LEMMA LinkStamps ==
  ASSUME NEW t \in Tree, NEW p \in Path, NEW i \in Nat, NEW to, CanLink(t, p),
         NEW u, u = Link(t, p, i, to)
  PROVE  StampKept(t, u, {}) /\ u[p].kind = "link"
<1> DEFINE v == Touch(t, Parent(p))
           n == [Absent EXCEPT !.kind = "link", !.src = i, !.to = to]
<1>1. u = [v EXCEPT ![p] = n] BY DEF Link
<1>2. t[Parent(p)].kind = "dir" BY DEF CanLink
<1>3. v = [t EXCEPT ![Parent(p)].stamp = 0] BY DEF Touch
<1>4. /\ \A q \in Path : q # Parent(p) => v[q] = t[q]
      /\ Parent(p) \in Path => v[Parent(p)].kind = "dir"
  BY <1>2, <1>3, TouchStamps
<1>5. n.kind = "link" BY DEF Absent
<1> HIDE DEF n, v
<1>6. u[p] = n /\ \A q \in Path : q # p => u[q] = v[q] BY <1>1, <1>3 DEF Tree
<1>7. QED BY <1>4, <1>5, <1>6 DEF StampKept

\* A mode set changes no time.
LEMMA ModeStamps ==
  ASSUME NEW t \in Tree, NEW p \in Path, NEW m, NEW u, u = SetMode(t, p, m)
  PROVE  \A q \in Path : u[q].stamp = t[q].stamp /\ u[q].kind = t[q].kind
<1> DEFINE r == Resolve(t, p)
<1>1. u = t \/ u = [t EXCEPT ![r].writable = (m = "rw")]
  BY DEF SetMode, SetWritable
<1>2. r \in Path BY ResolveInPath
<1> HIDE DEF r
<1>3. CASE u = [t EXCEPT ![r].writable = (m = "rw")]
  <2>1. u[r] = [t[r] EXCEPT !.writable = (m = "rw")] /\ t[r] \in Node
    BY <1>2, <1>3 DEF Tree
  <2>2. u[r].stamp = t[r].stamp /\ u[r].kind = t[r].kind BY <2>1 DEF Node
  <2>3. QED BY <1>3, <2>2 DEF Tree
<1>4. QED BY <1>1, <1>3

\* A time set is the entry's, where the path leads.
LEMMA TimeStamps ==
  ASSUME NEW t \in Tree, NEW p \in Path, NEW i \in Nat, NEW u, u = SetTime(t, p, i),
         NEW r, r = Resolve(t, p)
  PROVE  /\ \A q \in Path : q # r => u[q].stamp = t[q].stamp
         /\ \A q \in Path : u[q].kind = t[q].kind
         /\ opts.preserve /\ entries[i].dated /\ t[r].kind # "none" => u[r].stamp = i
<1>1. r \in Path BY ResolveInPath
<1>2. u = t \/ u = [t EXCEPT ![r].stamp = i] BY DEF SetTime, SetStamp
<1>3. opts.preserve /\ entries[i].dated /\ t[r].kind # "none" => u = [t EXCEPT ![r].stamp = i]
  BY DEF SetTime, SetStamp, Exists
<1>4. CASE u = [t EXCEPT ![r].stamp = i]
  <2>1. u[r] = [t[r] EXCEPT !.stamp = i] /\ t[r] \in Node BY <1>1, <1>4 DEF Tree
  <2>2. u[r].stamp = i /\ u[r].kind = t[r].kind BY <2>1 DEF Node
  <2>3. \A q \in Path : q # r => u[q] = t[q] BY <1>4 DEF Tree
  <2>4. QED BY <2>2, <2>3
<1>5. CASE u # [t EXCEPT ![r].stamp = i]
  <2>1. u = t BY <1>2, <1>5
  <2>2. ~(opts.preserve /\ entries[i].dated /\ t[r].kind # "none") BY <1>3, <1>5
  <2>3. QED BY <2>1, <2>2
<1>6. QED BY <1>4, <1>5

\* A file where the step on entry idx was: not whole, no entry's, or the time set.
Stamped(n) ==
  \/ ~n.full \/ ~n.forkFull
  \/ n.src = 0 /\ n.fork = 0
  \/ idx \in done' /\ ~IsLink(idx) /\ (opts.preserve /\ entry.dated => n.stamp = idx)

\* What a step does to the times: directories stay, links stay but to what is not
\* whole, and a file keeps its time unless it is the entry's.
Timed ==
  /\ \A p \in Path : fs[p].kind = "dir" => fs'[p].kind = "dir"
  /\ \A p \in Path : fs[p].kind = "link" =>
       \/ Alike(fs[p], fs'[p])
       \/ LET n == fs[fs[p].to] IN n.kind = "file" /\ ~n.full
  /\ \A p \in Path : fs'[p].kind = "file" =>
       \/ Alike(fs[p], fs'[p]) /\ fs'[p].stamp = fs[p].stamp
       \/ p = Resolve(fs', Own(idx)) /\ Stamped(fs'[p])

\* A step that writes over nothing, and no file's time.
LEMMA TimedQuiet ==
  ASSUME NEW A, NEW L, Moves(fs, fs', A, {}, L), StampKept(fs, fs', {})
  PROVE  Timed
<1>1. \A p \in Path : /\ fs[p].kind # "none" => Alike(fs[p], fs'[p])
                      /\ fs'[p].kind = "file" => Alike(fs[p], fs'[p])
                      /\ Alike(fs[p], fs'[p]) => fs'[p].kind = fs[p].kind
  BY NothingWritten
<1>2. \A p \in Path : fs'[p].kind = "file" => fs'[p].stamp = fs[p].stamp
  BY DEF StampKept
<1>3. \A p \in Path : fs[p].kind = "dir" => fs'[p].kind = "dir" BY <1>1
<1>4. QED BY <1>1, <1>2, <1>3 DEF Timed

\* A step on one place, once directories are made.
LEMMA TimedAt ==
  ASSUME NEW t, NEW A, NEW L, Moves(fs, t, A, {}, L), StampKept(fs, t, {}),
         NEW r, \A q \in Path : q # r => Alike(t[q], fs'[q]),
         StampKept(t, fs', {r}), t[r].kind \notin {"dir", "link"},
         fs'[r].kind = "file" => r = Resolve(fs', Own(idx)) /\ Stamped(fs'[r])
  PROVE  Timed
<1>1. \A p \in Path : /\ fs[p].kind # "none" => Alike(fs[p], t[p])
                      /\ t[p].kind = "file" => Alike(fs[p], t[p])
                      /\ Alike(fs[p], t[p]) => t[p].kind = fs[p].kind
  BY NothingWritten
<1>2. \A p \in Path : t[p].kind = "file" => t[p].stamp = fs[p].stamp
  BY DEF StampKept
<1>3. \A p \in Path : p # r /\ fs'[p].kind = "file" => fs'[p].stamp = t[p].stamp
  BY DEF StampKept
<1>4. \A p \in Path : p # r => fs'[p].kind = t[p].kind BY DEF Alike
<1>5. \A p \in Path : fs[p].kind = "dir" => fs'[p].kind = "dir"
  BY <1>1, <1>4
<1>6. \A p \in Path : fs[p].kind = "link" => Alike(fs[p], fs'[p])
  BY <1>1, <1>4 DEF Alike
<1>7. ASSUME NEW p \in Path, fs'[p].kind = "file", p # r
      PROVE  Alike(fs[p], fs'[p]) /\ fs'[p].stamp = fs[p].stamp
  <2>1. t[p].kind = "file" /\ Alike(t[p], fs'[p]) BY <1>4, <1>7
  <2>2. Alike(fs[p], t[p]) /\ t[p].stamp = fs[p].stamp BY <1>1, <1>2, <2>1
  <2>3. fs'[p].stamp = t[p].stamp BY <1>3, <1>7
  <2>4. QED BY <2>1, <2>2, <2>3 DEF Alike
<1>8. QED BY <1>5, <1>6, <1>7 DEF Timed

\* The directory of the place, made.
LEMMA ParentStamps ==
  ASSUME IndInv, DiskInv, EntryStep, ~Escapes(entry.path), ~ParentFails
  PROVE  StampKept(fs, WithParent, {})
<1>1. fs \in Tree /\ Parent(Place) \in Path BY EntryContext
<1>2. QED BY <1>1, MakeDirsStamps DEF ParentFails, WithParent

\* A step that leaves the tree.
LEMMA StillTimed ==
  ASSUME fs \in Tree, fs' = fs
  PROVE  Timed
<1>1. 0 \in Nat OBVIOUS
<1>2. Moves(fs, fs, {}, {}, {}) BY <1>1, TouchMoves
<1>3. StampKept(fs, fs', {}) BY DEF StampKept
<1>4. QED BY <1>2, <1>3, TimedQuiet

\* The directory alone is made.
LEMMA ParentOnlyTimed ==
  ASSUME IndInv, DiskInv, EntryStep, ~Escapes(entry.path), ~ParentFails, fs' = WithParent
  PROVE  Timed
<1>1. Moves(fs, WithParent, Around(idx), {}, {}) BY ParentMade
<1>2. StampKept(fs, WithParent, {}) BY ParentStamps
<1>3. QED BY <1>1, <1>2, TimedQuiet

\* MakeDir keeps to it.
LEMMA MakeDirTimed == ASSUME IndInv, DiskInv, MakeDir PROVE Timed
<1>1. EntryStep BY EntrySteps DEF OneEntry
<1>2. ~Escapes(entry.path) /\ ~entry.fork /\ entry.kind = "dir" BY DEF MakeDir, Working
<1>3. /\ fs \in Tree /\ Place \in Path /\ idx \in Nat /\ entry \in EntryRecord
  BY <1>1, <1>2, EntryContext
<1>4. CASE CanMakeDirs(fs, Place)
  <2> DEFINE t == MakeDirs(fs, Place)
             u == SetMode(t, Place, entry.mode)
             M == IF entry.mode = "ro" THEN {Resolve(t, Place)} ELSE {}
  <2>1. fs' = u BY <1>4 DEF MakeDir
  <2>2. t \in Tree BY <1>3, CallsKeepTrees
  <2>3. Moves(fs, t, WithAncestors(Place), {}, {}) /\ StampKept(fs, t, {})
    BY <1>3, <1>4, MakeDirsMoves, MakeDirsStamps
  <2>4. entry.mode # "none" => entry.mode \in {"rw", "ro"}
    BY <1>3 DEF EntryRecord, Modes
  <2>5. Moves(t, u, {}, {}, M) BY <1>3, <2>2, <2>4, MetadataMoves
  <2>6. \A q \in Path : u[q].stamp = t[q].stamp /\ u[q].kind = t[q].kind
    BY <1>3, <2>2, ModeStamps
  <2> HIDE DEF t, u, M
  <2>7. StampKept(fs, u, {}) BY <2>3, <2>6 DEF StampKept
  <2>8. Moves(fs, u, WithAncestors(Place), {}, M)
    <3>1. Moves(fs, t, WithAncestors(Place), {}, M) BY <2>3, MovesInto
    <3>2. Moves(t, u, WithAncestors(Place), {}, M) BY <2>5, MovesInto
    <3>3. QED BY <3>1, <3>2, MovesTransitive
  <2>9. QED BY <2>1, <2>7, <2>8, TimedQuiet
<1>5. CASE ~CanMakeDirs(fs, Place) BY <1>3, <1>5, StillTimed DEF MakeDir
<1>6. QED BY <1>4, <1>5

\* MakeLink keeps to it.
LEMMA MakeLinkTimed == ASSUME IndInv, DiskInv, MakeLink PROVE Timed
<1>1. EntryStep BY EntrySteps DEF OneEntry
<1>2. ~Escapes(entry.path) /\ ~entry.fork /\ entry.kind = "link" BY DEF MakeLink, Working
<1>3. fs \in Tree /\ Place \in Path /\ idx \in Nat /\ idx \in Index /\ entry \in EntryRecord
  BY <1>1, <1>2, EntryContext
<1>4. CASE fs' = fs BY <1>3, <1>4, StillTimed
<1>5. CASE fs' = WithParent /\ ~ParentFails BY <1>1, <1>2, <1>5, ParentOnlyTimed
<1>6. CASE /\ ~ParentFails /\ entry.to # Outside /\ CanLink(WithParent, Place)
           /\ fs' = LET t == Link(WithParent, Place, idx, Dest \o entry.to)
                    IN IF opts.preserve /\ entry.dated
                       THEN [t EXCEPT ![Place].stamp = idx] ELSE t
  <2> DEFINE t == WithParent
             to == Dest \o entry.to
             u == Link(t, Place, idx, to)
  <2>1. t \in Tree /\ Moves(fs, t, Around(idx), {}, {}) /\ StampKept(fs, t, {})
    BY <1>1, <1>2, <1>6, ParentMade, ParentStamps
  <2>2. to \in LinkedFrom(Place)
    BY <1>2, <1>3, <1>6 DEF LinkedFrom, Place, entry
  <2>3. to \in Path
    <3>1. TypeOK BY DEF IndInv
    <3>2. QED BY <1>3, <2>2, <3>1, LinkedPlaces
  <2>4. t[Place].kind = "none" BY <1>6 DEF CanLink
  <2>5. \A q \in Path \ {Place} : Alike(t[q], u[q])
    <3> HIDE DEF t, to
    <3>1. QED BY <1>3, <2>1, <2>2, <2>4, LinkMoves DEF u
  <2>6. StampKept(t, u, {}) /\ u[Place].kind = "link"
    BY <1>3, <1>6, <2>1, LinkStamps
  <2>7. u \in Tree BY <1>3, <2>1, <2>3, CallsKeepTrees
  <2>8. fs' = u \/ fs' = [u EXCEPT ![Place].stamp = idx] BY <1>6
  <2> HIDE DEF u, to, t
  <2>9. fs'[Place].kind = "link" /\ \A q \in Path : q # Place => fs'[q] = u[q]
    <3>1. CASE fs' = u BY <2>6, <3>1
    <3>2. CASE fs' = [u EXCEPT ![Place].stamp = idx]
      <4>1. u[Place] \in Node BY <1>3, <2>7 DEF Tree
      <4>2. fs'[Place] = [u[Place] EXCEPT !.stamp = idx] BY <1>3, <2>7, <3>2 DEF Tree
      <4>3. fs'[Place].kind = "link" BY <2>6, <4>1, <4>2 DEF Node
      <4>4. QED BY <2>7, <3>2, <4>3 DEF Tree
    <3>3. QED BY <2>8, <3>1, <3>2
  <2>10. StampKept(t, fs', {Place}) BY <2>6, <2>9 DEF StampKept
  <2>11. \A q \in Path : q # Place => Alike(t[q], fs'[q]) BY <2>5, <2>9
  <2>12. QED BY <2>1, <2>4, <2>9, <2>10, <2>11, TimedAt
<1>7. QED BY <1>4, <1>5, <1>6 DEF MakeLink

\* CreateFile keeps to it.
LEMMA CreateFileTimed == ASSUME IndInv, DiskInv, CreateFile PROVE Timed
<1>1. EntryStep BY EntrySteps DEF OneEntry
<1>2. ~Escapes(entry.path) /\ ~entry.fork BY DEF CreateFile, Working
<1>3. fs \in Tree /\ Place \in Path /\ idx \in Nat /\ Resolve(fs, Place) \in Path
  BY <1>1, <1>2, EntryContext
<1>own. Own(idx) = Place BY <1>1, <1>2, EntryContext
<1>4. CASE fs' = fs BY <1>3, <1>4, StillTimed
<1>5. CASE fs' = WithParent /\ ~ParentFails BY <1>1, <1>2, <1>5, ParentOnlyTimed
<1>6. CASE /\ ~ParentFails /\ CanCreate(WithParent, Place)
           /\ fs' = Create(WithParent, Place, idx)
           /\ UNCHANGED <<idx, done, failed, aborted, event, result>>
           /\ job' = job
  <2> DEFINE t == WithParent
             r == Resolve(fs, Place)
  <2>1. /\ t \in Tree /\ ShapeOf(t) /\ Moves(fs, t, Around(idx), {}, {})
        /\ Resolve(t, Place) = r /\ StampKept(fs, t, {})
    BY <1>1, <1>2, <1>6, ParentMade, ParentStamps
  <2>c. fs' = Create(t, Place, idx) /\ CanCreate(t, Place) BY <1>6
  <2>r. r \in Path BY <1>3
  <2> HIDE DEF t, r
  <2>2. ~fs'[r].full /\ \A q \in Path \ {r} : Alike(t[q], fs'[q])
    BY <1>3, <2>1, <2>c, CreateMoves
  <2>3. t[r].kind \in {"none", "file"} /\ Resolve(fs', Place) = r
    BY <1>3, <2>1, <2>c, CreateShape
  <2>4. StampKept(t, fs', {r})
    <3>1. r = Resolve(t, Place) BY <2>1
    <3>2. QED BY <1>3, <2>1, <2>c, <3>1, CreateStamps
  <2>5. Stamped(fs'[r]) BY <2>2 DEF Stamped
  <2>6. r = Resolve(fs', Own(idx)) BY <1>own, <2>3
  <2>7. QED BY <2>1, <2>2, <2>3, <2>4, <2>5, <2>6, TimedAt
<1>7. QED BY <1>4, <1>5, <1>6 DEF CreateFile

\* Mode and time, set last: the time of the place only.
LEMMA DressedStamps ==
  ASSUME NEW t \in Tree, NEW p \in Path, NEW i \in Nat, NEW m, m # "none" => m \in {"rw", "ro"},
         NEW u, u = SetTime(SetMode(t, p, m), p, i), NEW r, r = Resolve(t, p)
  PROVE  /\ \A q \in Path : q # r => u[q].stamp = t[q].stamp
         /\ opts.preserve /\ entries[i].dated /\ t[r].kind # "none" => u[r].stamp = i
<1> DEFINE w == SetMode(t, p, m)
           L == IF m = "ro" THEN {Resolve(t, p)} ELSE {}
<1>1. w \in Tree BY MetadataKeepsTrees
<1>2. Moves(t, w, {}, {}, L) BY MetadataMoves
<1>3. \A q \in Path : w[q].stamp = t[q].stamp /\ w[q].kind = t[q].kind BY ModeStamps
<1>4. u = SetTime(w, p, i) OBVIOUS
<1> HIDE DEF w, L
<1>5. Resolve(w, p) = r BY <1>2, SameWay
<1>6. /\ \A q \in Path : q # r => u[q].stamp = w[q].stamp
      /\ opts.preserve /\ entries[i].dated /\ w[r].kind # "none" => u[r].stamp = i
  BY <1>1, <1>4, <1>5, TimeStamps
<1>7. r \in Path BY ResolveInPath
<1>8. QED BY <1>3, <1>6, <1>7

\* Mode and time together: no name moves, and only the place's own time.
LEMMA DressedTimes ==
  ASSUME NEW t \in Tree, NEW p \in Path, NEW i \in Nat, NEW m, m # "none" => m \in {"rw", "ro"},
         NEW u, u = SetTime(SetMode(t, p, m), p, i), NEW r, r = Resolve(t, p)
  PROVE  /\ \A q \in Path : Alike(t[q], u[q])
         /\ Resolve(u, p) = r
         /\ \A q \in Path : q # r => u[q].stamp = t[q].stamp
         /\ opts.preserve /\ entries[i].dated /\ t[r].kind # "none" => u[r].stamp = i
<1> DEFINE L == IF m = "ro" THEN {Resolve(t, p)} ELSE {}
<1>1. L = IF m = "ro" THEN {Resolve(t, p)} ELSE {} OBVIOUS
<1> HIDE DEF L
<1>2. (\A q \in Path : Alike(t[q], u[q])) /\ Resolve(u, p) = Resolve(t, p)
  BY <1>1, Dressed
<1>3. /\ \A q \in Path : q # r => u[q].stamp = t[q].stamp
      /\ opts.preserve /\ entries[i].dated /\ t[r].kind # "none" => u[r].stamp = i
  BY DressedStamps
<1>4. QED BY <1>2, <1>3

\* One field of one node leaves all times.
LEMMA FieldStamps ==
  ASSUME NEW t \in Tree, NEW r \in Path, NEW u, u \in {Filled(t, r), ForkFilled(t, r)}
  PROVE  \A q \in Path : u[q].stamp = t[q].stamp
<1>1. t[r] \in Node BY DEF Tree
<1>2. u[r] = [t[r] EXCEPT !.full = TRUE] \/ u[r] = [t[r] EXCEPT !.forkFull = TRUE]
  BY DEF Tree, Filled, ForkFilled
<1>3. u[r].stamp = t[r].stamp BY <1>1, <1>2 DEF Node
<1>4. \A q \in Path : q # r => u[q] = t[q] BY DEF Tree, Filled, ForkFilled
<1>5. QED BY <1>3, <1>4

\* The unfinished file, removed.
LEMMA RemoveTimed ==
  ASSUME IndInv, DiskInv, EntryStep, pc = "reading", fs' = RemoveFile(fs, Place)
  PROVE  Timed
<1>1. ~Escapes(entry.path) /\ ~entry.fork
      /\ LET n == fs[Resolve(fs, Place)] IN n.kind = "file" /\ ~n.full
  BY DEF DiskInv, WorkInv
<1>2. fs \in Tree /\ Place \in Path BY <1>1, EntryContext
<1>3. /\ \A q \in Path \ {Place} : Alike(fs[q], fs'[q])
      /\ fs'[Place] = Absent \/ fs' = fs
      /\ fs[Place].kind \notin {"file", "link"} => fs' = fs
  BY <1>2, RemoveMoves
<1>4. StampKept(fs, fs', {}) BY <1>2, RemoveStamps DEF DiskInv
<1>5. Absent.kind = "none" BY DEF Absent
<1>6. CASE fs' = fs BY <1>2, <1>6, StillTimed
<1>7. CASE fs' # fs
  <2>1. fs'[Place].kind = "none" /\ fs[Place].kind \in {"file", "link"}
    BY <1>3, <1>5, <1>7
  <2>2. \A p \in Path : fs[p].kind = "dir" => fs'[p].kind = "dir"
    BY <1>3, <2>1 DEF Alike
  <2>3. fs[Place].kind = "link" =>
          LET n == fs[fs[Place].to] IN n.kind = "file" /\ ~n.full
    BY <1>1 DEF Resolve
  <2>4. \A p \in Path : fs'[p].kind = "file" =>
          Alike(fs[p], fs'[p]) /\ fs'[p].stamp = fs[p].stamp
    BY <1>3, <1>4, <2>1 DEF StampKept
  <2>5. QED BY <1>3, <2>2, <2>3, <2>4 DEF Timed
<1>8. QED BY <1>6, <1>7

\* WriteChunk keeps to it.
LEMMA WriteChunkTimed == ASSUME IndInv, DiskInv, WriteChunk PROVE Timed
<1>1. EntryStep BY EntrySteps DEF OneEntry
<1>2. pc = "reading" BY DEF WriteChunk
<1>3. ~Escapes(entry.path) /\ ~entry.fork
      /\ LET n == fs[Resolve(fs, Place)] IN n.kind = "file" /\ ~n.full
  BY <1>2 DEF DiskInv, WorkInv
<1>4. /\ fs \in Tree /\ Place \in Path /\ Resolve(fs, Place) \in Path /\ job' = job
  BY <1>1, <1>3, EntryContext
<1>own. Own(idx) = Place BY <1>1, <1>3, EntryContext
<1>5. CASE fs' = RemoveFile(fs, Place) BY <1>1, <1>2, <1>5, RemoveTimed
<1>6. CASE fs' = Touch(fs, Resolve(fs, Place))
  <2> DEFINE r == Resolve(fs, Place)
  <2>1. 0 \in Nat OBVIOUS
  <2>2. Moves(fs, fs', {}, {}, {}) /\ Moves(fs, fs, {}, {}, {})
    BY <1>4, <1>6, <2>1, TouchMoves
  <2>3. \A q \in Path : Alike(fs[q], fs'[q]) BY <2>2 DEF Moves
  <2>4. fs' = [fs EXCEPT ![r].stamp = 0] /\ r \in Path /\ r = Resolve(fs, Place)
        /\ fs[r].kind = "file" /\ ~fs[r].full
    BY <1>3, <1>4, <1>6 DEF Touch
  <2> HIDE DEF r
  <2>5. StampKept(fs, fs, {}) /\ StampKept(fs, fs', {r})
    BY <1>4, <2>4 DEF StampKept, Tree
  <2>6. Stamped(fs'[r]) BY <2>3, <2>4 DEF Stamped, Alike
  <2>7. r = Resolve(fs', Own(idx)) BY <1>4, <1>own, <2>2, <2>4, SameWay
  <2>8. fs[r].kind \notin {"dir", "link"} /\ \A q \in Path : q # r => Alike(fs[q], fs'[q])
    BY <2>3, <2>4
  <2>9. QED BY <2>2, <2>5, <2>6, <2>7, <2>8, TimedAt
<1>7. QED BY <1>5, <1>6 DEF WriteChunk

\* ReadFails keeps to it.
LEMMA ReadFailsTimed == ASSUME IndInv, DiskInv, ReadFails PROVE Timed
<1>1. EntryStep BY EntrySteps DEF OneEntry
<1>2. QED BY <1>1, RemoveTimed DEF ReadFails

\* A place filled or its fork, and then dressed.
LEMMA FilledTimed ==
  ASSUME NEW t \in Tree, Moves(fs, t, {}, {}, {}), StampKept(fs, t, {}),
         NEW p \in Path, Own(idx) = p, NEW r, r = Resolve(t, p), t[r].kind \notin {"dir", "link"},
         NEW w \in Tree, \A q \in Path : q # r => Alike(t[q], w[q]),
         StampKept(t, w, {r}), w[r].kind = "file", Resolve(w, p) = r,
         NEW m, m # "none" => m \in {"rw", "ro"}, idx \in Nat,
         fs' = SetTime(SetMode(w, p, m), p, idx),
         idx \in done', ~IsLink(idx)
  PROVE  Timed
<1> DEFINE u == SetTime(SetMode(w, p, m), p, idx)
<1>s. u = SetTime(SetMode(w, p, m), p, idx) /\ fs' = u /\ r = Resolve(w, p) OBVIOUS
<1> HIDE DEF u
<1>0. /\ \A q \in Path : Alike(w[q], u[q])
      /\ Resolve(u, p) = r
      /\ \A q \in Path : q # r => u[q].stamp = w[q].stamp
      /\ opts.preserve /\ entries[idx].dated /\ w[r].kind # "none" => u[r].stamp = idx
  BY <1>s, DressedTimes
<1>1. (\A q \in Path : Alike(w[q], u[q])) /\ Resolve(u, p) = Resolve(w, p) BY <1>0
<1>2. /\ \A q \in Path : q # r => u[q].stamp = w[q].stamp
      /\ opts.preserve /\ entries[idx].dated /\ w[r].kind # "none" => u[r].stamp = idx
  BY <1>0
<1>3. fs' = u BY <1>s
<1>4. \A q \in Path : q # r => Alike(t[q], u[q]) BY <1>1 DEF Alike
<1>5. \A q \in Path : u[q].kind = w[q].kind BY <1>1 DEF Alike
<1>6. StampKept(t, u, {r})
  <2> SUFFICES ASSUME NEW q \in Path, q # r, u[q].kind = "file" PROVE u[q].stamp = t[q].stamp
    BY DEF StampKept
  <2>1. w[q].kind = "file" BY <1>5
  <2>2. w[q].stamp = t[q].stamp BY <2>1 DEF StampKept
  <2>3. QED BY <1>2, <2>2
<1>7. Stamped(u[r])
  <2>1. entries[idx] = entry BY DEF entry
  <2>2. opts.preserve /\ entry.dated => u[r].stamp = idx BY <1>2, <2>1
  <2>3. QED BY <2>2 DEF Stamped
<1>8. r = Resolve(u, Own(idx)) BY <1>1
<1>9. fs'[r].kind = "file" => r = Resolve(fs', Own(idx)) /\ Stamped(fs'[r])
  BY <1>3, <1>7, <1>8
<1>10. StampKept(t, fs', {r}) /\ \A q \in Path : q # r => Alike(t[q], fs'[q])
  BY <1>3, <1>4, <1>6
<1>11. QED BY <1>9, <1>10, TimedAt

\* ReadDone keeps to it.
LEMMA ReadDoneTimed == ASSUME IndInv, DiskInv, ReadDone PROVE Timed
<1>1. EntryStep BY EntrySteps DEF OneEntry
<1>2. pc = "reading" /\ idx \in done' BY DEF ReadDone, Succeed
<1>3. /\ ~Escapes(entry.path) /\ ~entry.fork /\ entry.kind = "file"
      /\ fs[Resolve(fs, Place)].kind = "file"
  BY <1>2 DEF DiskInv, WorkInv
<1>4. /\ fs \in Tree /\ Place \in Path /\ Resolve(fs, Place) \in Path
      /\ idx \in Nat /\ entry \in EntryRecord
  BY <1>1, <1>3, EntryContext
<1>own. Own(idx) = Place BY <1>1, <1>3, EntryContext
<1> DEFINE r == Resolve(fs, Place)
           w == Filled(fs, r)
<1>5. fs' = SetTime(SetMode(w, Place, entry.mode), Place, idx)
  BY DEF ReadDone, Filled
<1>r. /\ r = Resolve(fs, Place) /\ r \in Path /\ fs[r].kind = "file"
      /\ w = Filled(fs, r)
  BY <1>3, <1>4
<1> HIDE DEF r, w
<1>f. w \in Tree /\ OnlyAt(fs, w, r) /\ w[r].kind = fs[r].kind /\ w[r].to = fs[r].to
  BY <1>4, <1>r, FullNode
<1>g. w \in {Filled(fs, r), ForkFilled(fs, r)} BY <1>r
<1>h. \A q \in Path : w[q].stamp = fs[q].stamp BY <1>4, <1>r, <1>g, FieldStamps
<1>6. /\ w \in Tree /\ OnlyAt(fs, w, r) /\ w[r].kind = "file" /\ w[r].to = fs[r].to
      /\ \A q \in Path : w[q].stamp = fs[q].stamp
  BY <1>r, <1>f, <1>h
<1>7. Resolve(w, Place) = r BY <1>4, <1>6, <1>r DEF Resolve, OnlyAt
<1>8. entry.mode # "none" => entry.mode \in {"rw", "ro"}
  BY <1>4 DEF EntryRecord, Modes
<1>9. ~IsLink(idx) BY <1>3 DEF IsLink, entry
<1>10. Moves(fs, fs, {}, {}, {}) /\ StampKept(fs, fs, {})
  <2>1. 0 \in Nat OBVIOUS
  <2>2. QED BY <1>4, <2>1, TouchMoves DEF StampKept
<1>11. /\ \A q \in Path : q # r => Alike(fs[q], w[q])
       /\ StampKept(fs, w, {r})
  BY <1>6 DEF OnlyAt, Alike, StampKept
<1>12. fs[r].kind \notin {"dir", "link"} BY <1>r
<1>13. QED BY <1>2, <1>4, <1>own, <1>5, <1>6, <1>r, <1>7, <1>8, <1>9, <1>10, <1>11, <1>12,
              FilledTimed

\* MacForkDone keeps to it.
LEMMA MacForkDoneTimed == ASSUME IndInv, DiskInv, MacForkDone PROVE Timed
<1>1. EntryStep BY EntrySteps DEF OneEntry
<1>2. pc = "forking" /\ idx \in done' /\ MacOS BY DEF MacForkDone, Succeed
<1>3. /\ ~Escapes(entry.path) /\ entry.fork
      /\ fs[Resolve(fs, Place)].kind = "file"
  BY <1>2 DEF DiskInv, WorkInv
<1>4. /\ fs \in Tree /\ Place \in Path /\ Resolve(fs, Place) \in Path
      /\ idx \in Nat /\ entry \in EntryRecord
  BY <1>1, <1>3, EntryContext
<1>own. Own(idx) = Place BY <1>1, <1>2, <1>3, EntryContext
<1> DEFINE r == Resolve(fs, Place)
           w == ForkFilled(fs, r)
<1>5. fs' = SetTime(SetMode(w, Place, "none"), Place, idx)
  BY DEF MacForkDone, ForkFilled, SetMode
<1>6. /\ w \in Tree /\ OnlyAt(fs, w, r) /\ w[r].kind = "file" /\ w[r].to = fs[r].to
      /\ \A q \in Path : w[q].stamp = fs[q].stamp
  BY <1>3, <1>4, ForkFullNode, FieldStamps
<1>r. r = Resolve(fs, Place) /\ r \in Path /\ fs[r].kind = "file" BY <1>3, <1>4
<1> HIDE DEF r, w
<1>7. Resolve(w, Place) = r BY <1>4, <1>6, <1>r DEF Resolve, OnlyAt
<1>8. "none" # "none" => "none" \in {"rw", "ro"} OBVIOUS
<1>9. ~IsLink(idx) BY <1>3 DEF IsLink, entry
<1>10. Moves(fs, fs, {}, {}, {}) /\ StampKept(fs, fs, {})
  <2>1. 0 \in Nat OBVIOUS
  <2>2. QED BY <1>4, <2>1, TouchMoves DEF StampKept
<1>11. /\ \A q \in Path : q # r => Alike(fs[q], w[q])
       /\ StampKept(fs, w, {r})
  BY <1>6 DEF OnlyAt, Alike, StampKept
<1>12. fs[r].kind \notin {"dir", "link"} BY <1>r
<1>13. QED BY <1>2, <1>4, <1>own, <1>5, <1>6, <1>r, <1>7, <1>8, <1>9, <1>10, <1>11, <1>12,
              FilledTimed

\* The file a fork is made for: nothing of an entry's, and no other file's time changes.
LEMMA MacBaseStamps ==
  ASSUME NEW t \in Tree, ShapeOf(t), Place \in Path, ~MacBaseFails(t),
         NEW b, b = MacBase(t), NEW r, r = Resolve(t, Place)
  PROVE  StampKept(t, b, {r})
<1>1. CASE Exists(t, Place) BY <1>1 DEF MacBase, StampKept
<1>2. CASE ~Exists(t, Place)
  <2> DEFINE c == Create(t, Place, 0)
  <2>1. CanCreate(t, Place) /\ 0 \in Nat BY <1>2 DEF MacBaseFails
  <2>2. c \in Tree BY <2>1, CallsKeepTrees
  <2>3. StampKept(t, c, {r}) BY <2>1, CreateStamps
  <2>4. b = Filled(c, r) /\ r \in Path BY <1>2, ResolveInPath DEF MacBase, Filled
  <2> HIDE DEF c
  <2>5. b \in {Filled(c, r), ForkFilled(c, r)} BY <2>4
  <2>6. \A q \in Path : b[q].stamp = c[q].stamp BY <2>2, <2>4, <2>5, FieldStamps
  <2>o. OnlyAt(c, b, r) BY <2>2, <2>4, FullNode
  <2>7. \A q \in Path : q # r => b[q] = c[q] BY <2>o DEF OnlyAt
  <2>8. QED BY <2>3, <2>6, <2>7 DEF StampKept
<1>3. QED BY <1>1, <1>2

\* The file itself: as it was, or new and no entry's.
LEMMA MacBaseNode ==
  ASSUME NEW t \in Tree, ShapeOf(t), Place \in Path, ~MacBaseFails(t),
         NEW b, b = MacBase(t), NEW r, r = Resolve(t, Place)
  PROVE  \/ b = t
         \/ /\ t[r].kind = "none" /\ b[r].src = 0 /\ b[r].fork = 0
            /\ \A q \in Path : q # r => Alike(t[q], b[q])
<1>1. CASE Exists(t, Place) BY <1>1 DEF MacBase
<1>2. CASE ~Exists(t, Place)
  <2> DEFINE c == Create(t, Place, 0)
  <2>0. r \in Path BY ResolveInPath
  <2>1. t[r].kind = "none" /\ CanCreate(t, Place)
    <3>1. t[r] \in Node BY <2>0 DEF Tree
    <3>2. QED BY <1>2, <3>1 DEF Exists, MacBaseFails
  <2>2. b = Filled(c, r) BY <1>2 DEF MacBase, Filled
  <2>3. 0 \in Nat OBVIOUS
  <2>4. c \in Tree BY <2>3, CallsKeepTrees
  <2>5. \A q \in Path \ {r} : Alike(t[q], c[q]) BY <2>3, CreateMoves
  <2>6. c[r] = [Absent EXCEPT !.kind = "file", !.src = 0, !.full = FALSE]
    <3>1. t[r].kind # "file" BY <2>1
    <3>2. QED BY <2>0, <3>1 DEF Create, Touch, Tree
  <2>7. c[r].src = 0 /\ c[r].fork = 0 BY <2>6 DEF Absent
  <2>8. c[r] \in Node BY <2>0, <2>4 DEF Tree
  <2> HIDE DEF c
  <2>9. OnlyAt(c, b, r) BY <2>0, <2>2, <2>4, FullNode
  <2>10. b[r] = [c[r] EXCEPT !.full = TRUE] BY <2>0, <2>2, <2>4 DEF Filled, Tree
  <2>11. b[r].src = 0 /\ b[r].fork = 0 BY <2>7, <2>8, <2>10 DEF Node
  <2>12. QED BY <2>1, <2>5, <2>9, <2>11 DEF OnlyAt
<1>3. QED BY <1>1, <1>2

\* StartFork keeps to it.
LEMMA StartForkTimed == ASSUME IndInv, DiskInv, StartFork PROVE Timed
<1>1. EntryStep BY EntrySteps DEF OneEntry
<1>2. ~Escapes(entry.path) /\ pc = "work" /\ entry.fork
  <2>1. "file" # "fork" /\ "dir" # "fork" /\ "link" # "fork" OBVIOUS
  <2>2. entry \in EntryRecord BY <1>1, EntryContext
  <2>3. QED BY <2>1, <2>2 DEF StartFork, Working, EntryRecord, EntryKinds
<1>3. fs \in Tree /\ Place \in Path /\ idx \in Nat /\ Resolve(fs, Place) \in Path
  BY <1>1, <1>2, EntryContext
<1>4. CASE fs' = fs BY <1>3, <1>4, StillTimed
<1>5. CASE fs' = WithParent /\ ~ParentFails BY <1>1, <1>2, <1>5, ParentOnlyTimed
<1>6. ASSUME ~ParentFails, MacOS, ~MacBaseFails(WithParent),
             \/ fs' = MacBase(WithParent)
             \/ CanOpenFork(MacBase(WithParent)) /\ fs' = OpenFork(MacBase(WithParent))
      PROVE  Timed
  <2>own. Own(idx) = Place BY <1>1, <1>2, <1>6, EntryContext
  <2> DEFINE t == WithParent
             b == MacBase(t)
             r == Resolve(fs, Place)
  <2>1. /\ t \in Tree /\ ShapeOf(t) /\ Moves(fs, t, Around(idx), {}, {})
        /\ Resolve(t, Place) = r /\ StampKept(fs, t, {})
    BY <1>1, <1>2, <1>6, ParentMade, ParentStamps
  <2>2. r \in Path /\ b = MacBase(t) /\ ~MacBaseFails(t)
        /\ (fs' = b \/ (CanOpenFork(b) /\ fs' = OpenFork(b)))
    BY <1>3, <1>6
  <2> HIDE DEF t, b, r
  <2>3. r = Resolve(t, Place) BY <2>1
  <2>4. b \in Tree /\ Resolve(b, Place) = r BY <1>3, <2>1, <2>2, <2>3, MacBaseMade
  <2>5. StampKept(t, b, {r}) BY <1>3, <2>1, <2>2, <2>3, MacBaseStamps
  <2>6. \/ b = t
        \/ /\ t[r].kind = "none" /\ b[r].src = 0 /\ b[r].fork = 0
           /\ \A q \in Path : q # r => Alike(t[q], b[q])
    BY <1>3, <2>1, <2>2, <2>3, MacBaseNode
  <2>7. \A q \in Path : q # r => Alike(t[q], b[q]) BY <2>6 DEF Alike
  <2>8. CASE fs' = b
    <3>1. CASE b = t BY <2>1, <2>8, <3>1, TimedQuiet
    <3>2. CASE b # t
      <4>1. Stamped(fs'[r]) BY <2>6, <2>8, <3>2 DEF Stamped
      <4>2. r = Resolve(fs', Own(idx)) BY <2>own, <2>4, <2>8
      <4>3. t[r].kind \notin {"dir", "link"} BY <2>6, <3>2
      <4>4. StampKept(t, fs', {r}) /\ \A q \in Path : q # r => Alike(t[q], fs'[q])
        BY <2>5, <2>7, <2>8
      <4>5. QED BY <2>1, <4>1, <4>2, <4>3, <4>4, TimedAt
    <3>3. QED BY <3>1, <3>2
  <2>9. CASE CanOpenFork(b) /\ fs' = OpenFork(b)
    <3>1. fs' = Forked(b, r, idx) /\ b[r].kind = "file"
      BY <2>4, <2>9 DEF OpenFork, Forked, CanOpenFork
    <3>o. OnlyAt(b, fs', r) BY <1>3, <2>2, <2>4, <3>1, ForkNode
    <3>k. fs'[r].kind = b[r].kind /\ fs'[r].to = b[r].to
      <4>1. b[r] \in Node BY <2>2, <2>4 DEF Tree
      <4>2. fs'[r] = [b[r] EXCEPT !.fork = idx, !.forkFull = FALSE, !.stamp = 0]
        BY <2>2, <2>4, <3>1 DEF Forked, Tree
      <4>3. QED BY <4>1, <4>2 DEF Node
    <3>2. OnlyAt(b, fs', r) /\ fs'[r].kind = b[r].kind /\ fs'[r].to = b[r].to
      BY <3>o, <3>k
    <3>3. fs'[r].forkFull = FALSE
      <4>1. b[r] \in Node BY <2>2, <2>4 DEF Tree
      <4>2. fs'[r] = [b[r] EXCEPT !.fork = idx, !.forkFull = FALSE, !.stamp = 0]
        BY <2>2, <2>4, <3>1 DEF Forked, Tree
      <4>3. QED BY <4>1, <4>2 DEF Node
    <3>4. Stamped(fs'[r]) BY <3>3 DEF Stamped
    <3>5. r = Resolve(fs', Own(idx)) BY <1>3, <2>own, <2>2, <2>4, <3>1, <3>2 DEF Resolve, OnlyAt
    <3>6. t[r].kind \notin {"dir", "link"} BY <2>6, <3>1
    <3>7. StampKept(t, fs', {r}) /\ \A q \in Path : q # r => Alike(t[q], fs'[q])
      BY <2>5, <2>7, <3>2 DEF OnlyAt, StampKept
    <3>8. QED BY <2>1, <3>4, <3>5, <3>6, <3>7, TimedAt
  <2>10. QED BY <2>2, <2>8, <2>9
<1>7. QED BY <1>4, <1>5, <1>6 DEF StartFork

\* WriteSidecar keeps to it.
LEMMA WriteSidecarTimed == ASSUME IndInv, DiskInv, WriteSidecar PROVE Timed
<1>1. EntryStep BY EntrySteps DEF OneEntry
<1>2. pc = "forking" /\ ~MacOS BY DEF WriteSidecar
<1>3. ~Escapes(entry.path) /\ entry.fork BY <1>2 DEF DiskInv, WorkInv
<1> DEFINE side == SidecarPath(Place)
           begun == Create(fs, side, idx)
           r == Resolve(fs, side)
           whole == Filled(begun, r)
<1>4. fs \in Tree /\ idx \in Nat BY <1>1, <1>3, EntryContext
<1>own. Own(idx) = side BY <1>1, <1>2, <1>3, EntryContext
<1>5. side \in Path /\ r \in Path
  <2>1. Own(idx) \in Path /\ Resolve(fs, Own(idx)) \in Path BY <1>1, <1>3, EntryContext
  <2>2. QED BY <1>own, <2>1
<1>6. CASE fs' = fs BY <1>4, <1>6, StillTimed
<1>7. ASSUME CanCreate(fs, side),
             \/ fs' = begun
             \/ fs' = SetTime(whole, side, idx) /\ Succeed
      PROVE  Timed
  <2>1. fs[r].kind \in {"none", "file"} /\ Resolve(begun, side) = r
    BY <1>4, <1>5, <1>7, CreateShape DEF DiskInv
  <2>2. /\ begun[r].kind = "file" /\ ~begun[r].full
        /\ \A q \in Path \ {r} : Alike(fs[q], begun[q])
    BY <1>4, <1>5, CreateMoves
  <2>3. begun \in Tree BY <1>4, CallsKeepTrees
  <2>w. r = Resolve(fs, side) /\ whole = Filled(begun, r) OBVIOUS
  <2>4. StampKept(fs, begun, {r}) BY <1>4, <1>5, <1>7, CreateStamps
  <2>5. Moves(fs, fs, {}, {}, {}) /\ StampKept(fs, fs, {})
    <3>1. 0 \in Nat OBVIOUS
    <3>2. QED BY <1>4, <3>1, TouchMoves DEF StampKept
  <2> HIDE DEF side, begun, r, whole
  <2>6. fs[r].kind \notin {"dir", "link"} BY <2>1
  <2>7. CASE fs' = begun
    <3>1. Stamped(fs'[r]) /\ r = Resolve(fs', Own(idx))
      BY <1>own, <2>1, <2>2, <2>7 DEF Stamped
    <3>2. StampKept(fs, fs', {r}) /\ \A q \in Path : q # r => Alike(fs[q], fs'[q])
      BY <2>2, <2>4, <2>7
    <3>3. QED BY <2>5, <2>6, <3>1, <3>2, TimedAt
  <2>8. CASE fs' = SetTime(whole, side, idx) /\ Succeed
    <3>1. /\ whole \in Tree /\ OnlyAt(begun, whole, r)
          /\ whole[r].kind = begun[r].kind /\ whole[r].to = begun[r].to
      BY <1>5, <2>3, <2>w, FullNode
    <3>2. whole \in {Filled(begun, r), ForkFilled(begun, r)} BY <2>w
    <3>3. \A q \in Path : whole[q].stamp = begun[q].stamp
      BY <1>5, <2>3, <3>2, FieldStamps
    <3>4. Resolve(whole, side) = r
      BY <1>5, <2>1, <2>2, <3>1 DEF Resolve, OnlyAt
    <3>5. "none" # "none" => "none" \in {"rw", "ro"} OBVIOUS
    <3>6. fs' = SetTime(SetMode(whole, side, "none"), side, idx) BY <2>8 DEF SetMode
    <3>7. idx \in done' BY <2>8 DEF Succeed
    <3>8. ~IsLink(idx) BY <1>3 DEF IsLink, entry
    <3>9. /\ \A q \in Path : q # r => Alike(fs[q], whole[q])
          /\ StampKept(fs, whole, {r})
      BY <2>2, <2>4, <3>1, <3>3 DEF OnlyAt, Alike, StampKept
    <3>10. r = Resolve(fs, side) /\ whole[r].kind = "file" BY <2>2, <2>w, <3>1
    <3>11. QED BY <1>4, <1>own, <1>5, <2>5, <2>6, <3>1, <3>4, <3>5, <3>6, <3>7,
                  <3>8, <3>9, <3>10, FilledTimed
  <2>9. QED BY <1>7, <2>7, <2>8
<1>8. QED BY <1>6, <1>7 DEF WriteSidecar, Filled

\* The steps on an entry, together.
LEMMA EntriesAreTimed == ASSUME IndInv, DiskInv, OneEntry PROVE Timed
<1>1. fs \in Tree BY EntryContext, EntrySteps
<1>2. CASE fs' = fs BY <1>1, <1>2, StillTimed
<1>3. RefusePath \/ ReadFork \/ ForkFails \/ ForkTooLong => fs' = fs
  BY DEF RefusePath, ReadFork, ForkFails, ForkTooLong
<1>4. QED BY <1>2, <1>3, MakeDirTimed, MakeLinkTimed, CreateFileTimed, WriteChunkTimed,
     ReadFailsTimed, ReadDoneTimed, StartForkTimed, MacForkDoneTimed, WriteSidecarTimed
  DEF OneEntry

\* What was extracted and is no link was written last at p, and dated it.
LastAt(w, p) ==
  /\ ~IsLink(w) /\ Resolve(fs, Own(w)) = p
  /\ entries[w].dated => fs[p].stamp = w

\* A whole file carries the time of the entry that was written last to it.
StampInv ==
  opts.preserve =>
    \A p \in Path :
      LET n == fs[p]
      IN n.kind = "file" /\ n.full /\ n.forkFull =>
           (n.src = 0 /\ n.fork = 0) \/ \E w \in done : LastAt(w, p)

\* A directory extracted is one for good.
DirsStay == \A i \in done : BothDirs(i, i) => fs[Resolve(fs, Own(i))].kind = "dir"

\* Where an extracted entry lies.
LEMMA DonePlaces ==
  ASSUME IndInv, DiskInv, NEW i \in done
  PROVE  /\ i \in Index /\ i \in Nat /\ i # 0 /\ entries[i] \in EntryRecord
         /\ Own(i) \in Path /\ Resolve(fs, Own(i)) \in Path
<1>1. TypeOK /\ i \in Index /\ ~Escapes(entries[i].path)
  BY DEF IndInv, TypeOK, DiskInv, GoodInv
<1>2. fs \in Tree /\ entries[i] \in EntryRecord /\ Len(entries) \in Nat
  BY <1>1, ListingTypes
<1>3. Own(i) \in Path BY <1>1, PlacesExist
<1>4. Resolve(fs, Own(i)) \in Path BY <1>2, <1>3, ResolveInPath
<1>5. i \in Nat /\ i # 0 BY <1>1, <1>2 DEF Index
<1>6. QED BY <1>1, <1>2, <1>3, <1>4, <1>5

\* What such a step leaves of the times.
LEMMA StampsGo ==
  ASSUME IndInv, DiskInv, StampInv, DirsStay, Timed, job' = job, done \subseteq done',
         \A i \in done' : i \in done \/ (i = idx /\ Standing(i)'),
         \A i \in done' : entries[i].fork \in BOOLEAN
  PROVE  StampInv' /\ DirsStay'
<1>1. /\ entries' = entries /\ opts' = opts /\ MacOS' = MacOS
      /\ \A i : Own(i)' = Own(i)
      /\ \A i, j : BothDirs(i, j)' = BothDirs(i, j)
  BY SameJob, SamePlaces
<1>2. \A w, p : LastAt(w, p)' <=> /\ ~IsLink(w) /\ Resolve(fs', Own(w)) = p
                                  /\ entries[w].dated => fs'[p].stamp = w
  BY <1>1 DEF LastAt, IsLink
<1>3. ASSUME opts.preserve, NEW p \in Path, fs'[p].kind = "file", fs'[p].full, fs'[p].forkFull
      PROVE  (fs'[p].src = 0 /\ fs'[p].fork = 0) \/ \E w \in done' : LastAt(w, p)'
  <2>1. CASE Alike(fs[p], fs'[p]) /\ fs'[p].stamp = fs[p].stamp
    <3>1. /\ fs[p].kind = "file" /\ fs[p].full /\ fs[p].forkFull
          /\ fs'[p].src = fs[p].src /\ fs'[p].fork = fs[p].fork
      BY <1>3, <2>1 DEF Alike
    <3>2. CASE fs[p].src = 0 /\ fs[p].fork = 0 BY <3>1, <3>2
    <3>3. ASSUME NEW w \in done, LastAt(w, p)
          PROVE  LastAt(w, p)'
      <4>1. Own(w) \in Path BY DonePlaces
      <4>2. Resolve(fs, Own(w)) = p /\ ~IsLink(w) BY <3>3 DEF LastAt
      <4>3. CASE fs[Own(w)].kind = "link"
        <5>1. fs[Own(w)].to = p BY <4>2, <4>3 DEF Resolve
        <5>2. Alike(fs[Own(w)], fs'[Own(w)]) BY <3>1, <4>1, <4>3, <5>1 DEF Timed
        <5>3. Resolve(fs', Own(w)) = p BY <4>3, <5>1, <5>2 DEF Resolve, Alike
        <5>4. QED BY <1>2, <2>1, <3>3, <4>2, <5>3 DEF LastAt
      <4>4. CASE fs[Own(w)].kind # "link"
        <5>1. Own(w) = p BY <4>2, <4>4 DEF Resolve
        <5>2. Resolve(fs', Own(w)) = p BY <1>3, <5>1 DEF Resolve
        <5>3. QED BY <1>2, <2>1, <3>3, <4>2, <5>2 DEF LastAt
      <4>5. QED BY <4>3, <4>4
    <3>4. (fs[p].src = 0 /\ fs[p].fork = 0) \/ \E w \in done : LastAt(w, p)
      BY <1>3, <3>1 DEF StampInv
    <3>5. QED BY <3>2, <3>3, <3>4
  <2>2. CASE p = Resolve(fs', Own(idx)) /\ Stamped(fs'[p])
    <3>1. \/ fs'[p].src = 0 /\ fs'[p].fork = 0
          \/ idx \in done' /\ ~IsLink(idx) /\ (entry.dated => fs'[p].stamp = idx)
      BY <1>3, <2>2 DEF Stamped
    <3>2. ASSUME NEW w, w = idx, w \in done', ~IsLink(w), entries[w].dated => fs'[p].stamp = w
          PROVE  \E v \in done' : LastAt(v, p)'
      <4>1. p = Resolve(fs', Own(w)) BY <2>2, <3>2
      <4>2. LastAt(w, p)' BY <1>2, <3>2, <4>1
      <4>3. QED BY <3>2, <4>2
    <3>3. QED BY <3>1, <3>2 DEF entry
  <2>3. QED BY <1>3, <2>1, <2>2 DEF Timed
<1>4. StampInv' BY <1>1, <1>3 DEF StampInv
<1>5. ASSUME NEW i \in done', BothDirs(i, i)
      PROVE  fs'[Resolve(fs', Own(i))].kind = "dir"
  <2>1. CASE i \in done
    <3>1. Own(i) \in Path /\ Resolve(fs, Own(i)) \in Path BY <2>1, DonePlaces
    <3>2. fs[Resolve(fs, Own(i))].kind = "dir" BY <1>5, <2>1 DEF DirsStay
    <3>3. Resolve(fs', Own(i)) = Resolve(fs, Own(i))
      <4>1. CASE fs[Own(i)].kind = "link"
        <5>1. Alike(fs[Own(i)], fs'[Own(i)]) BY <3>1, <3>2, <4>1 DEF Timed, Resolve
        <5>2. QED BY <4>1, <5>1 DEF Resolve, Alike
      <4>2. CASE fs[Own(i)].kind # "link"
        <5>1. fs[Own(i)].kind = "dir" BY <3>2, <4>2 DEF Resolve
        <5>2. fs'[Own(i)].kind = "dir" BY <3>1, <5>1 DEF Timed
        <5>3. QED BY <4>2, <5>2 DEF Resolve
      <4>3. QED BY <4>1, <4>2
    <3>4. QED BY <3>1, <3>2, <3>3 DEF Timed
  <2>2. CASE i \notin done
    <3>1. Standing(i)' BY <2>2
    <3>2. ~entries[i].fork /\ entries[i].kind = "dir" BY <1>5 DEF BothDirs
    <3>3. QED BY <1>1, <3>1, <3>2 DEF Standing
  <2>3. QED BY <2>1, <2>2
<1>6. DirsStay' BY <1>1, <1>5 DEF DirsStay
<1>7. QED BY <1>4, <1>6

\* The steps on an entry.
LEMMA EntryKeepsStamps ==
  ASSUME IndInv, DiskInv, StampInv, DirsStay, OneEntry
  PROVE  StampInv' /\ DirsStay'
<1>1. Sound /\ EntryStep /\ Timed BY EntriesAreSound, EntrySteps, EntriesAreTimed
<1>2. job' = job /\ idx \in Index /\ TypeOK
  BY <1>1, EntryContext DEF IndInv
<1>3. done' = done \/ done' = done \cup {idx}
  BY <1>1 DEF EntryStep, Succeed, Fail, Proceed, Chunk, Abort
<1>4. \A i \in done' : i \in done \/ (i = idx /\ Standing(i)') BY <1>1, <1>3 DEF Sound
<1>5. \A i \in done' : entries[i].fork \in BOOLEAN
  <2>1. \A i \in done' : i \in Index BY <1>2, <1>3 DEF TypeOK
  <2>2. QED BY <1>2, <2>1, ListingTypes DEF EntryRecord
<1>6. done \subseteq done' BY <1>3
<1>7. QED BY <1>1, <1>2, <1>4, <1>5, <1>6, StampsGo

\* The time of the first directory that is due, set on a directory.
LEMMA DirTimeSet ==
  ASSUME IndInv, DiskInv, DirsStay, ApplyDirTime, dirTimes # <<>>, Head(dirTimes) \in done,
         BothDirs(Head(dirTimes), Head(dirTimes)),
         NEW h, h = Head(dirTimes), NEW r, r = Resolve(fs, Own(h))
  PROVE  /\ fs' = SetTime(fs, Own(h), h) /\ dirTimes' = Tail(dirTimes) /\ fs[r].kind = "dir"
         /\ h \in Nat /\ r \in Path
         /\ \A q \in Path : q # r => fs'[q].stamp = fs[q].stamp
         /\ opts.preserve /\ entries[h].dated => fs'[r].stamp = h
         /\ ~(opts.preserve /\ entries[h].dated) => fs' = fs
<1>1. fs' = SetTime(fs, Target(h), h) /\ dirTimes' = Tail(dirTimes)
  BY DEF ApplyDirTime
<1>2. ~entries[h].fork BY DEF BothDirs
<1>3. Own(h) = Target(h) BY <1>2 DEF Own
<1>4. fs[r].kind = "dir" BY DEF DirsStay
<1>5. fs \in Tree BY ListingTypes DEF IndInv
<1>6. h \in Nat /\ Own(h) \in Path /\ r \in Path BY DonePlaces
<1>7. fs' = SetTime(fs, Own(h), h) BY <1>1, <1>3
<1>8. /\ \A q \in Path : q # r => fs'[q].stamp = fs[q].stamp
      /\ opts.preserve /\ entries[h].dated /\ fs[r].kind # "none" => fs'[r].stamp = h
  BY <1>5, <1>6, <1>7, TimeStamps
<1>9. ~(opts.preserve /\ entries[h].dated) => fs' = fs BY <1>7 DEF SetTime
<1>10. QED BY <1>1, <1>4, <1>6, <1>7, <1>8, <1>9

\* The steps before, between and after the entries.
LEMMA FrameKeepsStamps ==
  ASSUME IndInv, DiskInv, StampInv, DirsStay,
         \A k \in 1..Len(dirTimes) : dirTimes[k] \in done /\ BothDirs(dirTimes[k], dirTimes[k]),
         VerifyPassword \/ MakeWrapper \/ SkipEntry \/ StartEntry \/ EndLoop \/ ApplyDirTime
  PROVE  StampInv' /\ DirsStay'
<1>1. /\ job' = job /\ done' = done /\ fs \in Tree
      /\ Moves(fs, fs', WithAncestors(Dest), {}, {}) /\ (~MakeWrapper => Moves(fs, fs', {}, {}, {}))
  BY FrameMoves
<1>2. TypeOK /\ dirTimes \in Seq(Index) BY DEF IndInv, TypeOK
<1>3. StampKept(fs, fs', {})
  <2>1. CASE fs' = fs BY <2>1 DEF StampKept
  <2>2. CASE MakeWrapper /\ fs' # fs
    <3>1. fs' = MakeDirs(fs, Dest) /\ CanMakeDirs(fs, Dest) BY <2>2 DEF MakeWrapper
    <3>2. Dest \in Path BY PathAssumption, PlaceAssumption DEF Dest
    <3>3. QED BY <1>1, <3>1, <3>2, MakeDirsStamps
  <2>3. CASE ApplyDirTime /\ fs' # fs
    <3>1. dirTimes # <<>> BY <2>3 DEF ApplyDirTime
    <3>2. Head(dirTimes) = dirTimes[1] /\ 1 \in 1..Len(dirTimes) BY <1>2, <3>1
    <3>3. Head(dirTimes) \in done /\ BothDirs(Head(dirTimes), Head(dirTimes)) BY <3>2
    <3> DEFINE h == Head(dirTimes)
               r == Resolve(fs, Own(h))
    <3>e. h = Head(dirTimes) /\ r = Resolve(fs, Own(h)) OBVIOUS
    <3> HIDE DEF h, r
    <3>4. /\ fs[r].kind = "dir" /\ r \in Path
          /\ \A q \in Path : q # r => fs'[q].stamp = fs[q].stamp
      BY <2>3, <3>1, <3>3, <3>e, DirTimeSet
    <3>5. Moves(fs, fs', {}, {}, {}) BY <1>1, <2>3 DEF ApplyDirTime, MakeWrapper
    <3>6. fs'[r].kind = "dir" BY <3>4, <3>5 DEF Moves, Alike
    <3>7. QED BY <3>4, <3>6 DEF StampKept
  <2>4. fs' = fs \/ MakeWrapper \/ ApplyDirTime
    BY DEF VerifyPassword, SkipEntry, StartEntry, EndLoop
  <2>5. QED BY <2>1, <2>2, <2>3, <2>4
<1>4. Timed BY <1>1, <1>3, TimedQuiet
<1>5. \A i \in done' : entries[i].fork \in BOOLEAN
  BY <1>1, <1>2, ListingTypes DEF TypeOK, EntryRecord
<1>6. QED BY <1>1, <1>4, <1>5, StampsGo

\* The directories extracted, those whose time is still to be set, and of the
\* others the dated ones in the place of entry i.
DirsDone == {i \in done : BothDirs(i, i)}
Pending == {dirTimes[k] : k \in 1..Len(dirTimes)}
Past(i) ==
  {j \in DirsDone \ Pending : entries[j].dated /\ Resolve(fs, Own(j)) = Resolve(fs, Own(i))}

\* Until the loop ends every directory's time is pending; then they are set in the
\* order of the entries, each over that of an earlier one.
DatesInv ==
  /\ Pending \subseteq DirsDone
  /\ \A k, l \in 1..Len(dirTimes) : k < l => dirTimes[k] < dirTimes[l]
  /\ \A i \in DirsDone \ Pending :
       /\ pc \in {"stamp", "returned"}
       /\ \A j \in Pending : i < j
       /\ opts.preserve /\ entries[i].dated =>
            LET s == fs[Resolve(fs, Own(i))].stamp
            IN s \in Past(i) /\ \A j \in Past(i) : j <= s
  /\ result = "ok" => dirTimes = <<>>

\* While the loop runs, the list is all there is to show.
LEMMA DatesBefore ==
  ASSUME job' = job, DirsDone' = Pending', Pending' \subseteq DirsDone',
         \A k, l \in 1..Len(dirTimes') : k < l => dirTimes'[k] < dirTimes'[l],
         result' # "ok"
  PROVE  DatesInv'
BY DEF DatesInv

\* The steps on an entry.
LEMMA EntryKeepsDates ==
  ASSUME IndInv, DiskInv, DatesInv, OneEntry
  PROVE  DatesInv'
<1>1. EntryStep BY EntrySteps
<1>2. job' = job /\ idx \in Index /\ idx \in Nat /\ Busy BY <1>1, EntryContext
<1>3. /\ \A i, j : BothDirs(i, j)' = BothDirs(i, j)
      /\ dirTimes \in Seq(Index)
  BY <1>2, SamePlaces DEF IndInv, TypeOK
<1>4. result = "none" /\ result' # "ok"
  BY <1>1, <1>2
  DEF IndInv, LoopInv, Busy, EntryStep, Succeed, Fail, Proceed, Chunk, Abort, NextEntry, Return
<1>5. DirsDone = Pending BY <1>2 DEF DatesInv, Busy
<1>6. done' = done \/ (Succeed /\ done' = done \cup {idx})
  BY <1>1 DEF EntryStep, Succeed, Fail, Proceed, Chunk, Abort
<1>7. CASE dirTimes' = dirTimes /\ (done' = done \/ ~BothDirs(idx, idx))
  <2>1. DirsDone' = DirsDone BY <1>3, <1>6, <1>7 DEF DirsDone
  <2>2. Pending' = Pending BY <1>7 DEF Pending
  <2>3. \A k, l \in 1..Len(dirTimes') : k < l => dirTimes'[k] < dirTimes'[l]
    BY <1>7 DEF DatesInv
  <2>4. QED BY <1>2, <1>4, <1>5, <2>1, <2>2, <2>3, DatesBefore
<1>8. CASE dirTimes' = Append(dirTimes, idx) /\ done' = done \cup {idx} /\ BothDirs(idx, idx)
  <2>1. DirsDone' = DirsDone \cup {idx}
    <3>1. \A i \in done' : BothDirs(i, i)' = BothDirs(i, i) BY <1>3
    <3>2. QED BY <1>8, <3>1 DEF DirsDone
  <2>2. /\ Len(dirTimes') = Len(dirTimes) + 1 /\ Len(dirTimes) \in Nat
        /\ \A k \in 1..Len(dirTimes) : dirTimes'[k] = dirTimes[k]
        /\ dirTimes'[Len(dirTimes) + 1] = idx
    BY <1>2, <1>3, <1>8
  <2>3. Pending' = Pending \cup {idx}
    <3>1. 1..Len(dirTimes') = 1..Len(dirTimes) \cup {Len(dirTimes) + 1} BY <2>2
    <3>2. QED BY <2>2, <3>1 DEF Pending
  <2>4. \A k \in 1..Len(dirTimes) : dirTimes[k] \in Nat /\ dirTimes[k] < idx
    <3>1. \A k \in 1..Len(dirTimes) : dirTimes[k] \in done BY <1>5 DEF Pending, DirsDone
    <3>2. \A i \in done : i \in Nat /\ i < idx
      BY ListingTypes DEF IndInv, ReportInv, Subset
    <3>3. QED BY <3>1, <3>2
  <2>5. \A k, l \in 1..Len(dirTimes') : k < l => dirTimes'[k] < dirTimes'[l]
    BY <2>2, <2>4 DEF DatesInv
  <2>6. QED BY <1>2, <1>4, <1>5, <2>1, <2>3, <2>5, DatesBefore
<1>9. \/ dirTimes' = dirTimes /\ (done' = done \/ ~BothDirs(idx, idx))
      \/ dirTimes' = Append(dirTimes, idx) /\ done' = done \cup {idx} /\ BothDirs(idx, idx)
  <2>1. CASE MakeDir
    <3>1. BothDirs(idx, idx)
      BY <1>1, <2>1, EntryContext DEF MakeDir, Working, BothDirs, entry, EntryRecord, EntryKinds
    <3>2. QED BY <2>1, <3>1 DEF MakeDir, Succeed, Fail
  <2>2. CASE ~MakeDir
    <3>1. dirTimes' = dirTimes
      BY <2>2 DEF OneEntry, RefusePath, MakeLink, CreateFile, WriteChunk, ReadFails, ReadDone,
        StartFork, ReadFork, ForkFails, MacForkDone, ForkTooLong, WriteSidecar
    <3>2. done' = done \/ entry.kind # "dir" \/ entry.fork
      BY <2>2 DEF OneEntry, RefusePath, MakeLink, CreateFile, WriteChunk, ReadFails, ReadDone,
        StartFork, ReadFork, ForkFails, MacForkDone, ForkTooLong, WriteSidecar, Working, Fail,
        Abort, DiskInv, WorkInv
    <3>3. QED BY <3>1, <3>2 DEF BothDirs, entry
  <2>3. QED BY <2>1, <2>2
<1>10. QED BY <1>7, <1>8, <1>9

\* What is pending was extracted, as a directory.
LEMMA PendingDone ==
  ASSUME DatesInv
  PROVE  \A k \in 1..Len(dirTimes) : dirTimes[k] \in done /\ BothDirs(dirTimes[k], dirTimes[k])
BY DEF DatesInv, Pending, DirsDone

\* One directory's time set: it is the last in its place, and all to come are later.
LEMMA ApplyKeepsDates ==
  ASSUME IndInv, DiskInv, DirsStay, DatesInv, ApplyDirTime, dirTimes # <<>>
  PROVE  DatesInv'
<1>1. /\ job' = job /\ done' = done /\ fs \in Tree /\ Moves(fs, fs', {}, {}, {})
      /\ pc' = "stamp" /\ result' = result /\ result # "ok"
  <2>1. ApplyDirTime => ~MakeWrapper BY DEF ApplyDirTime, MakeWrapper
  <2>2. pc' = "stamp" /\ result' = result BY DEF ApplyDirTime
  <2>3. result # "ok" BY DEF DatesInv
  <2>4. QED BY <2>1, <2>2, <2>3, FrameMoves
<1>2. dirTimes \in Seq(Index) /\ Index \subseteq Nat BY ListingTypes DEF IndInv, TypeOK
<1>3. Head(dirTimes) = dirTimes[1] /\ 1 \in 1..Len(dirTimes) BY <1>2
<1>4. Head(dirTimes) \in done /\ BothDirs(Head(dirTimes), Head(dirTimes))
  BY <1>3, PendingDone
<1> DEFINE h == Head(dirTimes)
           r == Resolve(fs, Own(h))
<1>e. h = Head(dirTimes) /\ r = Resolve(fs, Own(h)) OBVIOUS
<1>5. h \in DirsDone BY <1>4 DEF DirsDone
<1> HIDE DEF h, r
<1>6. /\ dirTimes' = Tail(dirTimes) /\ h \in Nat /\ r \in Path
      /\ \A q \in Path : q # r => fs'[q].stamp = fs[q].stamp
      /\ opts.preserve /\ entries[h].dated => fs'[r].stamp = h
      /\ ~(opts.preserve /\ entries[h].dated) => fs' = fs
  BY <1>4, <1>e, DirTimeSet
<1>7. /\ Len(dirTimes) \in Nat /\ Len(dirTimes') = Len(dirTimes) - 1
      /\ \A k \in 1..Len(dirTimes') : dirTimes'[k] = dirTimes[k + 1]
  BY <1>2, <1>3, <1>6
<1>8. Pending = Pending' \cup {h}
  <2>1. \A k \in 1..Len(dirTimes') : k + 1 \in 1..Len(dirTimes) BY <1>7
  <2>2. Pending' \cup {h} \subseteq Pending BY <1>3, <1>7, <1>e, <2>1 DEF Pending
  <2>3. ASSUME NEW k \in 1..Len(dirTimes) PROVE dirTimes[k] \in Pending' \cup {h}
    <3>1. CASE k = 1 BY <1>3, <1>e, <3>1
    <3>2. CASE k # 1
      <4>1. k - 1 \in 1..Len(dirTimes') /\ dirTimes'[k - 1] = dirTimes[k]
        BY <1>7, <3>2
      <4>2. QED BY <4>1 DEF Pending
    <3>3. QED BY <3>1, <3>2
  <2>4. QED BY <2>2, <2>3 DEF Pending
<1>9. /\ \A j \in Pending' : h < j
      /\ \A k, l \in 1..Len(dirTimes') : k < l => dirTimes'[k] < dirTimes'[l]
  <2>1. \A k \in 1..Len(dirTimes') : h < dirTimes'[k]
    <3>1. \A k \in 1..Len(dirTimes') : /\ k + 1 \in 1..Len(dirTimes) /\ 1 < k + 1
                                       /\ dirTimes'[k] = dirTimes[k + 1]
      BY <1>7
    <3>2. QED BY <1>3, <1>e, <3>1 DEF DatesInv
  <2>2. \A k, l \in 1..Len(dirTimes') : k < l => dirTimes'[k] < dirTimes'[l]
    <3>1. \A k, l \in 1..Len(dirTimes') : k < l =>
            /\ k + 1 \in 1..Len(dirTimes) /\ l + 1 \in 1..Len(dirTimes) /\ k + 1 < l + 1
            /\ dirTimes'[k] = dirTimes[k + 1] /\ dirTimes'[l] = dirTimes[l + 1]
      BY <1>7
    <3>2. QED BY <3>1 DEF DatesInv
  <2>3. QED BY <2>1, <2>2 DEF Pending
<1>10. h \notin Pending' BY <1>6, <1>9
<1>11. /\ DirsDone' = DirsDone /\ DirsDone \subseteq done
       /\ DirsDone \ Pending' = (DirsDone \ Pending) \cup {h}
  <2>1. \A i : BothDirs(i, i)' = BothDirs(i, i) BY <1>1, SamePlaces
  <2>2. DirsDone' = DirsDone BY <1>1, <2>1 DEF DirsDone
  <2>3. QED BY <1>5, <1>8, <1>10, <2>2 DEF DirsDone
<1>12. \A i \in DirsDone :
         /\ i \in Nat /\ Resolve(fs, Own(i)) \in Path
         /\ Resolve(fs', Own(i)) = Resolve(fs, Own(i))
  <2>1. \A i \in DirsDone : i \in Nat /\ Own(i) \in Path /\ Resolve(fs, Own(i)) \in Path
    BY <1>11, DonePlaces
  <2>2. QED BY <1>1, <2>1, SameWay
<1>13. ASSUME NEW i \in DirsDone
       PROVE  Past(i)' = {j \in DirsDone \ Pending' :
                            entries[j].dated /\ Resolve(fs, Own(j)) = Resolve(fs, Own(i))}
  <2>1. /\ entries' = entries /\ \A j : Own(j)' = Own(j) BY <1>1, SameJob, SamePlaces
  <2>2. QED BY <1>11, <1>12, <2>1 DEF Past
<1>14. ASSUME NEW i \in DirsDone \ Pending', opts.preserve, entries[i].dated
       PROVE  LET s == fs'[Resolve(fs', Own(i))].stamp
              IN s \in Past(i)' /\ \A j \in Past(i)' : j <= s
  <2> DEFINE R == Resolve(fs, Own(i))
  <2>1. Resolve(fs', Own(i)) = R /\ R \in Path BY <1>12
  <2>2. Past(i)' = {j \in DirsDone \ Pending' : entries[j].dated /\ Resolve(fs, Own(j)) = R}
    BY <1>13
  <2>3. Past(i) = {j \in DirsDone \ Pending : entries[j].dated /\ Resolve(fs, Own(j)) = R}
    BY DEF Past
  <2>4. i \in DirsDone \ Pending =>
          fs[R].stamp \in Past(i) /\ \A j \in Past(i) : j <= fs[R].stamp
    BY <1>14 DEF DatesInv
  <2>5. i = h => R = r BY <1>e
  <2> HIDE DEF R
  <2>6. CASE R = r /\ entries[h].dated
    <3>1. fs'[R].stamp = h BY <1>6, <1>14, <2>6
    <3>2. h \in Past(i)' BY <1>5, <1>10, <1>e, <2>2, <2>6
    <3>3. \A j \in Past(i)' : j = h \/ j \in DirsDone \ Pending BY <1>11, <2>2
    <3>4. h \in Pending BY <1>8
    <3>5. \A j \in DirsDone \ Pending : j < h BY <3>4 DEF DatesInv
    <3>6. \A j \in Past(i)' : j <= h BY <1>6, <1>12, <3>3, <3>5
    <3>7. QED BY <2>1, <3>1, <3>2, <3>6
  <2>7. CASE R # r \/ ~entries[h].dated
    <3>1. i # h BY <1>14, <2>5, <2>7
    <3>2. i \in DirsDone \ Pending BY <1>11, <3>1
    <3>3. h \notin Past(i)' BY <1>e, <2>2, <2>7
    <3>4. Past(i)' = Past(i) BY <1>11, <2>2, <2>3, <3>3
    <3>5. fs'[R].stamp = fs[R].stamp BY <1>6, <2>1, <2>7
    <3>6. QED BY <2>1, <2>4, <3>2, <3>4, <3>5
  <2>8. QED BY <2>6, <2>7
<1>15. \A i \in DirsDone \ Pending', j \in Pending' : i < j
  <2>1. \A i \in DirsDone \ Pending, j \in Pending : i < j BY DEF DatesInv
  <2>2. QED BY <1>8, <1>9, <1>11, <2>1
<1>16. Pending' \subseteq DirsDone BY <1>8 DEF DatesInv
<1>17. opts' = opts /\ entries' = entries /\ \A j : Own(j)' = Own(j)
  BY <1>1, SameJob, SamePlaces
<1>18. QED
  BY <1>1, <1>9, <1>11, <1>14, <1>15, <1>16, <1>17 DEF DatesInv

\* Where nothing of it changes the invariant stays, when the call ends too.
LEMMA SameDates ==
  ASSUME DatesInv, job' = job, fs' = fs, done' = done, dirTimes' = dirTimes,
         pc \in {"stamp", "returned"} => pc' \in {"stamp", "returned"},
         result' = "ok" => result = "ok" \/ dirTimes = <<>>
  PROVE  DatesInv'
<1>1. entries' = entries /\ opts' = opts /\ \A j : Own(j)' = Own(j) BY SameJob, SamePlaces
<1>2. \A i, j : BothDirs(i, j)' = BothDirs(i, j) BY SamePlaces
<1>3. DirsDone' = DirsDone BY <1>2 DEF DirsDone
<1>4. Pending' = Pending BY DEF Pending
<1>5. \A i : Past(i)' = Past(i) BY <1>1, <1>3, <1>4 DEF Past
<1>6. QED BY <1>1, <1>3, <1>4, <1>5 DEF DatesInv

\* The steps before, between and after the entries.
LEMMA FrameKeepsDates ==
  ASSUME IndInv, DiskInv, DirsStay, DatesInv,
         VerifyPassword \/ MakeWrapper \/ SkipEntry \/ StartEntry \/ EndLoop \/ ApplyDirTime
  PROVE  DatesInv'
<1>1. CASE ApplyDirTime
  <2>1. CASE dirTimes # <<>> BY <1>1, <2>1, ApplyKeepsDates
  <2>2. CASE dirTimes = <<>>
    BY <1>1, <2>2, SameDates DEF ApplyDirTime, Return
  <2>3. QED BY <2>1, <2>2
<1>2. CASE ~ApplyDirTime
  <2>1. /\ job' = job /\ done' = done /\ dirTimes' = dirTimes /\ result' \in {result, "err"}
        /\ pc \notin {"stamp", "returned"}
    BY <1>2 DEF VerifyPassword, MakeWrapper, SkipEntry, StartEntry, EndLoop, Abort,
                NextEntry, Return
  <2>2. result = "none" BY <2>1 DEF IndInv, LoopInv
  <2>3. \A i, j : BothDirs(i, j)' = BothDirs(i, j) BY <2>1, SamePlaces
  <2>4. DirsDone' = DirsDone BY <2>1, <2>3 DEF DirsDone
  <2>5. Pending' = Pending BY <2>1 DEF Pending
  <2>6. DirsDone = Pending BY <2>1 DEF DatesInv
  <2>7. \A k, l \in 1..Len(dirTimes') : k < l => dirTimes'[k] < dirTimes'[l]
    BY <2>1 DEF DatesInv
  <2>8. result' # "ok" BY <2>1, <2>2
  <2>9. QED BY <2>1, <2>4, <2>5, <2>6, <2>7, <2>8, DatesBefore
<1>3. QED BY <1>1, <1>2

\* TimesSurvive, strengthened: where the times stand before the call is over.
TimesInv == StampInv /\ DirsStay /\ DatesInv

\* Every step.
LEMMA StepTimes == ASSUME IndInv, DiskInv, TimesInv, [Next]_vars PROVE TimesInv'
<1>1. CASE OneEntry BY <1>1, EntryKeepsStamps, EntryKeepsDates DEF TimesInv
<1>2. CASE VerifyPassword \/ MakeWrapper \/ SkipEntry \/ StartEntry \/ EndLoop \/ ApplyDirTime
  <2>1. \A k \in 1..Len(dirTimes) : dirTimes[k] \in done /\ BothDirs(dirTimes[k], dirTimes[k])
    BY PendingDone DEF TimesInv
  <2>2. StampInv' /\ DirsStay' BY <1>2, <2>1, FrameKeepsStamps DEF TimesInv
  <2>3. DatesInv' BY <1>2, FrameKeepsDates DEF TimesInv
  <2>4. QED BY <2>2, <2>3 DEF TimesInv
<1>3. CASE UNCHANGED vars
  <2>1. /\ job' = job /\ fs' = fs /\ pc' = pc /\ done' = done /\ dirTimes' = dirTimes
        /\ result' = result
    BY <1>3 DEF vars
  <2>2. /\ entries' = entries /\ opts' = opts /\ \A j : Own(j)' = Own(j)
        /\ \A i, j : BothDirs(i, j)' = BothDirs(i, j)
    BY <2>1, SameJob, SamePlaces
  <2>3. \A w, p : LastAt(w, p)' <=> LastAt(w, p) BY <2>1, <2>2 DEF LastAt, IsLink
  <2>4. StampInv' BY <2>1, <2>2, <2>3 DEF TimesInv, StampInv
  <2>5. DirsStay' BY <2>1, <2>2 DEF TimesInv, DirsStay
  <2>6. DatesInv' BY <2>1, SameDates DEF TimesInv
  <2>7. QED BY <2>4, <2>5, <2>6 DEF TimesInv
<1>4. QED BY <1>1, <1>2, <1>3 DEF Next, OneEntry

\* The invariants of the times hold throughout every call.
THEOREM TimesInductive == Spec => []TimesInv
<1>1. Init => TimesInv
  <2> SUFFICES ASSUME Init PROVE TimesInv OBVIOUS
  <2>1. done = {} /\ dirTimes = <<>> /\ result = "none" /\ fs = job.tree /\ job.tree \in Trees
    BY DEF Init
  <2>2. StampInv BY <2>1, SoundTrees DEF StampInv
  <2>3. DirsStay BY <2>1 DEF DirsStay
  <2>4. Pending = {} /\ DirsDone = {} BY <2>1 DEF Pending, DirsDone
  <2>5. DatesInv BY <2>1, <2>4 DEF DatesInv
  <2>6. QED BY <2>2, <2>3, <2>5 DEF TimesInv
<1>2. IndInv /\ DiskInv /\ TimesInv /\ [Next]_vars => TimesInv' BY StepTimes
<1>3. QED BY <1>1, <1>2, Inductive, DiskInductive, PTL DEF Spec

\* A call that ends well leaves every directory the time of the last of its
\* entries, and every whole file a time of its own.
THEOREM TimesRemain == Spec => []TimesSurvive
<1>1. IndInv /\ DiskInv /\ TimesInv => TimesSurvive
  <2> SUFFICES ASSUME IndInv, DiskInv, StampInv, DatesInv, result = "ok", opts.preserve,
                      NEW i \in done
               PROVE  LET n == fs[Resolve(fs, Own(i))]
                          Same == {j \in done : /\ entries[j].kind # "link" \/ entries[j].fork
                                                /\ Resolve(fs, Own(j)) = Resolve(fs, Own(i))}
                          Dated == {j \in Same : entries[j].dated}
                          Dirs == {j \in Dated : BothDirs(j, j)}
                      IN IF BothDirs(i, i)
                         THEN i \in Dirs => n.stamp \in Dirs /\ \A j \in Dirs : j <= n.stamp
                         ELSE Standing(i) /\ n.full /\ n.forkFull /\ i \in Same /\ Same = Dated
                                => n.stamp \in Dated
    BY DEF TimesInv, TimesSurvive
  <2> DEFINE p == Resolve(fs, Own(i))
             n == fs[p]
             Same == {j \in done : /\ entries[j].kind # "link" \/ entries[j].fork
                                   /\ Resolve(fs, Own(j)) = p}
             Dated == {j \in Same : entries[j].dated}
             Dirs == {j \in Dated : BothDirs(j, j)}
  <2>1. ASSUME BothDirs(i, i), i \in Dirs
        PROVE  n.stamp \in Dirs /\ \A j \in Dirs : j <= n.stamp
    <3>1. Pending = {} BY DEF DatesInv, Pending
    <3>2. DirsDone \ Pending = DirsDone BY <3>1
    <3>3. Dirs = Past(i)
      <4>1. \A j : BothDirs(j, j) => entries[j].kind # "link" \/ entries[j].fork
        BY DEF BothDirs
      <4>2. QED BY <3>2, <4>1 DEF Past, DirsDone
    <3>4. i \in DirsDone /\ entries[i].dated BY <2>1 DEF DirsDone
    <3>5. QED BY <3>2, <3>3, <3>4 DEF DatesInv
  <2>2. ASSUME ~BothDirs(i, i), Standing(i), n.full, n.forkFull, i \in Same, Same = Dated
        PROVE  n.stamp \in Dated
    <3>1. i # 0 /\ entries[i] \in EntryRecord /\ p \in Path BY DonePlaces
    <3>2. n.kind = "file" /\ (n.src = i \/ n.fork = i)
      <4>1. entries[i].kind # "link" \/ entries[i].fork BY <2>2
      <4>2. entries[i].kind # "dir" \/ entries[i].fork BY <2>2 DEF BothDirs
      <4>3. entries[i].fork \in BOOLEAN BY <3>1 DEF EntryRecord
      <4>4. QED BY <2>2, <4>1, <4>2, <4>3 DEF Standing
    <3>3. PICK w \in done : LastAt(w, p) BY <2>2, <3>1, <3>2 DEF StampInv
    <3>4. w \in Same
      <4>1. entries[w].kind # "link" \/ entries[w].fork BY <3>3 DEF LastAt, IsLink
      <4>2. Resolve(fs, Own(w)) = p BY <3>3 DEF LastAt
      <4>3. QED BY <4>1, <4>2
    <3>5. w \in Dated BY <2>2, <3>4
    <3>6. n.stamp = w BY <3>3, <3>5 DEF LastAt
    <3>7. QED BY <3>5, <3>6
  <2>3. QED BY <2>1, <2>2
<1>2. QED BY <1>1, Inductive, DiskInductive, TimesInductive, PTL
=============================================================================
