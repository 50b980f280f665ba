---------------------------- MODULE MCSplitZip ----------------------------
(***************************************************************************)
(* Split archives for TLC: a writer puts up to two entries and a directory  *)
(* in one file and cuts it at every choice of places; then a volume is      *)
(* lost, a stray one is added, or a field is damaged.                       *)
(***************************************************************************)
EXTENDS SplitZip, SequencesExt, FiniteSetsExt

\* A file: where the local headers are, where the directory begins, whether it
\* has a zip64 end record, the other extra fields' length.
Plans == {
  [heads |-> <<4>>, dir |-> 40, wide |-> FALSE, other |-> 0, big |-> FALSE],
  [heads |-> <<4, 60>>, dir |-> 90, wide |-> FALSE, other |-> 0, big |-> TRUE],
  [heads |-> <<4, 190>>, dir |-> 240, wide |-> TRUE, other |-> 0, big |-> TRUE],
  [heads |-> <<4, 130>>, dir |-> 240, wide |-> FALSE, other |-> 20, big |-> FALSE],
  [heads |-> <<4, 180>>, dir |-> 210, wide |-> TRUE, other |-> 0, big |-> FALSE],
  [heads |-> <<4, 180>>, dir |-> 210, wide |-> TRUE, other |-> 50, big |-> FALSE]}

Least(a, b) == IF a < b THEN a ELSE b

\* cuts are the places where the volumes after the first begin.
VolumeOf(p, cuts) == Cardinality({c \in cuts : c <= p})
BeginOf(p, cuts) == Max({0} \union {c \in cuts : c <= p})

\* The record of an entry: every field of a big entry, or what does not fit,
\* goes to the zip64 field.
Record(p, plan, cuts) ==
  LET off == p - BeginOf(p, cuts)
      vol == VolumeOf(p, cuts)
      size == IF plan.big THEN <<Max32 + 7, Max32 + 5>> ELSE <<>>
      wide == size \o (IF off >= Max32 THEN <<off>> ELSE <<>>)
                   \o (IF plan.big THEN <<vol>> ELSE <<>>)
      r == [len |-> 0, usize |-> IF plan.big THEN Max32 ELSE 3,
            csize |-> IF plan.big THEN Max32 ELSE 2, lho |-> Least(off, Max32),
            disk |-> IF plan.big THEN Max16 ELSE vol, wide |-> wide, other |-> plan.other]
  IN [r EXCEPT !.len = Fixed + 5 + plan.other + HeldLen(r)]

Write(plan, cuts) ==
  LET records == [k \in DOMAIN plan.heads |-> Record(plan.heads[k], plan, cuts)]
      size == LengthOf(records)
      tailAt == plan.dir + size
      length == tailAt + (IF plan.wide THEN 76 ELSE 0) + 22
      last == Cardinality(cuts)
      n == Len(records)
      dirOff == plan.dir - BeginOf(plan.dir, cuts)
      Value(v, max) == IF plan.wide THEN max ELSE v
      Disk(v) == IF plan.wide /\ plan.big THEN Max16 ELSE v
  IN [sizes |-> [v \in 1..last + 1 |->
                   LET from == Max({0} \union {c \in cuts : Cardinality({d \in cuts : d <= c}) = v - 1})
                       to == Min({length} \union {c \in cuts : Cardinality({d \in cuts : d <= c}) = v})
                   IN to - from],
      ended |-> TRUE,
      end |-> [disk |-> Disk(last), cdDisk |-> Disk(VolumeOf(plan.dir, cuts)),
               here |-> Value(n, Max16), total |-> Value(n, Max16),
               size |-> Value(size, Max32), off |-> Value(dirOff, Max32)],
      tail |-> [here |-> plan.wide, at |-> tailAt, locDisk |-> VolumeOf(tailAt, cuts),
                locOff |-> tailAt - BeginOf(tailAt, cuts), disk |-> last,
                cdDisk |-> VolumeOf(plan.dir, cuts), total |-> n, size |-> size, off |-> dirOff],
      dirAt |-> plan.dir, records |-> records]

Places == {30, 50, 120, 200, 260}

\* The end record is in one piece in the last volume, and a 32 bit writer cuts
\* so that the directory's place in its volume fits; the extra fields fit as well.
Writable(plan, cuts) ==
  /\ \A c \in cuts : c <= Write(plan, {}).sizes[1] - 22
  /\ plan.wide \/ plan.dir - BeginOf(plan.dir, cuts) < Max32
  /\ \A k \in DOMAIN plan.heads :
       plan.other + HeldLen(Record(plan.heads[k], plan, cuts)) <= Max16

Cuts == kSubset(1, Places) \union kSubset(2, Places) \union kSubset(3, Places)

\* Where the records of a directory begin, and where the last ends.
SpotsOf(records) == [k \in 1 .. Len(records) + 1 |-> LengthOf(SubSeq(records, 1, k - 1))]

Intact == {[written |-> Write(pc[1], pc[2]), heads |-> pc[1].heads,
            spots |-> SpotsOf(Write(pc[1], pc[2]).records),
            starts |-> SetToSortSeq({0} \union pc[2], <),
            volumes |-> Cardinality(pc[2]) + 1, intact |-> TRUE] :
             pc \in {pc \in Plans \X Cuts : Writable(pc[1], pc[2])}}

\* What is not in the joined file as it was written.
Nowhere == 10000

SumOf(s) == FoldLeft(LAMBDA x, y : x + y, 0, s)

\* The volumes are now the first k, the strays, and the last.
Rearranged(a, k, strays) ==
  LET w == a.written
      first == SubSeq(w.sizes, 1, k)
      old == SumOf(Front(w.sizes))
      new == SumOf(first \o strays)
      Place(p, n) == IF p >= old THEN p - old + new
                     ELSE IF p + n <= SumOf(first) THEN p ELSE Nowhere
  IN [a EXCEPT !.intact = FALSE,
               !.written.sizes = first \o strays \o <<Last(w.sizes)>>,
               !.written.dirAt = Place(@, w.tail.size),
               !.written.tail.at = Place(@, 56)]

Lost(a) == {Rearranged(a, k, <<>>) : k \in 1 .. Len(a.written.sizes) - 2}
Stray(a) == {Rearranged(a, Len(a.written.sizes) - 1, <<30>>)}

Damaged(a) ==
  {[a EXCEPT !.intact = FALSE, !.written.ended = FALSE],
   [a EXCEPT !.intact = FALSE, !.written.end.total = @ - 1, !.written.tail.total = @ - 1],
   [a EXCEPT !.intact = FALSE, !.written.records[1].wide = <<>>],
   [a EXCEPT !.intact = FALSE, !.written.records[1].disk = Least(Len(a.written.sizes), Max16)],
   [a EXCEPT !.intact = FALSE, !.written.records[1].lho = Least(@ + 15, Max32)],
   [a EXCEPT !.intact = FALSE, !.written.records[1].lho = Least(@ + 60, Max32 - 1)],
   [a EXCEPT !.intact = FALSE, !.written.end.cdDisk = Len(a.written.sizes)],
   [a EXCEPT !.intact = FALSE, !.written.end.size = Max32, !.written.tail.size = @ + 60],
   [a EXCEPT !.intact = FALSE, !.written.tail.locDisk = Len(a.written.sizes)]}

Plain == {[a EXCEPT !.written.end.disk = 0, !.written.end.cdDisk = 0, !.intact = FALSE] :
            a \in {a \in Intact : ~a.written.tail.here}}

Archives == Intact \union UNION {Lost(a) \union Stray(a) \union Damaged(a) : a \in Intact}
            \union Plain
===========================================================================
