------------------------------- MODULE Trees -------------------------------
(***************************************************************************)
(* The readers of images and archives that are trees, side by side: one is *)
(* opened by the reader of its format, walked, and read in any order and   *)
(* as often as one likes.  A disk image becomes a raw image on the way,    *)
(* and that is opened by the readers of the volumes it may hold.  The      *)
(* readers share the five variables; `walk` is what each keeps besides.    *)
(***************************************************************************)
EXTENDS TreeFiles

TreesInit == Init \/ H!Init \/ D!Init \/ X!Init \/ M!Init \/ I!Init

TreesNext ==
  \/ file.format = "apfs" /\ Next
  \/ file.format = "hfs" /\ H!Next
  \/ file.format \in {"dmg", "hfs", "apfs"} /\ D!Next
  \/ file.format = "xar" /\ X!Next
  \/ file.format = "wim" /\ M!Next
  \/ file.format = "iso" /\ I!Next

\* open is one call: it waits for nothing but its own steps.
TreesSpec == TreesInit /\ [][TreesNext]_vars /\ WF_vars(TreesNext)

----------------------------------------------------------------------------
Errors == {"Corrupt", "Io", "Unsupported", "UnknownFormat"}

\* The answer of open, once it is there: what a volume that is only being tried
\* answers is not the disk image's answer.
Refused == status \in Errors /\ ~(file.format \in {"hfs", "apfs"} /\ file.inside)
Trying == file.format \in {"hfs", "apfs"} /\ file.inside /\ status # "open"

\* What open did not live to answer.
Aborted == status \in {"overflow", "panic"}

Member(k) == file.members[k]
Matches(e, m) ==
  /\ e.path = m.path /\ e.kind = m.kind
  /\ m.kind = "file" => e.size = Len(m.content)
  /\ m.kind = "link" => e.target = m.target

\* Whatever is whole opens, and its listing is its tree, every node once and in
\* the order of the walk: nothing that is private or unsafe, nothing twice, and
\* nothing under the path of another; with a disk image, the tree of the volume
\* its sectors make, wherever in them it begins and however they are packed.
ListsTheTree ==
  file.damage = "none" =>
    /\ ~Refused /\ ~Aborted
    /\ ~Trying => \A k \in DOMAIN listing : Matches(listing[k], Member(k))
    /\ status = "open" => Len(listing) = Len(file.members)

\* What cannot be walked to its end never comes open, listed in part: a tree
\* that is too deep or too wide, an APFS or WIM directory that leads back into
\* itself, a record, table or chunk that is missing or cut off, an encoding
\* nobody knows.  (An ISO directory that leads back is listed and ends there.)
DamageIsTold == file.damage = "told" => status # "open"

\* A stored xar member of which the heap has lost something: the reader copies
\* what is left and says it went well.
LeftToTheHeap(k) ==
  /\ file.format = "xar" /\ listing[k].item # <<>>
  /\ listing[k].item[1].style \in X!Stored
  /\ X!HeapAt + listing[k].item[1].offset + listing[k].item[1].length > file.len

\* A read that says it went well has given the member's own bytes, all of them
\* and no others, through every layer they were packed in.
TreeOkIsContent ==
  \A k \in DOMAIN answers :
    answers[k].said = "ok" /\ listing[k].kind = "file" /\ ~LeftToTheHeap(k) =>
      answers[k].given = Member(k).content

----------------------------------------------------------------------------
\* The directories of a WIM, level by level: the dentries of the lists that
\* begin at some of them, and those that are below them.
Live(f, dents) == {at \in dents : There(f, at) /\ ~Dents(f)[at].last}

Lists(f, first) ==
  LET upTo[n \in 0 .. Cardinality(DOMAIN Dents(f))] ==
        IF n = 0 THEN first
        ELSE upTo[n - 1] \union {Dents(f)[at].next : at \in Live(f, upTo[n - 1])}
  IN upTo[Cardinality(DOMAIN Dents(f))]

AtDepth(f) ==
  LET level[n \in Nat] ==
        IF n = 1 THEN Lists(f, {Under(f, 0)} \ {0})
        ELSE Lists(f, {Dents(f)[at].below : at \in Live(f, level[n - 1])} \ {0})
  IN level

\* A WIM whose directories are more, one in another, than the stack has room for
\* calls: one that leads back into itself always is.  The code has no guard
\* against it, neither a depth nor a set of what it has visited.
DeeperThanStack(f) == f.format = "wim" /\ AtDepth(f)[StackFrames + 1] # {}

\* A WIM that says its resources are cut into chunks of no size.
ChunksOfNothing(f) == f.format = "wim" /\ f.chunk = 0

\* Whatever is opened, open answers: no volume is tried for ever, and no tree is
\* walked for ever.  The two that are excepted end the call in another way: on
\* the first the recursion of walk_children overflows the stack, which ends the
\* program, on the second decode_chunked_resource divides by zero, a panic.
OpenAnswers ==
  <>(\/ status = "open" \/ Refused
     \/ status = "overflow" /\ DeeperThanStack(file)
     \/ status = "panic" /\ ChunksOfNothing(file))
===========================================================================
