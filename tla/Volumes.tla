------------------------------ MODULE Volumes ------------------------------
(***************************************************************************)
(* volume.rs: the volumes name.001, name.002, ... of a set are listed once, *)
(* by looking for each in turn, and then read one after another as a single *)
(* stream by ConcatReader, which opens each volume only when it gets there. *)
(* Between any two steps another process may take a volume away or bring   *)
(* one, so what was listed need not be what is read.                       *)
(***************************************************************************)
EXTENDS Integers, Sequences

CONSTANTS
  Last,       \* no volume has a number above this one
  Length,     \* the length of each volume
  OutSizes,   \* the lengths of the slices callers read into
  Moves       \* how often another process changes the directory

Numbers == 1..Last

ASSUME VolumesAssumption ==
  /\ Last \in Nat
  /\ Length \in [Numbers -> Nat]
  /\ OutSizes \subseteq Nat
  /\ Moves \in Nat

VARIABLES
  present,    \* the volumes that are in the directory now
  moved,      \* how often that has changed
  phase,      \* "listing", "reading" or "missing" (MissingVolume)
  files,      \* ConcatReader.files: the numbers listed, in order
  idx,        \* how many of them have been opened
  current,    \* the open volume and how far it is read, or Closed
  busy, room, \* a read is in progress, with a slice of this length
  delivered,  \* what the reads have returned
  said        \* the answer of the last read: "none", "data", "eof", "error"

reader == <<idx, current, busy, room, delivered, said>>
vars == <<present, moved, phase, files, reader>>

Closed == [vol |-> 0, at |-> 0]

Init ==
  /\ present \in SUBSET Numbers
  /\ moved = 0
  /\ phase = "listing"
  /\ files = <<>> /\ idx = 0 /\ current = Closed
  /\ busy = FALSE /\ room = 0
  /\ delivered = <<>> /\ said = "none"

----------------------------------------------------------------------------
\* Another process: a volume appears or goes.  An open one stays readable.
Move ==
  /\ moved < Moves
  /\ \E v \in Numbers :
       present' = IF v \in present THEN present \ {v} ELSE present \union {v}
  /\ moved' = moved + 1
  /\ UNCHANGED <<phase, files, reader>>

\* volume_members looks for the numbers in turn.
Candidate == Len(files) + 1

FindVolume ==
  /\ phase = "listing"
  /\ Candidate \in present
  /\ files' = Append(files, Candidate)
  /\ UNCHANGED <<present, moved, phase, reader>>

\* The first number that is not there ends the set; an empty set is an error.
EndList ==
  /\ phase = "listing"
  /\ Candidate \notin present
  /\ phase' = IF files = <<>> THEN "missing" ELSE "reading"
  /\ UNCHANGED <<present, moved, files, reader>>

----------------------------------------------------------------------------
\* ConcatReader::read(buf), called by what copies the stream.
Read(n) ==
  /\ phase = "reading" /\ ~busy
  /\ busy' = TRUE /\ room' = n
  /\ UNCHANGED <<present, moved, phase, files, idx, current, delivered, said>>

Return(answer) == busy' = FALSE /\ said' = answer

\* Slip: the last volume is never opened.
ReadEndEarly ==
  /\ busy /\ current = Closed /\ idx + 1 >= Len(files)
  /\ Return("eof")
  /\ UNCHANGED <<present, moved, phase, files, idx, current, room, delivered>>

\* The last volume has given its last: the answer is 0.
ReadEnd ==
  /\ busy /\ current = Closed /\ idx = Len(files)
  /\ Return("eof")
  /\ UNCHANGED <<present, moved, phase, files, idx, current, room, delivered>>

\* The next volume is opened only now.
OpenNext ==
  /\ busy /\ current = Closed /\ idx < Len(files)
  /\ files[idx + 1] \in present
  /\ current' = [vol |-> files[idx + 1], at |-> 0]
  /\ idx' = idx + 1
  /\ UNCHANGED <<present, moved, phase, files, busy, room, delivered, said>>

\* Slip: a volume that cannot be opened counts as read.
OpenFailsPast ==
  /\ busy /\ current = Closed /\ idx < Len(files)
  /\ files[idx + 1] \notin present
  /\ idx' = idx + 1
  /\ Return("error")
  /\ UNCHANGED <<present, moved, phase, files, current, room, delivered>>

\* The volume is gone: the call fails, and the next one tries it again.
OpenFails ==
  /\ busy /\ current = Closed /\ idx < Len(files)
  /\ files[idx + 1] \notin present
  /\ Return("error")
  /\ UNCHANGED <<present, moved, phase, files, idx, current, room, delivered>>

Parts(v, from, to) == [k \in 1 .. to - from |-> <<v, from + k>>]

\* The file answers with as much as it likes, up to the slice.
ReadSome ==
  /\ busy /\ current # Closed
  /\ \E to \in current.at + 1 .. Length[current.vol] :
       /\ to - current.at <= room
       /\ delivered' = delivered \o Parts(current.vol, current.at, to)
       /\ current' = [current EXCEPT !.at = to]
  /\ Return("data")
  /\ UNCHANGED <<present, moved, phase, files, idx, room>>

\* The file fails: the call does, and the next one reads on in the same volume.
ReadFails ==
  /\ busy /\ current # Closed
  /\ Return("error")
  /\ UNCHANGED <<present, moved, phase, files, idx, current, room, delivered>>

\* Slip: the loop goes on with the volume that answered 0.
KeepVolume ==
  /\ busy /\ current # Closed
  /\ current.at = Length[current.vol] \/ room = 0
  /\ UNCHANGED vars

\* The file answers 0, at its end or because the slice is empty: it is dropped
\* and the loop goes on with the next.
DropVolume ==
  /\ busy /\ current # Closed
  /\ current.at = Length[current.vol] \/ room = 0
  /\ current' = Closed
  /\ UNCHANGED <<present, moved, phase, files, idx, busy, room, delivered, said>>

----------------------------------------------------------------------------
Step == FindVolume \/ EndList \/ ReadEnd \/ OpenNext \/ OpenFails \/ ReadSome \/ DropVolume

Next == Move \/ (\E n \in OutSizes : Read(n)) \/ ReadFails \/ Step

Spec == Init /\ [][Next]_vars

\* Listing and reading run on the caller's thread; that a file fails is not counted on.
FairSpec == Spec /\ WF_vars(Step)

----------------------------------------------------------------------------
\* The variables keep their types and the reader stays among the volumes
\* listed (ConcatReader).
TypeOK ==
  /\ present \subseteq Numbers
  /\ moved \in 0..Moves
  /\ phase \in {"listing", "reading", "missing"}
  /\ files \in Seq(Numbers) /\ idx \in 0..Len(files)
  /\ current \in [vol : 0..Last, at : Nat]
  /\ current = Closed \/ (idx > 0 /\ current.vol = files[idx]
                          /\ current.at <= Length[current.vol])
  /\ busy \in BOOLEAN /\ room \in OutSizes \union {0}
  /\ delivered \in Seq(Numbers \X Nat)
  /\ said \in {"none", "data", "eof", "error"}

\* q comes right after p in the stream of all volumes.
Follows(p, q) ==
  \/ q = <<p[1], p[2] + 1>>
  \/ /\ p[2] = Length[p[1]] /\ q[2] = 1 /\ p[1] < q[1]
     /\ \A v \in p[1] + 1 .. q[1] - 1 : Length[v] = 0

\* What is read is read in order and without a gap, whatever volumes come and
\* go meanwhile and however often a failed read is tried again
\* (ConcatReader::read).
NothingIsSkipped ==
  /\ delivered # <<>> => delivered[1][2] = 1
                         /\ \A v \in 1 .. delivered[1][1] - 1 : Length[v] = 0
  /\ \A k \in 1 .. Len(delivered) - 1 : Follows(delivered[k], delivered[k + 1])

\* The last of every volume listed has been delivered.
Complete ==
  \A i \in 1..Len(files) : Length[files[i]] > 0 =>
    \E k \in 1..Len(delivered) : delivered[k] = <<files[i], Length[files[i]]>>

\* An end of file is the end of the last volume listed, and in a directory that
\* nobody touched the listed are all that follow each other from 001
\* (volume_members, ConcatReader::read).
EndIsTheEnd ==
  said = "eof" =>
    /\ Complete
    /\ moved = 0 => /\ \A i \in 1..Len(files) : files[i] = i /\ i \in present
                    /\ Len(files) + 1 \notin present

\* A read returns: the loop over empty and dropped volumes ends.
ReadsReturn == busy ~> ~busy
============================================================================
