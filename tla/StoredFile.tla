---------------------------- MODULE StoredFile ----------------------------
(***************************************************************************)
(* A file an archive reader holds open, and the two ways the readers get   *)
(* at it: by position and length.  Only the bytes that are not zero are    *)
(* kept, so that a file is as long as it needs to be for its lengths to be *)
(* the format's own.                                                       *)
(***************************************************************************)
EXTENDS Integers, Sequences, FiniteSets

\* A partial function from positions, and a record of at least these fields.
Sparse(f, S) ==
  f = [p \in DOMAIN f |-> f[p]] /\ DOMAIN f \subseteq Nat /\ \A p \in DOMAIN f : f[p] \in S

HasFields(f, names) == f = [x \in DOMAIN f |-> f[x]] /\ names \subseteq DOMAIN f

ByteAt(f, p) == IF p \in DOMAIN f.byte THEN f.byte[p] ELSE 0

\* The n bytes from position p on.
Bytes(f, p, n) == [k \in 1..n |-> ByteAt(f, p + k - 1)]

\* How many bytes io::copy moves out of a `take` of n at position p: the file
\* may be shorter than it was when the length was checked.
Reach(f, p, n) == IF p + n <= f.len THEN n
                  ELSE IF f.len > p THEN f.len - p ELSE 0

\* What of a sequence is in the set S, in order.
Among(s, S) ==
  LET kept[n \in 0 .. Len(s)] ==
        IF n = 0 THEN <<>>
        ELSE IF s[n] \in S THEN Append(kept[n - 1], s[n])
        ELSE kept[n - 1]
  IN kept[Len(s)]

\* trim_nuls: without the NULs names and link targets are padded with.
TrimNuls(s) ==
  SubSeq(s, 1, Cardinality({k \in DOMAIN s : \E j \in k .. Len(s) : s[j] # 0}))

Answer(said, given) == [said |-> said, given |-> given]
NotRead == Answer("", <<>>)
Answers ==
  [said : {"", "ok", "Corrupt", "Io", "Unsupported", "Encrypted", "WrongPassword"},
   given : Seq(Nat)]

\* A stored body is read where it lies: seek, a capped copy, and an error when
\* less came than the listing says.
ReadStored(f, at, size) ==
  LET given == Bytes(f, at, Reach(f, at, size))
  IN Answer(IF Len(given) = size THEN "ok" ELSE "Corrupt", given)
===========================================================================
