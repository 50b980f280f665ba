----------------------------- MODULE OpenProofs -----------------------------
(***************************************************************************)
(* Theorems about Open, for every set of files and of temp files.          *)
(*                                                                         *)
(* The invariant is about ownership: every temp file on disk belongs to    *)
(* exactly one call in progress, or to the reader being handed on; a call  *)
(* works on a file that a call below it owns, or on the user's.            *)
(*                                                                         *)
(* A second invariant follows the call on the user's file from the table   *)
(* of handlers to the reader: which handler it is, what that handler must  *)
(* have seen in the file, and what it makes of a compressed stream.        *)
(*                                                                         *)
(* A third says of every call, in whatever depth, that it is made on what  *)
(* it can open, if the user's file is whole and no envelope is below it.   *)
(***************************************************************************)
EXTENDS Open, TLAPS, SequenceTheorems, WellFoundedInduction

\* A frame and a reader have their fields.
FrameFields == {"fn", "file", "stage", "own", "scratch", "called", "next", "reads"}
ReaderFields == {"format", "leaf", "reads", "holds", "entry"}
IsFrame(f) == f = [x \in FrameFields |-> f[x]]
IsReader(r) == r = [x \in ReaderFields |-> r[x]]

\* The temp files a call holds.
Held(f) == f.own \union f.scratch

\* What a call knows of its own files: it opens one it owns or the one it was given;
\* a member still to be decompressed has not been read.
FrameInv(f) ==
  /\ IsFrame(f)
  /\ f.own \cap f.scratch = {}
  /\ f.called \in f.own \union {f.file}
  /\ f.stage = "new" => Held(f) = {} /\ f.called = f.file
  /\ f.stage \in {"made", "copied"} => f.called \in f.own
  /\ f.reads \subseteq f.own \union {f.file, 0}
  /\ f.stage = "copied" => f.called \notin f.reads

\* A stack s of n calls, the temp files on disk and those handed on: each file has
\* one owner, and the file of a call is owned below it.
Owned(s, n, disk, given) ==
  /\ given \subseteq disk
  /\ \A t \in disk : t \in given \/ \E k \in 1..n : t \in Held(s[k])
  /\ \A k \in 1..n : /\ FrameInv(s[k])
                     /\ Held(s[k]) \subseteq disk
                     /\ Held(s[k]) \cap given = {}
                     /\ \A j \in 1..n : j # k => Held(s[j]) \cap Held(s[k]) = {}
                     /\ s[k].file = 0 \/ \E j \in 1 .. k - 1 : s[k].file \in s[j].own
                     /\ k = 1 => s[k].file = 0
                     /\ k < n => s[k + 1].file = s[k].called

Given == IF returned = "ok" /\ status # "closed" THEN result.holds ELSE {}

\* The reader handed on reads what it holds, what the call above it opened, or the
\* user's file.
ReadInv ==
  returned = "ok" =>
    result.reads \subseteq result.holds \union {0} \union {Top.called : k \in DOMAIN calls}

StatusInv ==
  /\ status # "opening" => calls = <<>>
  /\ status = "open" => returned = "ok"
  /\ status = "failed" => returned # "ok"
  /\ status \in {"opening", "open", "failed", "closed"}

IndInv ==
  /\ \E S : calls \in Seq(S)
  /\ IsReader(result)
  /\ Owned(calls, Len(calls), DOMAIN temps, Given)
  /\ ReadInv
  /\ StatusInv

----------------------------------------------------------------------------
(***************************************************************************)
(* The stack as a sequence: its top replaced, taken away, pushed on.       *)
(***************************************************************************)
LEMMA TopRemoved ==
  ASSUME NEW S, NEW s \in Seq(S), s # <<>>, NEW w, w = SubSeq(s, 1, Len(s) - 1)
  PROVE  /\ w \in Seq(S) /\ Len(w) = Len(s) - 1 /\ Len(s) \in Nat \ {0}
         /\ \A k \in 1 .. Len(s) - 1 : w[k] = s[k]
<1>1. Len(s) \in Nat \ {0} /\ \A i \in 1 .. Len(s) - 1 : s[i] \in S
  OBVIOUS
<1>2. PICK m \in Nat : m = Len(s) - 1
  BY <1>1
<1>3. w = SubSeq(s, 1, m)
  BY <1>2
<1>4. /\ w \in Seq(S) /\ Len(w) = IF 1 <= m THEN m - 1 + 1 ELSE 0
      /\ \A i \in 1 .. m - 1 + 1 : w[i] = s[1 + i - 1]
  BY <1>1, <1>2, <1>3, SubSeqProperties
<1>5. Len(w) = m /\ \A i \in 1..m : w[i] = s[i]
  <2>1. m - 1 + 1 = m /\ \A i \in 1..m : 1 + i - 1 = i
    BY <1>2
  <2> QED BY <1>2, <1>4, <2>1
<1> QED BY <1>1, <1>2, <1>4, <1>5

LEMMA TopReplaced ==
  ASSUME NEW S, NEW s \in Seq(S), s # <<>>, NEW f,
         NEW w, w = Append(SubSeq(s, 1, Len(s) - 1), f)
  PROVE  /\ w \in Seq(S \union {f}) /\ Len(w) = Len(s) /\ w[Len(s)] = f
         /\ \A k \in 1 .. Len(s) - 1 : w[k] = s[k]
         /\ Len(s) \in Nat \ {0}
<1> DEFINE b == SubSeq(s, 1, Len(s) - 1)
<1>1. /\ b \in Seq(S) /\ Len(b) = Len(s) - 1 /\ Len(s) \in Nat \ {0}
      /\ \A k \in 1 .. Len(s) - 1 : b[k] = s[k]
  BY TopRemoved
<1>2. w = Append(b, f)
  OBVIOUS
<1> HIDE DEF b
<1>3. b \in Seq(S \union {f})
  BY <1>1
<1> QED BY <1>1, <1>2, <1>3

\* What the fields of a frame and of a reader are after the changes the actions make.
LEMMA NewFrame ==
  ASSUME NEW fn, NEW file
  PROVE  /\ IsFrame(Frame(fn, file))
         /\ Frame(fn, file).file = file /\ Frame(fn, file).called = file
         /\ Frame(fn, file).stage = "new" /\ Frame(fn, file).reads = {}
         /\ Frame(fn, file).own = {} /\ Frame(fn, file).scratch = {}
  BY DEF IsFrame, FrameFields, Frame

LEMMA NewReader ==
  ASSUME NEW format, NEW leaf, NEW reads, NEW holds, NEW entry
  PROVE  LET r == Reader(format, leaf, reads, holds, entry)
         IN IsReader(r) /\ r.reads = reads /\ r.holds = holds
  BY DEF IsReader, ReaderFields, Reader

LEMMA StageSet ==
  ASSUME NEW f, IsFrame(f), NEW s, NEW e, e = [f EXCEPT !.stage = s]
  PROVE  /\ IsFrame(e) /\ e.stage = s /\ e.file = f.file /\ e.called = f.called
         /\ e.own = f.own /\ e.scratch = f.scratch /\ e.reads = f.reads
  BY DEF IsFrame, FrameFields

----------------------------------------------------------------------------
(***************************************************************************)
(* What becomes of the ownership when the top of the stack changes, calls  *)
(* another or returns.                                                     *)
(***************************************************************************)
\* The top call changes, takes in what was handed to it, or drops some of its files.
LEMMA OwnedChanged ==
  ASSUME NEW s, NEW n \in Nat \ {0}, NEW disk, NEW given, Owned(s, n, disk, given),
         NEW f, FrameInv(f), f.file = s[n].file,
         \A k \in 1 .. n - 1 : Held(f) \cap Held(s[k]) = {},
         NEW w, w[n] = f, \A k \in 1 .. n - 1 : w[k] = s[k],
         NEW disk2, disk2 = (disk \ (Held(s[n]) \union given)) \union Held(f)
  PROVE  Owned(w, n, disk2, {})
<1>1. \A t \in disk2 : \E k \in 1..n : t \in Held(w[k])
  <2> SUFFICES ASSUME NEW t \in disk2 PROVE \E k \in 1..n : t \in Held(w[k])
    OBVIOUS
  <2>1. CASE t \in Held(f)
    BY <2>1
  <2>2. CASE t \notin Held(f)
    <3>1. PICK k \in 1..n : t \in Held(s[k])
      BY <2>2 DEF Owned
    <3>2. k \in 1 .. n - 1
      BY <2>2, <3>1
    <3> QED BY <3>1, <3>2
  <2> QED BY <2>1, <2>2
<1>2. ASSUME NEW k \in 1 .. n - 1
      PROVE  /\ FrameInv(w[k]) /\ Held(w[k]) \subseteq disk2
             /\ \A j \in 1..n : j # k => Held(w[j]) \cap Held(w[k]) = {}
             /\ w[k].file = 0 \/ \E j \in 1 .. k - 1 : w[k].file \in w[j].own
             /\ k = 1 => w[k].file = 0
             /\ w[k + 1].file = w[k].called
  <2>1. k \in 1..n /\ n \in 1..n /\ k # n /\ k < n /\ w[k] = s[k]
        /\ w[k + 1].file = s[k + 1].file
        /\ \A j \in 1 .. k - 1 : w[j] = s[j]
    BY <1>2
  <2>2. /\ FrameInv(s[k]) /\ Held(s[k]) \subseteq disk /\ Held(s[k]) \cap given = {}
        /\ Held(s[n]) \cap Held(s[k]) = {}
        /\ s[k].file = 0 \/ \E j \in 1 .. k - 1 : s[k].file \in s[j].own
        /\ k = 1 => s[k].file = 0
        /\ s[k + 1].file = s[k].called
    BY <2>1 DEF Owned
  <2>3. ASSUME NEW j \in 1..n, j # k PROVE Held(w[j]) \cap Held(w[k]) = {}
    <3>1. CASE j = n
      BY <2>1, <3>1
    <3>2. CASE j # n
      <4>1. w[j] = s[j]
        BY <3>2
      <4> QED BY <2>1, <2>3, <4>1 DEF Owned
    <3> QED BY <3>1, <3>2
  <2> QED BY <2>1, <2>2, <2>3
<1>3. /\ FrameInv(w[n]) /\ Held(w[n]) \subseteq disk2
      /\ \A j \in 1..n : j # n => Held(w[j]) \cap Held(w[n]) = {}
      /\ w[n].file = 0 \/ \E j \in 1 .. n - 1 : w[n].file \in w[j].own
      /\ n = 1 => w[n].file = 0
  <2>1. /\ s[n].file = 0 \/ \E j \in 1 .. n - 1 : s[n].file \in s[j].own
        /\ n = 1 => s[n].file = 0
    BY DEF Owned
  <2>2. \A j \in 1..n : j # n => j \in 1 .. n - 1
    OBVIOUS
  <2> QED BY <2>1, <2>2
<1>4. ASSUME NEW k \in 1..n
      PROVE  /\ FrameInv(w[k]) /\ Held(w[k]) \subseteq disk2 /\ Held(w[k]) \cap {} = {}
             /\ \A j \in 1..n : j # k => Held(w[j]) \cap Held(w[k]) = {}
             /\ w[k].file = 0 \/ \E j \in 1 .. k - 1 : w[k].file \in w[j].own
             /\ k = 1 => w[k].file = 0
             /\ k < n => w[k + 1].file = w[k].called
  <2>1. CASE k = n
    BY <1>3, <2>1
  <2>2. CASE k # n
    <3>1. k \in 1 .. n - 1
      BY <2>2
    <3> QED BY <1>2, <3>1
  <2> QED BY <2>1, <2>2
<1> QED BY <1>1, <1>4 DEF Owned

\* The top call calls another, on the file it opened.
LEMMA OwnedPushed ==
  ASSUME NEW s, NEW n \in Nat \ {0}, NEW disk, Owned(s, n, disk, {}),
         NEW f, FrameInv(f), f.file = s[n].called, Held(f) = {},
         NEW w, w[n + 1] = f, \A k \in 1..n : w[k] = s[k]
  PROVE  Owned(w, n + 1, disk, {})
<1>1. \A k \in 1 .. n + 1 : k = n + 1 \/ k \in 1..n
  OBVIOUS
<1>2. \A t \in disk : \E k \in 1 .. n + 1 : t \in Held(w[k])
  <2> SUFFICES ASSUME NEW t \in disk PROVE \E k \in 1 .. n + 1 : t \in Held(w[k])
    OBVIOUS
  <2>1. PICK k \in 1..n : t \in Held(s[k])
    BY DEF Owned
  <2>2. k \in 1 .. n + 1 /\ w[k] = s[k]
    OBVIOUS
  <2> QED BY <2>1, <2>2
<1>3. ASSUME NEW k \in 1..n
      PROVE  /\ FrameInv(w[k]) /\ Held(w[k]) \subseteq disk
             /\ \A j \in 1 .. n + 1 : j # k => Held(w[j]) \cap Held(w[k]) = {}
             /\ w[k].file = 0 \/ \E j \in 1 .. k - 1 : w[k].file \in w[j].own
             /\ k = 1 => w[k].file = 0
             /\ w[k + 1].file = w[k].called
  <2>1. /\ FrameInv(s[k]) /\ Held(s[k]) \subseteq disk
        /\ s[k].file = 0 \/ \E j \in 1 .. k - 1 : s[k].file \in s[j].own
        /\ k = 1 => s[k].file = 0
        /\ k < n => s[k + 1].file = s[k].called
        /\ \A j \in 1..n : j # k => Held(s[j]) \cap Held(s[k]) = {}
    BY DEF Owned
  <2>2. w[k + 1].file = w[k].called
    <3>1. CASE k = n
      BY <3>1
    <3>2. CASE k # n
      <4>1. k < n /\ k + 1 \in 1..n
        BY <3>2
      <4> QED BY <2>1, <4>1
    <3> QED BY <3>1, <3>2
  <2>3. w[k].file = 0 \/ \E j \in 1 .. k - 1 : w[k].file \in w[j].own
    <3>1. \A j \in 1 .. k - 1 : w[j] = s[j]
      OBVIOUS
    <3> QED BY <2>1, <3>1
  <2>4. \A j \in 1 .. n + 1 : j # k => Held(w[j]) \cap Held(w[k]) = {}
    BY <1>1, <2>1
  <2> QED BY <2>1, <2>2, <2>3, <2>4
<1>4. f.file = 0 \/ \E j \in 1..n : f.file \in w[j].own
  <2>1. /\ s[n].called \in s[n].own \union {s[n].file}
        /\ s[n].file = 0 \/ \E j \in 1 .. n - 1 : s[n].file \in s[j].own
    BY DEF Owned, FrameInv
  <2>2. \A j \in 1 .. n - 1 : w[j] = s[j] /\ j \in 1..n
    OBVIOUS
  <2>3. n \in 1..n /\ w[n] = s[n]
    OBVIOUS
  <2> QED BY <2>1, <2>2, <2>3
<1>5. ASSUME NEW k \in 1 .. n + 1
      PROVE  /\ FrameInv(w[k]) /\ Held(w[k]) \subseteq disk /\ Held(w[k]) \cap {} = {}
             /\ \A j \in 1 .. n + 1 : j # k => Held(w[j]) \cap Held(w[k]) = {}
             /\ w[k].file = 0 \/ \E j \in 1 .. k - 1 : w[k].file \in w[j].own
             /\ k = 1 => w[k].file = 0
             /\ k < n + 1 => w[k + 1].file = w[k].called
  <2>1. CASE k = n + 1
    <3>1. n + 1 - 1 = n /\ n + 1 # 1
      OBVIOUS
    <3> QED BY <1>4, <2>1, <3>1
  <2>2. CASE k \in 1..n
    BY <1>3, <2>2
  <2> QED BY <1>1, <2>1, <2>2
<1> QED BY <1>2, <1>5 DEF Owned

\* The top call returns and hands on some of what it holds or was given.
LEMMA OwnedPopped ==
  ASSUME NEW s, NEW n \in Nat \ {0}, NEW disk, NEW given, Owned(s, n, disk, given),
         NEW w, \A k \in 1 .. n - 1 : w[k] = s[k],
         NEW H, H \subseteq Held(s[n]) \union given,
         NEW disk2, disk2 = (disk \ (Held(s[n]) \union given)) \union H
  PROVE  Owned(w, n - 1, disk2, H)
<1>1. \A t \in disk2 : t \in H \/ \E k \in 1 .. n - 1 : t \in Held(w[k])
  <2> SUFFICES ASSUME NEW t \in disk2, t \notin H PROVE \E k \in 1 .. n - 1 : t \in Held(w[k])
    OBVIOUS
  <2>1. PICK k \in 1..n : t \in Held(s[k])
    BY DEF Owned
  <2>2. k \in 1 .. n - 1
    BY <2>1
  <2> QED BY <2>1, <2>2
<1>2. ASSUME NEW k \in 1 .. n - 1
      PROVE  /\ FrameInv(w[k]) /\ Held(w[k]) \subseteq disk2 /\ Held(w[k]) \cap H = {}
             /\ \A j \in 1 .. n - 1 : j # k => Held(w[j]) \cap Held(w[k]) = {}
             /\ w[k].file = 0 \/ \E j \in 1 .. k - 1 : w[k].file \in w[j].own
             /\ k = 1 => w[k].file = 0
             /\ k < n - 1 => w[k + 1].file = w[k].called
  <2>1. k \in 1..n /\ n \in 1..n /\ k # n /\ k < n /\ w[k] = s[k]
        /\ \A j \in 1 .. k - 1 : w[j] = s[j]
    BY <1>2
  <2>2. /\ FrameInv(s[k]) /\ Held(s[k]) \subseteq disk /\ Held(s[k]) \cap given = {}
        /\ Held(s[n]) \cap Held(s[k]) = {}
        /\ \A j \in 1..n : j # k => Held(s[j]) \cap Held(s[k]) = {}
        /\ s[k].file = 0 \/ \E j \in 1 .. k - 1 : s[k].file \in s[j].own
        /\ k = 1 => s[k].file = 0
        /\ s[k + 1].file = s[k].called
    BY <2>1 DEF Owned
  <2>3. \A j \in 1 .. n - 1 : j # k => Held(w[j]) \cap Held(w[k]) = {}
    BY <2>1, <2>2
  <2>4. k < n - 1 => w[k + 1] = s[k + 1]
    OBVIOUS
  <2> QED BY <2>1, <2>2, <2>3, <2>4
<1> QED BY <1>1, <1>2 DEF Owned

----------------------------------------------------------------------------
(***************************************************************************)
(* What the steps of a call do to the state.                               *)
(***************************************************************************)
\* While a call is in progress the reader is not handed out, and the top call is one.
LEMMA TopFacts ==
  ASSUME IndInv, calls # <<>>
  PROVE  /\ Len(calls) \in Nat \ {0} /\ Top = calls[Len(calls)] /\ status = "opening"
         /\ FrameInv(Top) /\ IsFrame(Top) /\ Held(Top) \subseteq DOMAIN temps
         /\ Top.file \in DOMAIN temps \union {0}
         /\ \A k \in 1 .. Len(calls) - 1 : Held(calls[k]) \subseteq DOMAIN temps
                                          /\ Held(Top) \cap Held(calls[k]) = {}
         /\ Held(Top) \cap Given = {} /\ Given \subseteq DOMAIN temps
         /\ \A k \in 1 .. Len(calls) - 1 : Held(calls[k]) \cap Given = {}
         /\ returned = "ok" => Given = result.holds
                               /\ result.reads \subseteq result.holds \union {0, Top.called}
         /\ returned # "ok" => Given = {}
<1>1. PICK S : calls \in Seq(S)
  BY DEF IndInv
<1>2. Len(calls) \in Nat \ {0} /\ DOMAIN calls = 1 .. Len(calls)
  BY <1>1
<1>3. PICK n \in Nat \ {0} : n = Len(calls)
  BY <1>2
<1>4. n \in 1..n /\ \A k \in 1 .. n - 1 : k \in 1..n /\ k # n
  OBVIOUS
<1>5. Owned(calls, n, DOMAIN temps, Given) /\ Top = calls[n] /\ status = "opening"
  BY <1>3 DEF IndInv, Top, StatusInv
<1>6. /\ FrameInv(Top) /\ IsFrame(Top) /\ Held(Top) \subseteq DOMAIN temps
      /\ Held(Top) \cap Given = {} /\ Given \subseteq DOMAIN temps
  BY <1>4, <1>5 DEF Owned, FrameInv
<1>7. \A k \in 1 .. n - 1 : /\ Held(calls[k]) \subseteq DOMAIN temps
                            /\ Held(Top) \cap Held(calls[k]) = {}
                            /\ Held(calls[k]) \cap Given = {}
  BY <1>4, <1>5 DEF Owned
<1>8. Top.file \in DOMAIN temps \union {0}
  <2>1. Top.file = 0 \/ \E j \in 1 .. n - 1 : Top.file \in calls[j].own
    BY <1>4, <1>5 DEF Owned
  <2> QED BY <1>7, <2>1 DEF Held
<1>9. /\ returned = "ok" => Given = result.holds
                            /\ result.reads \subseteq result.holds \union {0, Top.called}
      /\ returned # "ok" => Given = {}
  BY <1>5 DEF IndInv, ReadInv, Given
<1> QED BY <1>2, <1>3, <1>5, <1>6, <1>7, <1>8, <1>9

\* The top call goes on.
LEMMA TopChanges ==
  ASSUME IndInv, calls # <<>>, NEW f, FrameInv(f), calls' = WithTop(f), f.file = Top.file,
         \A k \in 1 .. Len(calls) - 1 : Held(f) \cap Held(calls[k]) = {},
         DOMAIN temps' = (DOMAIN temps \ (Held(Top) \union Given)) \union Held(f),
         returned' = "none", result' = result, status' = status
  PROVE  IndInv'
<1>1. PICK n \in Nat \ {0} : n = Len(calls)
  BY TopFacts
<1>2. PICK S : calls \in Seq(S)
  BY DEF IndInv
<1>3. Top = calls[n] /\ status = "opening"
  BY <1>1, TopFacts
<1>4. calls' = Append(SubSeq(calls, 1, Len(calls) - 1), f)
  BY DEF WithTop, Below
<1>5. /\ calls' \in Seq(S \union {f}) /\ Len(calls') = n /\ calls'[n] = f
      /\ \A k \in 1 .. n - 1 : calls'[k] = calls[k]
  BY <1>1, <1>2, <1>4, TopReplaced
<1>6. Owned(calls, n, DOMAIN temps, Given)
  BY <1>1 DEF IndInv
<1>7. Owned(calls', n, DOMAIN temps', {})
  <2>1. /\ \A k \in 1 .. n - 1 : Held(f) \cap Held(calls[k]) = {}
        /\ f.file = calls[n].file
        /\ DOMAIN temps' = (DOMAIN temps \ (Held(calls[n]) \union Given)) \union Held(f)
    BY <1>1, <1>3
  <2> QED BY <1>5, <1>6, <2>1, OwnedChanged
<1>8. Given' = {} /\ ReadInv' /\ StatusInv' /\ IsReader(result)'
  BY <1>3 DEF Given, ReadInv, StatusInv, IndInv, IsReader
<1> QED BY <1>5, <1>7, <1>8 DEF IndInv

\* The top call calls another.
LEMMA CallKeeps ==
  ASSUME IndInv, calls # <<>>, returned = "none", NEW fn, Call(fn)
  PROVE  IndInv'
<1> DEFINE e == [Top EXCEPT !.stage = "called"]  f == Frame(fn, Top.called)
<1>1. PICK n \in Nat \ {0} : n = Len(calls)
  BY TopFacts
<1>2. PICK S : calls \in Seq(S)
  BY DEF IndInv
<1>3. /\ Top = calls[n] /\ status = "opening" /\ FrameInv(Top) /\ IsFrame(Top) /\ Given = {}
      /\ \A k \in 1 .. n - 1 : Held(Top) \cap Held(calls[k]) = {}
      /\ Held(Top) \subseteq DOMAIN temps
  BY <1>1, TopFacts
<1>4. /\ IsFrame(e) /\ e.stage = "called" /\ e.file = Top.file /\ e.called = Top.called
      /\ e.own = Top.own /\ e.scratch = Top.scratch /\ e.reads = Top.reads
  BY <1>3, StageSet
<1>5. /\ IsFrame(f) /\ f.file = Top.called /\ f.called = Top.called /\ f.stage = "new"
      /\ f.reads = {} /\ f.own = {} /\ f.scratch = {}
  BY NewFrame
<1>6. calls' = Append(Append(SubSeq(calls, 1, Len(calls) - 1), e), f)
  BY DEF Call, WithTop, Below
<1> HIDE DEF e, f
<1>7. PICK w : w = Append(SubSeq(calls, 1, Len(calls) - 1), e)
  OBVIOUS
<1>8. /\ w \in Seq(S \union {e}) /\ Len(w) = n /\ w[n] = e
      /\ \A k \in 1 .. n - 1 : w[k] = calls[k]
  BY <1>1, <1>2, <1>7, TopReplaced
<1>9. /\ calls' \in Seq(S \union {e} \union {f}) /\ Len(calls') = n + 1 /\ calls'[n + 1] = f
      /\ \A k \in 1..n : calls'[k] = w[k]
  <2>1. w \in Seq(S \union {e} \union {f}) /\ calls' = Append(w, f)
    BY <1>6, <1>7, <1>8
  <2> QED BY <1>8, <2>1
<1>10. FrameInv(e) /\ Held(e) = Held(Top) /\ FrameInv(f) /\ Held(f) = {}
  BY <1>3, <1>4, <1>5 DEF FrameInv, Held
<1>11. Owned(w, n, DOMAIN temps, {})
  <2>1. Owned(calls, n, DOMAIN temps, Given)
    BY <1>1 DEF IndInv
  <2>2. DOMAIN temps = (DOMAIN temps \ (Held(calls[n]) \union Given)) \union Held(e)
    BY <1>3, <1>10
  <2>3. e.file = calls[n].file /\ \A k \in 1 .. n - 1 : Held(e) \cap Held(calls[k]) = {}
    BY <1>3, <1>4, <1>10
  <2> QED BY <1>8, <1>10, <2>1, <2>2, <2>3, OwnedChanged
<1>12. Owned(calls', n + 1, DOMAIN temps', {})
  <2>1. f.file = w[n].called
    BY <1>4, <1>5, <1>8
  <2>2. temps' = temps
    BY DEF Call
  <2> QED BY <1>9, <1>10, <1>11, <2>1, <2>2, OwnedPushed
<1>13. Given' = {} /\ ReadInv' /\ StatusInv' /\ IsReader(result)'
  <2>1. returned' = "none" /\ status' = "opening" /\ result' = result
    BY <1>3 DEF Call
  <2> QED BY <2>1 DEF Given, ReadInv, StatusInv, IndInv, IsReader
<1> QED BY <1>9, <1>12, <1>13 DEF IndInv

\* The top call returns: it hands on the temp files H, and the rest of its own go.
LEMMA TopReturns ==
  ASSUME IndInv, calls # <<>>, calls' = Below, returned' \in {"ok", "err"},
         IsReader(result'), status' = status,
         NEW H, H \subseteq Held(Top) \union Given,
         H = IF returned' = "ok" THEN result'.holds ELSE {},
         returned' = "ok" => result'.reads \subseteq H \union {0, Top.file},
         DOMAIN temps' = (DOMAIN temps \ (Held(Top) \union Given)) \union H
  PROVE  IndInv'
<1>1. PICK n \in Nat \ {0} : n = Len(calls)
  BY TopFacts
<1>2. PICK S : calls \in Seq(S)
  BY DEF IndInv
<1>3. Top = calls[n] /\ status = "opening"
  BY <1>1, TopFacts
<1>4. /\ calls' \in Seq(S) /\ Len(calls') = n - 1
      /\ \A k \in 1 .. n - 1 : calls'[k] = calls[k]
  BY <1>1, <1>2, TopRemoved DEF Below
<1>5. Owned(calls, n, DOMAIN temps, Given)
  BY <1>1 DEF IndInv
<1>6. Owned(calls', n - 1, DOMAIN temps', H)
  BY <1>3, <1>4, <1>5, OwnedPopped
<1>7. Given' = H
  BY <1>3 DEF Given
<1>8. ReadInv'
  <2>1. CASE n = 1
    <3>1. Top.file = 0
      <4>1. 1 \in 1..n
        OBVIOUS
      <4> QED BY <1>3, <1>5, <2>1, <4>1 DEF Owned
    <3> QED BY <3>1 DEF ReadInv
  <2>2. CASE n # 1
    <3>1. n - 1 \in 1..n /\ n - 1 < n /\ n - 1 + 1 = n /\ n - 1 \in 1 .. n - 1
      BY <2>2
    <3>2. calls[n].file = calls[n - 1].called
      BY <1>5, <3>1 DEF Owned
    <3>3. DOMAIN calls' = 1 .. n - 1
      BY <1>4
    <3>4. Top' = calls[n - 1]
      BY <1>4, <3>1 DEF Top
    <3>5. {Top.called : k \in DOMAIN calls}' = {Top.file}
      <4>1. Top'.called = Top.file
        BY <1>3, <3>2, <3>4
      <4> QED BY <3>1, <3>3, <4>1
    <3> QED BY <3>5 DEF ReadInv
  <2> QED BY <2>1, <2>2
<1>9. StatusInv'
  BY <1>3 DEF StatusInv
<1> QED BY <1>4, <1>6, <1>7, <1>8, <1>9 DEF IndInv

----------------------------------------------------------------------------
(***************************************************************************)
(* The same, for the operators the actions are made of.                    *)
(***************************************************************************)
LEMMA DropDomain ==
  ASSUME NEW files, Drop(files)
  PROVE  DOMAIN temps' = DOMAIN temps \ files
BY DEF Drop

LEMMA WriteKeeps ==
  ASSUME IndInv, calls # <<>>, returned = "none", NEW c, NEW stage \in {"made", "copied"},
         Write(c, stage)
  PROVE  IndInv'
<1>1. PICK t \in TempIds \ DOMAIN temps :
        /\ temps' = [f \in DOMAIN temps \union {t} |-> IF f = t THEN c ELSE temps[f]]
        /\ calls' = WithTop([Top EXCEPT !.own = @ \union {t}, !.called = t, !.stage = stage])
        /\ UNCHANGED <<user, returned, result, error, status>>
  BY DEF Write
<1>2. PICK e : e = [Top EXCEPT !.own = @ \union {t}, !.called = t, !.stage = stage]
  OBVIOUS
<1>3. t # 0
  BY OpenAssumption
<1>4. /\ FrameInv(Top) /\ Held(Top) \subseteq DOMAIN temps /\ Given = {}
      /\ Top.file \in DOMAIN temps \union {0}
      /\ \A k \in 1 .. Len(calls) - 1 : Held(calls[k]) \subseteq DOMAIN temps
                                        /\ Held(Top) \cap Held(calls[k]) = {}
  BY TopFacts
<1>5. /\ IsFrame(e) /\ e.stage = stage /\ e.file = Top.file /\ e.called = t
      /\ e.own = Top.own \union {t} /\ e.scratch = Top.scratch /\ e.reads = Top.reads
  BY <1>2, <1>4 DEF FrameInv, IsFrame, FrameFields
<1>6. FrameInv(e)
  BY <1>1, <1>3, <1>4, <1>5 DEF FrameInv, Held
<1>7. Held(e) = Held(Top) \union {t}
  BY <1>5 DEF Held
<1>8. \A k \in 1 .. Len(calls) - 1 : Held(e) \cap Held(calls[k]) = {}
  BY <1>1, <1>4, <1>7
<1>9. DOMAIN temps' = (DOMAIN temps \ (Held(Top) \union Given)) \union Held(e)
  BY <1>1, <1>4, <1>7
<1> QED BY <1>1, <1>2, <1>5, <1>6, <1>8, <1>9, TopChanges

LEMMA WriteOverKeeps ==
  ASSUME IndInv, calls # <<>>, returned = "none", Top.stage = "copied", NEW c,
         WriteOver(c, "made")
  PROVE  IndInv'
<1>1. PICK t \in TempIds \ DOMAIN temps :
        /\ temps' = [f \in DOMAIN temps \union {t} |-> IF f = t THEN c ELSE temps[f]]
        /\ calls' = WithTop([Top EXCEPT !.scratch = @ \union {Top.called},
                                        !.own = (@ \ {Top.called}) \union {t},
                                        !.called = t, !.stage = "made"])
        /\ UNCHANGED <<user, returned, result, error, status>>
  BY DEF WriteOver
<1>2. PICK e : e = [Top EXCEPT !.scratch = @ \union {Top.called},
                               !.own = (@ \ {Top.called}) \union {t},
                               !.called = t, !.stage = "made"]
  OBVIOUS
<1>3. /\ FrameInv(Top) /\ Held(Top) \subseteq DOMAIN temps /\ Given = {}
      /\ Top.file \in DOMAIN temps \union {0}
      /\ \A k \in 1 .. Len(calls) - 1 : Held(calls[k]) \subseteq DOMAIN temps
                                        /\ Held(Top) \cap Held(calls[k]) = {}
  BY TopFacts
<1>4. /\ IsFrame(e) /\ e.stage = "made" /\ e.file = Top.file /\ e.called = t
      /\ e.own = (Top.own \ {Top.called}) \union {t}
      /\ e.scratch = Top.scratch \union {Top.called} /\ e.reads = Top.reads
  BY <1>2, <1>3 DEF FrameInv, IsFrame, FrameFields
<1>5. Top.called \in Top.own /\ Top.called \notin Top.reads
  BY <1>3 DEF FrameInv
<1>6. FrameInv(e)
  BY <1>1, <1>3, <1>4, <1>5 DEF FrameInv, Held
<1>7. Held(e) = Held(Top) \union {t}
  BY <1>4, <1>5 DEF Held
<1>8. \A k \in 1 .. Len(calls) - 1 : Held(e) \cap Held(calls[k]) = {}
  BY <1>1, <1>3, <1>7
<1>9. DOMAIN temps' = (DOMAIN temps \ (Held(Top) \union Given)) \union Held(e)
  BY <1>1, <1>3, <1>7
<1> QED BY <1>1, <1>2, <1>4, <1>6, <1>8, <1>9, TopChanges

LEMMA BecomeKeeps ==
  ASSUME IndInv, calls # <<>>, returned = "none", Top.stage = "new", NEW fn, Become(fn)
  PROVE  IndInv'
<1>1. PICK f : f = Frame(fn, Top.file)
  OBVIOUS
<1>2. /\ IsFrame(f) /\ f.file = Top.file /\ f.called = Top.file /\ f.stage = "new"
      /\ f.reads = {} /\ f.own = {} /\ f.scratch = {}
  BY <1>1, NewFrame
<1>3. FrameInv(f) /\ Held(f) = {}
  BY <1>2 DEF FrameInv, Held
<1>4. FrameInv(Top) /\ Given = {}
  BY TopFacts
<1>5. Held(Top) = {}
  BY <1>4 DEF FrameInv
<1>6. calls' = WithTop(f) /\ temps' = temps /\ returned' = "none" /\ result' = result
      /\ status' = status
  BY <1>1 DEF Become
<1> QED BY <1>2, <1>3, <1>4, <1>5, <1>6, TopChanges

LEMMA ReturnBareKeeps ==
  ASSUME IndInv, calls # <<>>, returned # "ok", NEW r, IsReader(r), r.holds = {},
         r.reads \subseteq {0, Top.file}, ReturnBare(r)
  PROVE  IndInv'
<1>1. Given = {} /\ Held(Top) \subseteq DOMAIN temps
  BY TopFacts
<1>2. /\ calls' = Below /\ returned' = "ok" /\ result' = r /\ status' = status
      /\ DOMAIN temps' = DOMAIN temps \ Held(Top)
  BY DropDomain DEF ReturnBare, Held
<1> QED BY <1>1, <1>2, TopReturns

LEMMA ReturnKeeps ==
  ASSUME IndInv, calls # <<>>, NEW r, IsReader(r), r.holds = Given,
         r.reads \subseteq Top.own \union Given \union {0, Top.file}, Return(r)
  PROVE  IndInv'
<1>1. PICK e : e = [r EXCEPT !.holds = @ \union Top.own]
  OBVIOUS
<1>2. IsReader(e) /\ e.reads = r.reads /\ e.holds = Given \union Top.own
  BY <1>1 DEF IsReader, ReaderFields
<1>3. /\ FrameInv(Top) /\ Held(Top) \subseteq DOMAIN temps /\ Given \subseteq DOMAIN temps
      /\ Held(Top) \cap Given = {}
  BY TopFacts
<1>4. /\ calls' = Below /\ returned' = "ok" /\ result' = e /\ status' = status
      /\ DOMAIN temps' = DOMAIN temps \ Top.scratch
  BY <1>1, DropDomain DEF Return
<1>5. DOMAIN temps' = (DOMAIN temps \ (Held(Top) \union Given)) \union e.holds
  BY <1>2, <1>3, <1>4 DEF FrameInv, Held
<1>6. e.holds \subseteq Held(Top) \union Given /\ e.reads \subseteq e.holds \union {0, Top.file}
  BY <1>2 DEF Held
<1> QED BY <1>2, <1>4, <1>5, <1>6, TopReturns

LEMMA ReturnErrorKeeps ==
  ASSUME IndInv, calls # <<>>, returned # "ok", NEW e, ReturnError(e)
  PROVE  IndInv'
<1>1. Given = {}
  BY TopFacts
<1>2. /\ calls' = Below /\ returned' = "err" /\ result' = result /\ status' = status
      /\ DOMAIN temps' = DOMAIN temps \ Held(Top)
  BY DropDomain DEF ReturnError, Held
<1>3. IsReader(result')
  BY <1>2 DEF IndInv
<1> QED BY <1>1, <1>2, <1>3, TopReturns

\* A call goes on with the reader returned to it, and drops its scratch file.
LEMMA ResumeKeeps ==
  ASSUME IndInv, calls # <<>>, returned = "ok", MemberOpened
  PROVE  IndInv'
<1>1. PICK d : d = [Top EXCEPT !.stage = "loop", !.next = @ + 1, !.scratch = {}]
  OBVIOUS
<1>2. PICK e : e = [d EXCEPT !.own = @ \union result.holds, !.reads = @ \union result.reads]
  OBVIOUS
<1>3. /\ FrameInv(Top) /\ Held(Top) \subseteq DOMAIN temps /\ Given \subseteq DOMAIN temps
      /\ Held(Top) \cap Given = {} /\ Given = result.holds
      /\ result.reads \subseteq result.holds \union {0, Top.called}
      /\ \A k \in 1 .. Len(calls) - 1 : /\ Held(Top) \cap Held(calls[k]) = {}
                                        /\ Held(calls[k]) \cap Given = {}
  BY TopFacts
<1>4. /\ IsFrame(e) /\ e.stage = "loop" /\ e.file = Top.file /\ e.called = Top.called
      /\ e.own = Top.own \union Given /\ e.scratch = {}
      /\ e.reads = Top.reads \union result.reads
  BY <1>1, <1>2, <1>3 DEF FrameInv, IsFrame, FrameFields
<1>5. /\ calls' = WithTop(e) /\ returned' = "none" /\ result' = result /\ status' = status
      /\ DOMAIN temps' = DOMAIN temps \ Top.scratch
  BY <1>1, <1>2, DropDomain DEF MemberOpened, Resume
<1>6. FrameInv(e)
  BY <1>3, <1>4 DEF FrameInv, Held
<1>7. Held(e) = Top.own \union Given
  BY <1>4 DEF Held
<1>8. \A k \in 1 .. Len(calls) - 1 : Held(e) \cap Held(calls[k]) = {}
  BY <1>3, <1>7 DEF Held
<1>9. DOMAIN temps' = (DOMAIN temps \ (Held(Top) \union Given)) \union Held(e)
  BY <1>3, <1>5, <1>7 DEF FrameInv, Held
<1> QED BY <1>4, <1>5, <1>6, <1>8, <1>9, TopChanges

----------------------------------------------------------------------------
(***************************************************************************)
(* The invariant holds at first, and every action keeps it.                *)
(***************************************************************************)
LEMMA InitInv == Init => IndInv
<1> SUFFICES ASSUME Init PROVE IndInv
  OBVIOUS
<1>1. PICK f : f = Frame("open", 0)
  OBVIOUS
<1>2. /\ IsFrame(f) /\ f.file = 0 /\ f.called = 0 /\ f.stage = "new"
      /\ f.reads = {} /\ f.own = {} /\ f.scratch = {}
  BY <1>1, NewFrame
<1>3. FrameInv(f) /\ Held(f) = {}
  BY <1>2 DEF FrameInv, Held
<1>4. calls = <<f>> /\ calls \in Seq({f}) /\ Len(calls) = 1 /\ calls[1] = f
  BY <1>1 DEF Init
<1>5. DOMAIN temps = {} /\ Given = {} /\ returned = "none" /\ status = "opening"
  BY DEF Init, Given
<1>6. Owned(calls, 1, {}, {})
  BY <1>2, <1>3, <1>4 DEF Owned
<1>7. IsReader(result)
  BY NewReader DEF Init
<1> QED BY <1>4, <1>5, <1>6, <1>7 DEF IndInv, ReadInv, StatusInv

\* The reader on the file of the call holds nothing and reads that file.
LEMMA LeafReader ==
  ASSUME NEW fn
  PROVE  IsReader(Leaf(fn)) /\ Leaf(fn).holds = {} /\ Leaf(fn).reads = {Top.file}
BY DEF Leaf, Reader, IsReader, ReaderFields

LEMMA OpenKeeps ==
  ASSUME IndInv, Join \/ OpenWhole \/ OpenJoined \/ OpenSingle
  PROVE  IndInv'
<1>1. CASE Join
  BY <1>1, WriteKeeps DEF Join, Running
<1>2. CASE OpenWhole
  BY <1>2, BecomeKeeps DEF OpenWhole, Running
<1>3. CASE OpenJoined
  BY <1>3, CallKeeps DEF OpenJoined, Running
<1>4. CASE OpenSingle
  <2>1. calls # <<>> /\ returned = "none" /\ Top.stage = "new"
    BY <1>4 DEF OpenSingle, Running
  <2>2. ReturnError("UnknownFormat") \/ \E fn : Become(fn)
    BY <1>4 DEF OpenSingle
  <2> QED BY <2>1, <2>2, ReturnErrorKeeps, BecomeKeeps
<1> QED BY <1>1, <1>2, <1>3, <1>4

LEMMA LeafKeeps ==
  ASSUME IndInv, OpenLeaf \/ OpenInPlace
  PROVE  IndInv'
<1>1. calls # <<>> /\ returned = "none"
  BY DEF OpenLeaf, OpenInPlace, Running
<1>2. (\E fn : Return(Leaf(fn))) \/ \E e : ReturnError(e)
  BY DEF OpenLeaf, OpenInPlace
<1>3. Given = {}
  BY <1>1, TopFacts
<1>4. ASSUME NEW fn, Return(Leaf(fn)) PROVE IndInv'
  <2>1. PICK r : r = Leaf(fn)
    OBVIOUS
  <2>2. IsReader(r) /\ r.holds = Given /\ r.reads \subseteq {Top.file} /\ Return(r)
    BY <1>3, <1>4, <2>1, LeafReader
  <2> QED BY <1>1, <2>2, ReturnKeeps
<1> QED BY <1>1, <1>2, <1>4, ReturnErrorKeeps

LEMMA CarveKeeps ==
  ASSUME IndInv, Carve \/ OpenCarved \/ OpenPlain \/ CarveFails \/ OpenImage
  PROVE  IndInv'
<1>1. CASE Carve
  BY <1>1, WriteKeeps DEF Carve, Running
<1>2. CASE OpenCarved
  BY <1>2, CallKeeps DEF OpenCarved, Running
<1>3. CASE OpenPlain
  <2>1. calls # <<>> /\ returned = "none" /\ Top.stage = "made"
    BY <1>3 DEF OpenPlain, Running
  <2>2. PICK r : r = Reader("Raw", temps[Top.called], {Top.called}, {}, EntryName(Top.file))
    OBVIOUS
  <2>3. IsReader(r) /\ r.reads = {Top.called} /\ r.holds = {} /\ Return(r)
    BY <1>3, <2>2, NewReader DEF OpenPlain
  <2>4. Given = {} /\ Top.called \in Top.own
    BY <2>1, TopFacts DEF FrameInv
  <2> QED BY <2>1, <2>3, <2>4, ReturnKeeps
<1>4. CASE CarveFails
  BY <1>4, ReturnErrorKeeps DEF CarveFails, Running
<1>5. CASE OpenImage
  BY <1>5, CallKeeps DEF OpenImage, Running
<1> QED BY <1>1, <1>2, <1>3, <1>4, <1>5

LEMMA WrapKeeps ==
  ASSUME IndInv, Wrap \/ InnerFails \/ MemberOpened
  PROVE  IndInv'
<1>1. CASE Wrap
  <2>1. calls # <<>> /\ returned = "ok"
    BY <1>1 DEF Wrap, Returned
  <2>2. PICK r : r = [result EXCEPT !.format = Reports(Top.fn)]
    OBVIOUS
  <2>3. IsReader(r) /\ r.reads = result.reads /\ r.holds = result.holds
    BY <2>2 DEF IndInv, IsReader, ReaderFields
  <2>4. /\ Given = result.holds /\ result.reads \subseteq result.holds \union {0, Top.called}
        /\ Top.called \in Top.own \union {Top.file}
    BY <2>1, TopFacts DEF FrameInv
  <2>5. Return(r)
    BY <1>1, <2>2 DEF Wrap
  <2>6. r.reads \subseteq Top.own \union Given \union {0, Top.file}
    BY <2>3, <2>4
  <2> QED BY <2>1, <2>3, <2>4, <2>5, <2>6, ReturnKeeps
<1>2. CASE InnerFails
  BY <1>2, ReturnErrorKeeps DEF InnerFails, Returned
<1>3. CASE MemberOpened
  BY <1>3, ResumeKeeps DEF MemberOpened, Returned
<1> QED BY <1>1, <1>2, <1>3

LEMMA WarcKeeps ==
  ASSUME IndInv, OpenWarc \/ WarcOpened
  PROVE  IndInv'
<1>1. CASE OpenWarc
  <2>1. calls # <<>> /\ returned = "none"
    BY <1>1 DEF OpenWarc, Running
  <2>2. (\E c : Write(c, "made")) \/ ReturnError("Corrupt")
    BY <1>1 DEF OpenWarc
  <2> QED BY <2>1, <2>2, WriteKeeps, ReturnErrorKeeps
<1>2. CASE WarcOpened
  <2>1. calls # <<>> /\ returned = "none" /\ Top.stage = "made"
    BY <1>2 DEF WarcOpened, Running
  <2>2. PICK r : r = Reader("Warc", temps[Top.called], {Top.called}, {}, NoName)
    OBVIOUS
  <2>3. IsReader(r) /\ r.reads = {Top.called} /\ r.holds = {} /\ Return(r)
    BY <1>2, <2>2, NewReader DEF WarcOpened
  <2>4. Given = {} /\ Top.called \in Top.own
    BY <2>1, TopFacts DEF FrameInv
  <2> QED BY <2>1, <2>3, <2>4, ReturnKeeps
<1> QED BY <1>1, <1>2

LEMMA DebKeeps ==
  ASSUME IndInv, CopyData \/ OpenData \/ OpenTar
  PROVE  IndInv'
<1>1. CASE CopyData
  <2>1. calls # <<>> /\ returned = "none"
    BY <1>1 DEF CopyData, Running
  <2>2. (\E c : Write(c, "copied")) \/ ReturnError("Corrupt")
    BY <1>1 DEF CopyData
  <2> QED BY <2>1, <2>2, WriteKeeps, ReturnErrorKeeps
<1>2. CASE OpenData
  <2>1. calls # <<>> /\ returned = "none" /\ Top.stage = "copied"
    BY <1>2 DEF OpenData, Running
  <2>2. (\E c : WriteOver(c, "made")) \/ Call("Tar") \/ \E e : ReturnError(e)
    <3>1. PICK c : c = temps[Top.called]
      OBVIOUS
    <3> QED BY <1>2, <3>1 DEF OpenData
  <2> QED BY <2>1, <2>2, WriteOverKeeps, CallKeeps, ReturnErrorKeeps
<1>3. CASE OpenTar
  BY <1>3, CallKeeps DEF OpenTar, Running
<1> QED BY <1>1, <1>2, <1>3

LEMMA MembersKeep ==
  ASSUME IndInv, OpenMembers \/ NextMember \/ DecodeMember \/ OpenMember \/ MembersOpened
  PROVE  IndInv'
<1>1. CASE OpenMembers
  <2>1. calls # <<>> /\ returned = "none" /\ Top.stage = "new"
    BY <1>1 DEF OpenMembers, Running
  <2>2. CASE \E e : ReturnError(e)
    BY <2>1, <2>2, ReturnErrorKeeps
  <2>3. CASE calls' = WithTop([Top EXCEPT !.stage = "loop"])
             /\ UNCHANGED <<user, temps, returned, result, error, status>>
    <3>1. PICK e : e = [Top EXCEPT !.stage = "loop"]
      OBVIOUS
    <3>2. /\ FrameInv(Top) /\ IsFrame(Top) /\ Given = {} /\ Held(Top) \subseteq DOMAIN temps
          /\ \A k \in 1 .. Len(calls) - 1 : Held(Top) \cap Held(calls[k]) = {}
      BY <2>1, TopFacts
    <3>3. /\ IsFrame(e) /\ e.stage = "loop" /\ e.file = Top.file /\ e.called = Top.called
          /\ e.own = Top.own /\ e.scratch = Top.scratch /\ e.reads = Top.reads
      BY <3>1, <3>2 DEF IsFrame, FrameFields
    <3>4. FrameInv(e) /\ Held(e) = Held(Top)
      BY <3>2, <3>3 DEF FrameInv, Held
    <3>5. calls' = WithTop(e) /\ temps' = temps /\ returned' = "none" /\ result' = result
          /\ status' = status
      BY <2>1, <2>3, <3>1
    <3>6. DOMAIN temps' = (DOMAIN temps \ (Held(Top) \union Given)) \union Held(e)
      BY <3>2, <3>4, <3>5
    <3> QED BY <2>1, <3>2, <3>3, <3>4, <3>5, <3>6, TopChanges
  <2> QED BY <1>1, <2>2, <2>3 DEF OpenMembers
<1>2. CASE NextMember
  <2>1. calls # <<>> /\ returned = "none"
    BY <1>2 DEF NextMember, Running
  <2>2. \E c : \E stage \in {"made", "copied"} : Write(c, stage)
    <3>1. PICK stage : stage = IF Top.fn = "Conda" THEN "copied" ELSE "made"
      OBVIOUS
    <3>2. stage \in {"made", "copied"} /\ Write(Here.inner[Top.next], stage)
      BY <1>2, <3>1 DEF NextMember
    <3> QED BY <3>2
  <2> QED BY <2>1, <2>2, WriteKeeps
<1>3. CASE DecodeMember
  <2>1. calls # <<>> /\ returned = "none" /\ Top.stage = "copied"
    BY <1>3 DEF DecodeMember, Running
  <2>2. (\E c : WriteOver(c, "made")) \/ ReturnError("Io")
    BY <1>3 DEF DecodeMember
  <2> QED BY <2>1, <2>2, WriteOverKeeps, ReturnErrorKeeps
<1>4. CASE OpenMember
  BY <1>4, CallKeeps DEF OpenMember, Running
<1>5. CASE MembersOpened
  <2>1. calls # <<>> /\ returned = "none"
    BY <1>5 DEF MembersOpened, Running
  <2>2. PICK r : r = Reader(Top.fn, Here, Top.reads \union {Top.file}, {}, NoName)
    OBVIOUS
  <2>3. IsReader(r) /\ r.reads = Top.reads \union {Top.file} /\ r.holds = {} /\ Return(r)
    BY <1>5, <2>2, NewReader DEF MembersOpened
  <2>4. Given = {} /\ Top.reads \subseteq Top.own \union {Top.file, 0}
    BY <2>1, TopFacts DEF FrameInv
  <2>5. r.reads \subseteq Top.own \union Given \union {0, Top.file}
    BY <2>3, <2>4
  <2> QED BY <2>1, <2>3, <2>4, <2>5, ReturnKeeps
<1> QED BY <1>1, <1>2, <1>3, <1>4, <1>5

LEMMA EnvelopeKeeps ==
  ASSUME IndInv, OpenEnvelope \/ OpenPayload \/ ShowEnvelope \/ PayloadFails
  PROVE  IndInv'
<1>1. CASE OpenEnvelope
  <2>1. calls # <<>> /\ returned = "none"
    BY <1>1 DEF OpenEnvelope, Running
  <2>2. Return(Leaf(Top.fn)) \/ (\E c : Write(c, "made")) \/ ReturnError("Corrupt")
    BY <1>1 DEF OpenEnvelope
  <2>3. CASE Return(Leaf(Top.fn))
    <3>1. PICK r : r = Leaf(Top.fn)
      OBVIOUS
    <3>2. Given = {}
      BY <2>1, TopFacts
    <3>3. IsReader(r) /\ r.holds = Given /\ r.reads \subseteq {Top.file} /\ Return(r)
      BY <2>3, <3>1, <3>2, LeafReader
    <3> QED BY <2>1, <3>3, ReturnKeeps
  <2> QED BY <2>1, <2>2, <2>3, WriteKeeps, ReturnErrorKeeps
<1>2. CASE OpenPayload
  BY <1>2, CallKeeps DEF OpenPayload, Running
<1>3. CASE ShowEnvelope \/ PayloadFails
  <2>1. PICK r : r = Leaf(Top.fn)
    OBVIOUS
  <2>2. calls # <<>> /\ returned # "ok" /\ ReturnBare(r)
    BY <1>3, <2>1 DEF ShowEnvelope, PayloadFails, Running, Returned
  <2>3. IsReader(r) /\ r.holds = {} /\ r.reads = {Top.file}
    BY <2>1, LeafReader
  <2> QED BY <2>2, <2>3, ReturnBareKeeps
<1> QED BY <1>1, <1>2, <1>3

LEMMA EndKeeps ==
  ASSUME IndInv, Finish \/ Close
  PROVE  IndInv'
<1>1. calls = <<>> /\ calls' = calls /\ result' = result /\ returned' = returned
      /\ status' \in {"open", "failed", "closed"}
  BY DEF Finish, Close, IndInv, StatusInv
<1>2. Len(calls) = 0 /\ DOMAIN calls = {}
  BY <1>1
<1>3. Given \subseteq DOMAIN temps /\ \A t \in DOMAIN temps : t \in Given
  BY <1>2 DEF IndInv, Owned
<1>4. DOMAIN temps' = Given'
  <2>1. CASE Finish
    BY <2>1, <1>3 DEF Finish, Given
  <2>2. CASE Close
    <3>1. DOMAIN temps' = DOMAIN temps \ result.holds
      BY <2>2, DropDomain DEF Close
    <3> QED BY <2>2, <3>1, <1>3 DEF Close, Given, IndInv, StatusInv
  <2> QED BY <2>1, <2>2
<1>5. Owned(calls', 0, DOMAIN temps', Given')
  BY <1>4 DEF Owned
<1>6. ReadInv'
  <2>1. ReadInv
    BY DEF IndInv
  <2>2. {Top.called : k \in DOMAIN calls} = {} /\ {Top.called : k \in DOMAIN calls}' = {}
    BY <1>1, <1>2
  <2> QED BY <1>1, <2>1, <2>2 DEF ReadInv
<1>7. StatusInv'
  BY <1>1 DEF Finish, Close, StatusInv, IndInv
<1>8. (\E S : calls' \in Seq(S)) /\ IsReader(result')
  BY <1>1 DEF IndInv
<1> QED BY <1>1, <1>2, <1>5, <1>6, <1>7, <1>8 DEF IndInv

LEMMA NextInv == IndInv /\ [Next]_vars => IndInv'
<1> SUFFICES ASSUME IndInv, [Next]_vars PROVE IndInv'
  OBVIOUS
<1>1. CASE UNCHANGED vars
  <2>1. /\ temps' = temps /\ calls' = calls /\ returned' = returned /\ result' = result
        /\ status' = status
    BY <1>1 DEF vars
  <2>2. Given' = Given
    BY <2>1 DEF Given
  <2>3. ReadInv' /\ StatusInv'
    BY <2>1 DEF IndInv, ReadInv, StatusInv, Top
  <2> QED BY <2>1, <2>2, <2>3 DEF IndInv
<1>2. CASE IoFails
  BY <1>2, ReturnErrorKeeps DEF IoFails
<1>3. CASE Step \/ PayloadFails \/ Close
  BY <1>3, OpenKeeps, LeafKeeps, CarveKeeps, WrapKeeps, WarcKeeps, DebKeeps, MembersKeep,
     EnvelopeKeeps, EndKeeps DEF Step
<1> QED BY <1>1, <1>2, <1>3 DEF Next

THEOREM Ownership == Spec => []IndInv
BY InitInv, NextInv, PTL DEF Spec

\* However deep the nesting and wherever it fails, no temp file outlives its owner and
\* none is deleted under it: a failed or closed open leaves none on disk, an open
\* archive keeps those its reader holds and no other, and every call finds its file.
THEOREM TempsHeld == Spec => []TempsAreHeld
<1>1. IndInv => TempsAreHeld
  <2> SUFFICES ASSUME IndInv PROVE TempsAreHeld
    OBVIOUS
  <2>1. ASSUME status # "opening"
        PROVE  /\ DOMAIN temps = Given
               /\ returned = "ok" => result.reads \subseteq result.holds \union {0}
    <3>1. calls = <<>>
      BY <2>1 DEF IndInv, StatusInv
    <3>2. Len(calls) = 0 /\ DOMAIN calls = {}
      BY <3>1
    <3>3. {Top.called : k \in DOMAIN calls} = {}
      BY <3>2
    <3>4. Given \subseteq DOMAIN temps /\ \A t \in DOMAIN temps : t \in Given
      BY <3>2 DEF IndInv, Owned
    <3>5. returned = "ok" => result.reads \subseteq result.holds \union {0}
      BY <3>3 DEF IndInv, ReadInv
    <3> QED BY <3>4, <3>5
  <2>2. ASSUME NEW k \in DOMAIN calls
        PROVE  {calls[k].file} \ {0} \subseteq DOMAIN temps
    <3>1. PICK S : calls \in Seq(S)
      BY DEF IndInv
    <3>2. PICK n \in Nat : n = Len(calls)
      BY <3>1
    <3>3. k \in 1..n
      BY <3>1, <3>2
    <3>4. Owned(calls, n, DOMAIN temps, Given)
      BY <3>2 DEF IndInv
    <3>5. calls[k].file = 0 \/ \E j \in 1 .. k - 1 : calls[k].file \in calls[j].own
      BY <3>3, <3>4 DEF Owned
    <3>6. \A j \in 1 .. k - 1 : calls[j].own \subseteq DOMAIN temps
      <4>1. \A j \in 1 .. k - 1 : j \in 1..n
        BY <3>3
      <4> QED BY <3>4, <4>1 DEF Owned, Held
    <3> QED BY <3>5, <3>6
  <2>3. status \in {"failed", "closed"} => DOMAIN temps = {}
    BY <2>1 DEF IndInv, StatusInv, Given
  <2>4. status = "open" => /\ DOMAIN temps = result.holds
                           /\ result.reads \subseteq result.holds \union {0}
    BY <2>1 DEF IndInv, StatusInv, Given
  <2> QED BY <2>2, <2>3, <2>4 DEF TempsAreHeld
<1> QED BY <1>1, Ownership, PTL

----------------------------------------------------------------------------
(***************************************************************************)
(* The registry: which row wins where several know a file.                 *)
(***************************************************************************)
\* w is s with t behind it.
IsJoin(w, s, t) ==
  /\ Len(w) = Len(s) + Len(t)
  /\ \A i \in 1..Len(s) : w[i] = s[i]
  /\ \A i \in 1..Len(t) : w[Len(s) + i] = t[i]

\* Two sequences one behind the other.
LEMMA Joined ==
  ASSUME NEW S, NEW s \in Seq(S), NEW t \in Seq(S)
  PROVE  s \o t \in Seq(S) /\ IsJoin(s \o t, s, t)
  BY ConcatProperties DEF IsJoin

\* h is b, z, m and l one behind the other, of the lengths of the four parts.
AreJoined(h, b, z, m, l) ==
  /\ Len(h) = 55
  /\ \A i \in 1..13 : h[i] = b[i]
  /\ \A i \in 1..3 : h[13 + i] = z[i]
  /\ \A i \in 1..20 : h[16 + i] = m[i]
  /\ \A i \in 1..19 : h[36 + i] = l[i]

\* Four of them, of the lengths of the parts of the table.
LEMMA JoinedFour ==
  ASSUME NEW S, NEW b \in Seq(S), NEW z \in Seq(S), NEW m \in Seq(S), NEW l \in Seq(S),
         Len(b) = 13, Len(z) = 3, Len(m) = 20, Len(l) = 19
  PROVE  AreJoined(((b \o z) \o m) \o l, b, z, m, l)
<1> DEFINE v == b \o z  w == v \o m  h == w \o l
<1>1. v \in Seq(S) /\ IsJoin(v, b, z)
  BY Joined, Zenon
<1> HIDE DEF v
<1>2. w \in Seq(S) /\ IsJoin(w, v, m)
  BY <1>1, Joined, Zenon
<1> HIDE DEF w
<1>3. IsJoin(h, w, l)
  BY <1>2, Joined, Zenon
<1> HIDE DEF h
<1>4. Len(v) = 16 /\ Len(w) = 36 /\ Len(h) = 55
  BY <1>1, <1>2, <1>3 DEF IsJoin
<1>5. /\ \A i \in 1..13 : v[i] = b[i]
      /\ \A i \in 1..3 : v[13 + i] = z[i]
      /\ \A i \in 1..16 : w[i] = v[i]
      /\ \A i \in 1..20 : w[16 + i] = m[i]
      /\ \A i \in 1..36 : h[i] = w[i]
      /\ \A i \in 1..19 : h[36 + i] = l[i]
  BY <1>1, <1>2, <1>3, <1>4 DEF IsJoin
<1>6. ASSUME NEW i \in 1..13 PROVE h[i] = b[i]
  <2>1. i \in 1..16 /\ i \in 1..36
    OBVIOUS
  <2> QED BY <1>5, <2>1
<1>7. ASSUME NEW i \in 1..3 PROVE h[13 + i] = z[i]
  <2>1. 13 + i \in 1..16 /\ 13 + i \in 1..36
    OBVIOUS
  <2> QED BY <1>5, <2>1
<1>8. ASSUME NEW i \in 1..20 PROVE h[16 + i] = m[i]
  <2>1. 16 + i \in 1..36
    OBVIOUS
  <2> QED BY <1>5, <2>1
<1>9. AreJoined(h, b, z, m, l)
  BY <1>4, <1>5, <1>6, <1>7, <1>8 DEF AreJoined
<1> QED BY <1>9, Zenon DEF v, w, h

\* The table as one sequence.
LEMMA Places ==
  /\ Len(Handlers) = 55
  /\ \A i \in 1..13 : Handlers[i] = ZipBundles[i]
  /\ \A i \in 1..3 : Handlers[13 + i] = Zips[i]
  /\ \A i \in 1..20 : Handlers[16 + i] = Modern[i]
  /\ \A i \in 1..19 : Handlers[36 + i] = Legacy[i]
<1> DEFINE B == ZipBundles  Z == Zips  M == Modern  L == Legacy
           S == {B[i] : i \in 1..13} \union {Z[i] : i \in 1..3}
                \union {M[i] : i \in 1..20} \union {L[i] : i \in 1..19}
<1>1. B \in Seq(S) /\ Len(B) = 13
  <2>1. Len(B) = 13 /\ B = [i \in 1..13 |-> B[i]]
    BY DEF ZipBundles
  <2> QED BY <2>1
<1>2. Z \in Seq(S) /\ Len(Z) = 3
  <2>1. Len(Z) = 3 /\ Z = [i \in 1..3 |-> Z[i]]
    BY DEF Zips
  <2> QED BY <2>1
<1>3. M \in Seq(S) /\ Len(M) = 20
  <2>1. Len(M) = 20 /\ M = [i \in 1..20 |-> M[i]]
    BY DEF Modern
  <2> QED BY <2>1
<1>4. L \in Seq(S) /\ Len(L) = 19
  <2>1. Len(L) = 19 /\ L = [i \in 1..19 |-> L[i]]
    BY DEF Legacy
  <2> QED BY <2>1
<1>5. Handlers = ((B \o Z) \o M) \o L
  BY DEF Handlers
<1> HIDE DEF B, Z, M, L, S
<1>6. AreJoined(Handlers, B, Z, M, L)
  BY <1>1, <1>2, <1>3, <1>4, <1>5, JoinedFour, Zenon
<1> QED BY <1>6 DEF AreJoined, B, Z, M, L

BundleIds == {"jar", "apk", "ipa", "epub", "docx", "xlsx", "pptx", "odt", "ods", "odp", "war",
              "appx", "xpi"}

\* What the rows know that are above the deb handler or need both content and name.
LEMMA Rows ==
  /\ \A i \in 1..13 : /\ Handlers[i].rule = "both" /\ Handlers[i].heads = {"PK34"}
                      /\ Handlers[i].exts = {Handlers[i].id}
                      /\ Handlers[i].id \in BundleIds
                      /\ \A j \in 1..13 : j # i => Handlers[j].id # Handlers[i].id
  /\ Handlers[14] = Row("Crx", "content", {"Cr24"}, {})
  /\ Handlers[15] = Row("Conda", "both", {"PK34"}, {"conda"})
  /\ Handlers[16] = Row("Zip", "content", {"PK34", "PK56"}, {})
  /\ \A i \in 17..25 : /\ Handlers[i].rule = "content"
                       /\ Handlers[i].heads \cap {"PK34", "CFB"} = {}
                       /\ i < 22 => "deb" \notin Handlers[i].heads
  /\ Handlers[22] = Row("Deb", "content", {"deb"}, {})
  /\ Handlers[26] = Row("Msi", "both", {"CFB"}, {"msi"})
  /\ \A i \in 27..55 : Handlers[i].rule \in {"content", "either", "guess", "half"}
<1>1. \A i \in 1..13 : Handlers[i] = ZipBundles[i]
  BY Places
<1>2. /\ \A i \in 1..13 : /\ ZipBundles[i].rule = "both" /\ ZipBundles[i].heads = {"PK34"}
                          /\ ZipBundles[i].exts = {ZipBundles[i].id}
                          /\ ZipBundles[i].id \in BundleIds
                          /\ \A j \in 1..13 : j # i => ZipBundles[j].id # ZipBundles[i].id
  BY DEF ZipBundles, ZipBundle, Row, BundleIds
<1>3. Handlers[14] = Zips[1] /\ Handlers[15] = Zips[2] /\ Handlers[16] = Zips[3]
  <2>1. 13 + 1 = 14 /\ 13 + 2 = 15 /\ 13 + 3 = 16 /\ 1 \in 1..3 /\ 2 \in 1..3 /\ 3 \in 1..3
    OBVIOUS
  <2> QED BY <2>1, Places
<1>4. /\ Handlers[14] = Row("Crx", "content", {"Cr24"}, {})
      /\ Handlers[15] = Row("Conda", "both", {"PK34"}, {"conda"})
      /\ Handlers[16] = Row("Zip", "content", {"PK34", "PK56"}, {})
  BY <1>3 DEF Zips
<1>5. \A i \in 1..9 : /\ Modern[i].rule = "content"
                      /\ Modern[i].heads \cap {"PK34", "CFB"} = {}
                      /\ i < 6 => "deb" \notin Modern[i].heads
  BY DEF Modern, Row
<1>6. /\ Modern[6] = Row("Deb", "content", {"deb"}, {})
      /\ Modern[10] = Row("Msi", "both", {"CFB"}, {"msi"})
  BY DEF Modern
<1>7. \A i \in 11..20 : Modern[i].rule \in {"content", "either", "guess", "half"}
  BY DEF Modern, Row, Guess
<1>8. \A i \in 1..19 : Legacy[i].rule \in {"content", "either", "guess", "half"}
  BY DEF Legacy, Row
<1>9. \A i \in 17..36 : i - 16 \in 1..20 /\ 16 + (i - 16) = i
  OBVIOUS
<1>10. \A i \in 17..36 : Handlers[i] = Modern[i - 16]
  BY <1>9, Places
<1>11. \A i \in 37..55 : i - 36 \in 1..19 /\ 36 + (i - 36) = i
  OBVIOUS
<1>12. \A i \in 37..55 : Handlers[i] = Legacy[i - 36]
  BY <1>11, Places
<1>13. Handlers[22] = Modern[6] /\ Handlers[26] = Modern[10]
  <2>1. 22 - 16 = 6 /\ 26 - 16 = 10 /\ 22 \in 17..36 /\ 26 \in 17..36
    OBVIOUS
  <2> QED BY <1>10, <2>1
<1>14. \A i \in 17..25 : i \in 17..36 /\ i - 16 \in 1..9 /\ (i < 22 => i - 16 < 6)
  OBVIOUS
<1>15. \A i \in 17..25 : /\ Handlers[i].rule = "content"
                         /\ Handlers[i].heads \cap {"PK34", "CFB"} = {}
                         /\ i < 22 => "deb" \notin Handlers[i].heads
  BY <1>5, <1>10, <1>14
<1>16. \A i \in 27..55 : Handlers[i].rule \in {"content", "either", "guess", "half"}
  <2>1. ASSUME NEW i \in 27..55
        PROVE  Handlers[i].rule \in {"content", "either", "guess", "half"}
    <3>1. (i \in 17..36 /\ i - 16 \in 11..20) \/ (i \in 37..55 /\ i - 36 \in 1..19)
      OBVIOUS
    <3> QED BY <1>7, <1>8, <1>10, <1>12, <3>1
  <2> QED BY <2>1
<1>17. \A i \in 1..13 : /\ Handlers[i].rule = "both" /\ Handlers[i].heads = {"PK34"}
                         /\ Handlers[i].exts = {Handlers[i].id}
                         /\ Handlers[i].id \in BundleIds
                         /\ \A j \in 1..13 : j # i => Handlers[j].id # Handlers[i].id
  BY <1>1, <1>2
<1>18. /\ Handlers[22] = Row("Deb", "content", {"deb"}, {})
       /\ Handlers[26] = Row("Msi", "both", {"CFB"}, {"msi"})
  BY <1>6, <1>13
<1> QED BY <1>4, <1>15, <1>16, <1>17, <1>18

\* Where a row is in the table.
LEMMA EveryRow ==
  ASSUME NEW i \in 1..55
  PROVE  \/ i \in 1..13 \/ i = 14 \/ i = 15 \/ i = 16 \/ i \in 17..25 \/ i = 26 \/ i \in 27..55
OBVIOUS

\* A probe has three answers.
LEMMA Confidences ==
  ASSUME NEW i \in 1..55, NEW head, NEW exts
  PROVE  Probe(Handlers[i], head, exts) \in {0, 50, 100}
<1>1. Handlers[i].rule \in {"content", "both", "either", "guess", "half"}
  BY EveryRow, Rows DEF Row
<1> QED BY <1>1 DEF Probe, MAGIC, EXTENSION, NONE

\* The first row that is certain is selected.
LEMMA FirstWins ==
  ASSUME NEW i \in 1..55, NEW head, NEW exts, Probe(Handlers[i], head, exts) = MAGIC,
         \A j \in 1 .. i - 1 : Probe(Handlers[j], head, exts) # MAGIC
  PROVE  Selected(head, exts) = {i}
<1> DEFINE c == [k \in 1..Len(Handlers) |-> Probe(Handlers[k], head, exts)]
<1>1. Len(Handlers) = 55
  BY Places
<1>2. /\ c[i] = 100
      /\ \A j \in 1..55 : c[j] \in {0, 50, 100}
      /\ \A j \in 1..55 : j < i => c[j] # 100
  <2>1. \A j \in 1..55 : c[j] = Probe(Handlers[j], head, exts)
    BY <1>1
  <2>2. \A j \in 1..55 : j < i => j \in 1 .. i - 1
    OBVIOUS
  <2>3. \A j \in 1..55 : c[j] \in {0, 50, 100}
    <3>1. ASSUME NEW j \in 1..55 PROVE c[j] \in {0, 50, 100}
      <4>1. c[j] = Probe(Handlers[j], head, exts)
        BY <2>1
      <4>2. Probe(Handlers[j], head, exts) \in {0, 50, 100}
        BY Confidences
      <4> QED BY <4>1, <4>2, Zenon
    <3> HIDE DEF c
    <3> QED BY <3>1
  <2> HIDE DEF c
  <2> QED BY <2>1, <2>2, <2>3 DEF MAGIC
<1>3. Selected(head, exts) =
        {k \in 1..55 : c[k] > 0 /\ \A j \in 1..55 : c[j] <= c[k] /\ (j < k => c[j] < c[k])}
  BY <1>1 DEF Selected, NONE
<1> HIDE DEF c
<1>4. c[i] > 0 /\ \A j \in 1..55 : c[j] <= c[i] /\ (j < i => c[j] < c[i])
  BY <1>2
<1>5. ASSUME NEW k \in 1..55, c[k] > 0,
             \A j \in 1..55 : c[j] <= c[k] /\ (j < k => c[j] < c[k])
      PROVE  k = i
  <2>1. c[i] <= c[k] /\ (i < k => c[i] < c[k])
    BY <1>5
  <2>2. c[k] \in {0, 50, 100} /\ (k < i => c[k] # 100)
    BY <1>2
  <2> QED BY <1>2, <2>1, <2>2
<1> QED BY <1>3, <1>4, <1>5

\* A row that needs both the content and the name, and has both, is selected, and
\* nothing that open_single looks at before the registry takes the file.
LEMMA BothWins ==
  ASSUME NEW i \in 1..55, NEW head, NEW exts, Handlers[i].rule = "both",
         Probe(Handlers[i], head, exts) > NONE
  PROVE  /\ Selected(head, exts) = {i}
         /\ Handlers[i].id \in BundleIds \union {"Conda", "Msi"}
         /\ head \in {"PK34", "CFB"} /\ exts # <<>>
         /\ exts[Len(exts)] \in BundleIds \union {"conda", "msi"}
<1>1. i \in 1..13 \/ i = 15 \/ i = 26
  BY EveryRow, Rows DEF Row
<1>2. head \in Handlers[i].heads /\ Has(Handlers[i], exts)
  BY DEF Probe, NONE
<1>3. Probe(Handlers[i], head, exts) = MAGIC
  BY <1>2 DEF Probe
<1>4. exts # <<>> /\ exts[Len(exts)] \in Handlers[i].exts
  BY <1>2 DEF Has
<1>5. /\ Handlers[i].id \in BundleIds \union {"Conda", "Msi"}
      /\ head \in {"PK34", "CFB"}
      /\ exts[Len(exts)] \in BundleIds \union {"conda", "msi"}
  <2>1. CASE i \in 1..13
    <3>1. /\ Handlers[i].id \in BundleIds /\ Handlers[i].heads = {"PK34"}
          /\ Handlers[i].exts = {Handlers[i].id}
      BY <2>1, Rows
    <3> QED BY <1>2, <1>4, <3>1
  <2>2. CASE i = 15
    <3>1. Handlers[i] = Row("Conda", "both", {"PK34"}, {"conda"})
      BY <2>2, Rows
    <3>2. /\ Handlers[i].id = "Conda" /\ Handlers[i].heads = {"PK34"}
          /\ Handlers[i].exts = {"conda"}
      BY <3>1 DEF Row
    <3> QED BY <1>2, <1>4, <3>2
  <2>3. CASE i = 26
    <3>1. Handlers[i] = Row("Msi", "both", {"CFB"}, {"msi"})
      BY <2>3, Rows
    <3>2. Handlers[i].id = "Msi" /\ Handlers[i].heads = {"CFB"} /\ Handlers[i].exts = {"msi"}
      BY <3>1 DEF Row
    <3> QED BY <1>2, <1>4, <3>2
  <2> QED BY <1>1, <2>1, <2>2, <2>3
<1>6. ASSUME NEW j \in 1 .. i - 1 PROVE Probe(Handlers[j], head, exts) # MAGIC
  <2>1. CASE i \in 1..13
    <3>1. j \in 1..13 /\ j # i
      BY <2>1
    <3>2. exts[Len(exts)] \notin Handlers[j].exts /\ Handlers[j].rule = "both"
      <4>1. /\ Handlers[i].exts = {Handlers[i].id} /\ Handlers[j].exts = {Handlers[j].id}
            /\ Handlers[j].rule = "both"
        BY <2>1, <3>1, Rows
      <4>2. Handlers[j].id # Handlers[i].id
        BY <2>1, <3>1, Rows
      <4> QED BY <1>4, <4>1, <4>2
    <3> QED BY <3>2 DEF Probe, Has, MAGIC, NONE
  <2>2. CASE i = 15
    <3>1. exts[Len(exts)] = "conda" /\ head = "PK34"
      BY <1>2, <1>4, <2>2, Rows DEF Row
    <3>2. CASE j \in 1..13
      <4>1. "conda" \notin BundleIds
        BY DEF BundleIds
      <4>2. exts[Len(exts)] \notin Handlers[j].exts /\ Handlers[j].rule = "both"
        <5>1. /\ Handlers[j].exts = {Handlers[j].id} /\ Handlers[j].id \in BundleIds
              /\ Handlers[j].rule = "both"
          BY <3>2, Rows
        <5> QED BY <3>1, <4>1, <5>1
      <4> QED BY <4>2 DEF Probe, Has, MAGIC, NONE
    <3>3. CASE j = 14
      BY <3>1, <3>3, Rows DEF Probe, Row, MAGIC, NONE
    <3> QED BY <2>2, <3>2, <3>3
  <2>3. CASE i = 26
    <3>1. head = "CFB"
      BY <1>2, <2>3, Rows DEF Row
    <3>2. head \notin Handlers[j].heads /\ Handlers[j].rule \in {"both", "content"}
      <4>1. j \in 1..13 \/ j = 14 \/ j = 15 \/ j = 16 \/ j \in 17..25
        BY <2>3
      <4> QED BY <3>1, <4>1, Rows DEF Row
    <3> QED BY <3>2 DEF Probe, MAGIC, NONE
  <2> QED BY <1>1, <2>1, <2>2, <2>3
<1> QED BY <1>3, <1>4, <1>5, <1>6, FirstWins

\* The deb handler is asked before the one for plain ar archives.
LEMMA DebWins ==
  ASSUME NEW exts
  PROVE  Selected("deb", exts) = {22} /\ Handlers[22].id = "Deb"
<1>1. Handlers[22] = Row("Deb", "content", {"deb"}, {})
  BY Rows
<1>2. Probe(Handlers[22], "deb", exts) = MAGIC /\ Handlers[22].id = "Deb"
  BY <1>1 DEF Row, Probe
<1>3. ASSUME NEW j \in 1 .. 21 PROVE Probe(Handlers[j], "deb", exts) # MAGIC
  <2>1. j \in 1..13 \/ j = 14 \/ j = 15 \/ j = 16 \/ j \in 17..21
    OBVIOUS
  <2>2. "deb" \notin Handlers[j].heads /\ Handlers[j].rule \in {"both", "content"}
    BY <2>1, Rows DEF Row
  <2> QED BY <2>2 DEF Probe, MAGIC, NONE
<1>4. 22 \in 1..55 /\ 22 - 1 = 21
  OBVIOUS
<1> QED BY <1>2, <1>3, <1>4, FirstWins

----------------------------------------------------------------------------
(***************************************************************************)
(* Where a file goes that is no part of a set of volumes.                  *)
(***************************************************************************)
\* The handler the file of the user is for.
Chosen == Route(user.content, user.name)

\* A name that ends in some extensions has the last of them last.
LEMMA LastIs ==
  ASSUME NEW exts \in Seq(STRING), NEW tail, Len(tail) \in Nat \ {0}, EndsWith(exts, tail)
  PROVE  exts # <<>> /\ exts[Len(exts)] = tail[Len(tail)]
<1>1. PICK n \in Nat, m \in Nat : n = Len(exts) /\ m = Len(tail)
  OBVIOUS
<1>2. m > 0 /\ n >= m /\ SubSeq(exts, n - m + 1, n) = tail
  BY <1>1 DEF EndsWith
<1>3. PICK k \in Nat : k = n - m + 1
  BY <1>2
<1>4. k \in 1..n /\ n - k + 1 = m /\ k + m - 1 = n
  BY <1>2, <1>3
<1>5. SubSeq(exts, k, n)[m] = exts[n]
  <2>1. \A i \in 1 .. n - k + 1 : SubSeq(exts, k, n)[i] = exts[k + i - 1]
    BY <1>1, <1>4, SubSeqProperties
  <2>2. m \in 1 .. n - k + 1
    BY <1>2, <1>4
  <2> QED BY <1>4, <2>1, <2>2
<1> QED BY <1>1, <1>2, <1>3, <1>5

\* The names that open_single looks at first.
LEMMA NamedFor ==
  ASSUME NEW exts \in Seq(STRING)
  PROVE  /\ EndsWith(exts, <<"warc">>) => exts # <<>> /\ exts[Len(exts)] = "warc"
         /\ EndsWith(exts, <<"warc", "gz">>) => exts # <<>> /\ exts[Len(exts)] = "gz"
         /\ EndsWith(exts, <<"dmg">>) => exts # <<>> /\ exts[Len(exts)] = "dmg"
<1>1. ASSUME NEW x, EndsWith(exts, <<x>>)
      PROVE  exts # <<>> /\ exts[Len(exts)] = x
  <2>1. Len(<<x>>) = 1 /\ 1 \in Nat \ {0} /\ <<x>>[1] = x
    OBVIOUS
  <2>2. PICK t : t = <<x>>
    OBVIOUS
  <2>3. exts # <<>> /\ exts[Len(exts)] = t[Len(t)]
    BY <1>1, <2>1, <2>2, LastIs, Zenon
  <2> QED BY <2>1, <2>2, <2>3
<1>2. ASSUME EndsWith(exts, <<"warc", "gz">>)
      PROVE  exts # <<>> /\ exts[Len(exts)] = "gz"
  <2>1. Len(<<"warc", "gz">>) = 2 /\ 2 \in Nat \ {0}
    OBVIOUS
  <2>2. <<"warc", "gz">>[2] = "gz"
    OBVIOUS
  <2>3. PICK t : t = <<"warc", "gz">>
    OBVIOUS
  <2>4. exts # <<>> /\ exts[Len(exts)] = t[Len(t)]
    BY <1>2, <2>1, <2>3, LastIs, Zenon
  <2> QED BY <2>1, <2>2, <2>3, <2>4
<1>3. EndsWith(exts, <<"warc">>) => exts # <<>> /\ exts[Len(exts)] = "warc"
  BY <1>1, Zenon
<1>4. EndsWith(exts, <<"dmg">>) => exts # <<>> /\ exts[Len(exts)] = "dmg"
  BY <1>1, Zenon
<1> QED BY <1>2, <1>3, <1>4, Zenon

\* A bundle and a package go to their handlers, whatever lies deep inside them.
LEMMA BothChosen ==
  ASSUME NEW i \in 1..55, user.name.exts \in Seq(STRING), ~user.content.koly,
         Handlers[i].rule = "both", Probe(Handlers[i], user.content.head, user.name.exts) > NONE
  PROVE  Chosen = Handlers[i].id /\ Handlers[i].id \in BundleIds \union {"Conda", "Msi"}
<1> DEFINE head == user.content.head  exts == user.name.exts
<1>1. /\ Selected(head, exts) = {i}
      /\ Handlers[i].id \in BundleIds \union {"Conda", "Msi"}
      /\ head \in {"PK34", "CFB"} /\ exts # <<>>
      /\ exts[Len(exts)] \in BundleIds \union {"conda", "msi"}
  BY BothWins
<1>2. exts[Len(exts)] \notin {"warc", "gz", "dmg", "br", "lzma"}
  BY <1>1 DEF BundleIds
<1>3. ~EndsWith(exts, <<"warc">>) /\ ~EndsWith(exts, <<"warc", "gz">>) /\ ~EndsWith(exts, <<"dmg">>)
  BY <1>2, NamedFor
<1>4. ~IsCompressed(head, exts)
  BY <1>1, <1>2 DEF IsCompressed, Compressed, NamedOnly
<1>5. head # "MZnsis"
  BY <1>1
<1>6. (CHOOSE k \in {i} : TRUE) = i
  OBVIOUS
<1>7. Chosen = Handlers[CHOOSE k \in {i} : TRUE].id
  BY <1>1, <1>3, <1>4, <1>5 DEF Chosen, Route
<1> QED BY <1>1, <1>6, <1>7

\* A deb goes to its handler, or to one its name asks for, which will refuse it.
LEMMA DebChosen ==
  ASSUME user.content.head = "deb", ~user.content.koly
  PROVE  Chosen \in {"Warc", "Dmg", "Compressed", "Deb"}
<1>1. Selected("deb", user.name.exts) = {22} /\ Handlers[22].id = "Deb"
  BY DebWins
<1>2. (CHOOSE k \in {22} : TRUE) = 22
  OBVIOUS
<1>3. Chosen \in {"Warc", "Dmg", "Compressed"} \/ Chosen = Handlers[CHOOSE k \in {22} : TRUE].id
  BY <1>1 DEF Chosen, Route
<1> QED BY <1>1, <1>2, <1>3

----------------------------------------------------------------------------
(***************************************************************************)
(* The invariant about the call on the user's file: it is an opener or the *)
(* chosen handler; what a compressed file becomes is followed to its end.  *)
(***************************************************************************)
\* What the user's file holds.
Inner == user.content.inner[1]

\* A reader is what its handler gives, and the handler could read the file.
Gives(r) ==
  /\ Chosen \in BundleIds \union {"Conda", "Msi", "Deb"} => r.format = Chosen
  /\ Chosen = "Dmg" => user.content.koly
  /\ Chosen = "Warc" => user.content.head \in {"WARC", "gz"}
  /\ Chosen = "Compressed" =>
       /\ user.content.head \in Decodable
       /\ ~IsPlain(Inner) => r.format = InnerFn("Compressed", Inner)
       /\ IsPlain(Inner) => r.format = "Raw" /\ r.leaf = Inner /\ r.entry = Strip(user.name)

\* The call on the user's file is one of the openers or the chosen handler, and a
\* handler that is past its first step could read the file.
Asked(b) ==
  /\ b.fn \in {"open", "open_single", Chosen}
  /\ b.fn \in {"open", "open_single"} \union BundleIds => b.stage = "new"
  /\ b.stage = "loop" => b.fn \in Merging
  /\ b.stage # "new" =>
       /\ b.fn = "Dmg" => user.content.koly
       /\ b.fn = "Warc" => user.content.head \in {"WARC", "gz"}
       /\ b.fn = "Compressed" => user.content.head \in Decodable

\* What is decompressed is kept in the temp file, and a tar or a cpio is read by one
\* call, which makes no other.
Unpacked(b) ==
  b.fn = "Compressed" =>
    /\ b.stage \in {"new", "made", "called"}
    /\ b.stage = "made" => temps[b.called] = Inner
    /\ b.stage = "called" =>
         /\ ~IsPlain(Inner)
         /\ Len(calls) > 1 => /\ Len(calls) = 2 /\ returned = "none"
                              /\ calls[2].fn = InnerFn("Compressed", Inner)
                              /\ calls[2].stage = "new"
         /\ Len(calls) = 1 /\ returned = "ok" => result.format = InnerFn("Compressed", Inner)

\* Only a call that has called another is below it, or has an answer.
Waits(b) == Len(calls) > 1 \/ returned # "none" => b.stage = "called"

FirstInv ==
  /\ user \in Files
  /\ user.set = "none" =>
       /\ calls # <<>> => Asked(calls[1]) /\ Unpacked(calls[1]) /\ Waits(calls[1])
       /\ calls = <<>> => returned # "none" /\ (returned = "ok" => Gives(result))

\* The first call is detect::open on the user's file.
LEMMA FirstInit == Init => FirstInv
<1> SUFFICES ASSUME Init PROVE FirstInv
  OBVIOUS
<1>1. PICK f : f = Frame("open", 0)
  OBVIOUS
<1>2. f.fn = "open" /\ f.stage = "new" /\ calls = <<f>> /\ user \in Files /\ returned = "none"
  BY <1>1 DEF Init, Frame
<1>3. calls # <<>> /\ Len(calls) = 1 /\ calls[1] = f
  BY <1>2
<1> QED BY <1>2, <1>3 DEF FirstInv, Asked, Unpacked, Waits

----------------------------------------------------------------------------
\* While a call on the user's file is in progress and has called no other.
Alone == calls # <<>> /\ Len(calls) = 1 /\ user.set = "none"

\* The call in progress is on the user's file, and what is known of it.
LEMMA AloneFacts ==
  ASSUME IndInv, FirstInv, Alone
  PROVE  /\ Top = calls[1] /\ IsFrame(Top) /\ Top.file = 0 /\ Here = user.content
         /\ FrameInv(Top) /\ Asked(Top) /\ Unpacked(Top) /\ Waits(Top) /\ IsReader(result)
         /\ NameOf(Top.file) = user.name
<1>1. Len(calls) = 1 /\ Top = calls[1] /\ FrameInv(Top) /\ IsFrame(Top)
  BY TopFacts DEF Alone, Top
<1>2. Owned(calls, 1, DOMAIN temps, Given)
  BY <1>1 DEF IndInv
<1>3. Top.file = 0
  <2>1. 1 \in 1..1
    OBVIOUS
  <2> QED BY <1>1, <1>2, <2>1 DEF Owned
<1>4. Here = user.content /\ NameOf(Top.file) = user.name
  BY <1>3 DEF Here, ContentOf, NameOf
<1> QED BY <1>1, <1>3, <1>4 DEF FirstInv, Alone, IndInv

\* What the stack looks like after the call went on, called another or returned.
LEMMA StackChanged ==
  ASSUME IndInv, calls # <<>>, NEW f
  PROVE  /\ LET w == WithTop(f)
            IN /\ Len(w) = Len(calls) /\ w[Len(calls)] = f /\ w # <<>>
               /\ Len(calls) > 1 => w[1] = calls[1]
         /\ Len(Below) = Len(calls) - 1
         /\ Len(calls) > 1 => Below # <<>> /\ Below[1] = calls[1]
         /\ Len(calls) = 1 => Below = <<>>
         /\ Len(calls) \in Nat \ {0}
<1>1. PICK S : calls \in Seq(S)
  BY DEF IndInv
<1>2. PICK n \in Nat \ {0} : n = Len(calls)
  BY TopFacts
<1>3. PICK w : w = WithTop(f)
  OBVIOUS
<1>4. /\ w \in Seq(S \union {f}) /\ Len(w) = n /\ w[n] = f
      /\ \A k \in 1 .. n - 1 : w[k] = calls[k]
  BY <1>1, <1>2, <1>3, TopReplaced DEF WithTop, Below
<1>5. /\ Below \in Seq(S) /\ Len(Below) = n - 1
      /\ \A k \in 1 .. n - 1 : Below[k] = calls[k]
  BY <1>1, <1>2, TopRemoved DEF Below
<1>6. w # <<>>
  BY <1>4
<1>7. n > 1 => Below # <<>> /\ Below[1] = calls[1] /\ w[1] = calls[1]
  <2>1. n > 1 => 1 \in 1 .. n - 1 /\ n - 1 > 0
    OBVIOUS
  <2> QED BY <1>4, <1>5, <2>1
<1>8. n = 1 => Below = <<>>
  BY <1>5
<1> QED BY <1>2, <1>3, <1>4, <1>5, <1>6, <1>7, <1>8

\* A call on the user's file goes on, with no other below or above it.
LEMMA AloneGoesOn ==
  ASSUME IndInv, FirstInv, Alone, NEW f, calls' = WithTop(f), user' = user,
         returned' = "none", Asked(f),
         f.fn = "Compressed" => f.stage = "new" \/ (f.stage = "made" /\ temps'[f.called] = Inner)
  PROVE  FirstInv'
<1>1. /\ Len(calls') = 1 /\ calls'[1] = f /\ calls' # <<>>
  BY StackChanged DEF Alone
<1>2. Inner' = Inner /\ Chosen' = Chosen
  BY DEF Inner, Chosen
<1>4. Asked(calls[1])'
  BY <1>1, <1>2 DEF Asked
<1>5. Unpacked(calls[1])'
  BY <1>1, <1>2 DEF Unpacked
<1>6. Waits(calls[1])'
  BY <1>1 DEF Waits
<1> QED BY <1>1, <1>4, <1>5, <1>6 DEF FirstInv, Alone

\* It calls another.
LEMMA AloneCalls ==
  ASSUME IndInv, FirstInv, Alone, returned = "none", NEW fn, Call(fn),
         Top.fn \notin {"open", "open_single"} \union BundleIds,
         Top.fn \in {"Dmg", "Warc", "Compressed"} => Top.stage # "new",
         Top.fn = "Compressed" => ~IsPlain(Inner) /\ fn = InnerFn("Compressed", Inner)
  PROVE  FirstInv'
<1>1. PICK e : e = [Top EXCEPT !.stage = "called"]
  OBVIOUS
<1>2. PICK f : f = Frame(fn, Top.called)
  OBVIOUS
<1>3. Asked(Top) /\ IsFrame(Top)
  BY AloneFacts
<1>4. e.fn = Top.fn /\ e.stage = "called"
  BY <1>1, <1>3 DEF IsFrame, FrameFields
<1>5. f.fn = fn /\ f.stage = "new"
  BY <1>2 DEF Frame
<1>6. calls' = Append(WithTop(e), f) /\ user' = user /\ returned' = "none"
  BY <1>1, <1>2 DEF Call
<1>7. PICK S : calls \in Seq(S)
  BY DEF IndInv
<1>8. PICK w : w = WithTop(e)
  OBVIOUS
<1>9. Len(w) = 1 /\ w[1] = e /\ w \in Seq(S \union {e})
  BY <1>7, <1>8, TopReplaced DEF Alone, WithTop, Below
<1>10. calls' # <<>> /\ Len(calls') = 2 /\ calls'[1] = e /\ calls'[2] = f
  <2>1. calls' = Append(w, f)
    BY <1>6, <1>8
  <2>2. w \in Seq(S \union {e} \union {f}) /\ 1 \in 1..1
    BY <1>9
  <2>3. /\ Len(calls') = 1 + 1 /\ calls'[1 + 1] = f
        /\ \A k \in 1..1 : calls'[k] = w[k]
    <3>1. PICK T : w \in Seq(T) /\ f \in T
      <4>1. f \in S \union {e} \union {f}
        OBVIOUS
      <4> QED BY <2>2, <4>1
    <3>2. Len(Append(w, f)) = Len(w) + 1 /\ Append(w, f)[Len(w) + 1] = f
          /\ \A k \in 1..Len(w) : Append(w, f)[k] = w[k]
      BY <3>1, AppendProperties
    <3> QED BY <1>9, <2>1, <3>2
  <2>4. 1 + 1 = 2
    OBVIOUS
  <2> HIDE <2>1
  <2> QED BY <1>9, <2>2, <2>3, <2>4
<1>11. Asked(e)
  BY <1>3, <1>4 DEF Asked
<1>12. Inner' = Inner /\ Chosen' = Chosen
  BY <1>6 DEF Inner, Chosen
<1>13. Asked(calls[1])'
  BY <1>6, <1>10, <1>11, <1>12 DEF Asked
<1>14. Unpacked(calls[1])'
  BY <1>4, <1>5, <1>6, <1>10, <1>12 DEF Unpacked
<1>15. Waits(calls[1])'
  BY <1>4, <1>10 DEF Waits
<1> QED BY <1>6, <1>10, <1>13, <1>14, <1>15 DEF FirstInv, Alone

\* It fails, or returns a reader.
LEMMA AloneFails ==
  ASSUME IndInv, FirstInv, Alone, NEW e, ReturnError(e)
  PROVE  FirstInv'
<1>1. calls' = <<>>
  BY StackChanged DEF ReturnError, Alone
<1>2. user' = user /\ returned' = "err"
  BY DEF ReturnError
<1> QED BY <1>1, <1>2 DEF FirstInv

LEMMA AloneReturns ==
  ASSUME IndInv, FirstInv, Alone, NEW r, IsReader(r), Gives(r), Return(r) \/ ReturnBare(r)
  PROVE  FirstInv'
<1>1. calls' = <<>>
  BY StackChanged DEF Return, ReturnBare, Alone
<1>2. user' = user /\ returned' = "ok" /\ Inner' = Inner /\ Chosen' = Chosen
  BY DEF Return, ReturnBare, Inner, Chosen
<1>3. result'.format = r.format /\ result'.leaf = r.leaf /\ result'.entry = r.entry
  BY DEF Return, ReturnBare, IsReader, ReaderFields
<1>4. Gives(result)'
  BY <1>2, <1>3 DEF Gives
<1> QED BY <1>1, <1>2, <1>4 DEF FirstInv

\* Every step leaves the calls below the top as they are.
LEMMA Shapes ==
  ASSUME Next, calls # <<>>, status = "opening"
  PROVE  /\ user' = user
         /\ \/ \E f : calls' = WithTop(f)
            \/ \E f, g : calls' = Append(WithTop(f), g)
            \/ calls' = Below
<1> DEFINE Shape == /\ user' = user
                    /\ \/ \E f : calls' = WithTop(f)
                       \/ \E f, g : calls' = Append(WithTop(f), g)
                       \/ calls' = Below
<1>1. ASSUME NEW c, NEW stage, Write(c, stage) \/ WriteOver(c, stage) PROVE Shape
  BY <1>1 DEF Write, WriteOver
<1>2. ASSUME NEW fn, Call(fn) PROVE Shape
  BY <1>2 DEF Call
<1>3. ASSUME NEW fn, Become(fn) PROVE Shape
  BY <1>3 DEF Become
<1>4. ASSUME NEW r, Return(r) \/ ReturnBare(r) \/ ReturnError(r) PROVE Shape
  BY <1>4 DEF Return, ReturnBare, ReturnError
<1>5. ASSUME NEW f, Resume(f) PROVE Shape
  BY <1>5 DEF Resume
<1>6. CASE IoFails
  BY <1>6, <1>4 DEF IoFails
<1>7. CASE PayloadFails \/ OpenEnvelope \/ OpenPayload \/ ShowEnvelope
  BY <1>7, <1>1, <1>2, <1>4 DEF PayloadFails, OpenEnvelope, OpenPayload, ShowEnvelope
<1>8. CASE Join \/ OpenWhole \/ OpenJoined
  BY <1>8, <1>1, <1>2, <1>3 DEF Join, OpenWhole, OpenJoined
<1>9. CASE OpenSingle
  <2>1. ReturnError("UnknownFormat") \/ \E fn : Become(fn)
    BY <1>9 DEF OpenSingle
  <2> QED BY <2>1, <1>3, <1>4
<1>10. CASE OpenLeaf \/ OpenInPlace
  <2>1. (\E r : Return(r)) \/ \E e : ReturnError(e)
    BY <1>10 DEF OpenLeaf, OpenInPlace
  <2> QED BY <2>1, <1>4
<1>11. CASE Carve \/ OpenCarved \/ OpenPlain \/ OpenImage
  BY <1>11, <1>1, <1>2, <1>4 DEF Carve, OpenCarved, OpenPlain, OpenImage
<1>12. CASE CarveFails
  BY <1>12, <1>4 DEF CarveFails
<1>13. CASE Wrap \/ InnerFails \/ WarcOpened \/ MembersOpened
  BY <1>13, <1>4 DEF Wrap, InnerFails, WarcOpened, MembersOpened
<1>14. CASE OpenWarc
  <2>1. (\E c : Write(c, "made")) \/ ReturnError("Corrupt")
    BY <1>14 DEF OpenWarc
  <2> QED BY <2>1, <1>1, <1>4
<1>15. CASE CopyData \/ OpenTar
  BY <1>15, <1>1, <1>2, <1>4 DEF CopyData, OpenTar
<1>16. CASE OpenData
  <2>1. PICK c : c = temps[Top.called]
    OBVIOUS
  <2>2. (\E d : WriteOver(d, "made")) \/ Call("Tar") \/ \E e : ReturnError(e)
    BY <1>16, <2>1 DEF OpenData
  <2> QED BY <2>2, <1>1, <1>2, <1>4
<1>17. CASE OpenMembers
  <2>1. (\E f : calls' = WithTop(f) /\ user' = user) \/ \E e : ReturnError(e)
    BY <1>17 DEF OpenMembers
  <2> QED BY <2>1, <1>4
<1>18. CASE NextMember \/ OpenMember
  BY <1>18, <1>1, <1>2 DEF NextMember, OpenMember
<1>19. CASE DecodeMember
  <2>1. (\E c : WriteOver(c, "made")) \/ ReturnError("Io")
    BY <1>19 DEF DecodeMember
  <2> QED BY <2>1, <1>1, <1>4
<1>20. CASE MemberOpened
  BY <1>20, <1>5 DEF MemberOpened
<1>21. ~Finish /\ ~Close
  BY DEF Finish, Close
<1>22. \/ IoFails \/ PayloadFails \/ Join \/ OpenWhole \/ OpenJoined \/ OpenSingle
       \/ OpenLeaf \/ OpenInPlace \/ Carve \/ OpenCarved \/ OpenPlain \/ OpenImage
       \/ CarveFails \/ Wrap \/ InnerFails \/ WarcOpened \/ MembersOpened \/ OpenWarc
       \/ CopyData \/ OpenTar \/ OpenData \/ OpenMembers \/ NextMember \/ OpenMember
       \/ DecodeMember \/ MemberOpened \/ OpenEnvelope \/ OpenPayload \/ ShowEnvelope
  BY <1>21 DEF Next, Step
<1> QED BY <1>6, <1>7, <1>8, <1>9, <1>10, <1>11, <1>12, <1>13, <1>14, <1>15, <1>16, <1>17,
           <1>18, <1>19, <1>20, <1>22, Zenon

\* What a call above it does leaves the call on the user's file as it is.
LEMMA DeepKeeps ==
  ASSUME IndInv, FirstInv, Next, Len(calls) > 1, user.set = "none",
         calls # <<>>, calls[1].fn # "Compressed"
  PROVE  FirstInv'
<1>1. status = "opening"
  BY TopFacts
<1>2. /\ user' = user
      /\ \/ \E f : calls' = WithTop(f)
         \/ \E f, g : calls' = Append(WithTop(f), g)
         \/ calls' = Below
  BY <1>1, Shapes
<1>3. PICK S : calls \in Seq(S)
  BY DEF IndInv
<1>4. calls' # <<>> /\ calls'[1] = calls[1]
  <2>1. ASSUME NEW f, calls' = WithTop(f) PROVE calls' # <<>> /\ calls'[1] = calls[1]
    BY <2>1, StackChanged
  <2>2. ASSUME NEW f, NEW g, calls' = Append(WithTop(f), g)
        PROVE  calls' # <<>> /\ calls'[1] = calls[1]
    <3>1. PICK w : w = WithTop(f)
      OBVIOUS
    <3>2. w \in Seq(S \union {f}) /\ Len(w) = Len(calls) /\ w[1] = calls[1] /\ Len(calls) \in Nat
      BY <1>3, <3>1, TopReplaced, StackChanged DEF WithTop, Below
    <3>3. PICK T : w \in Seq(T) /\ g \in T
      <4>1. w \in Seq(S \union {f} \union {g}) /\ g \in S \union {f} \union {g}
        BY <3>2
      <4> QED BY <4>1
    <3>4. Append(w, g) # <<>> /\ \A k \in 1..Len(w) : Append(w, g)[k] = w[k]
      BY <3>3, AppendProperties
    <3>5. 1 \in 1..Len(w)
      BY <3>2
    <3> QED BY <2>2, <3>1, <3>2, <3>4, <3>5, Zenon
  <2>3. CASE calls' = Below
    BY <2>3, StackChanged
  <2> QED BY <1>2, <2>1, <2>2, <2>3
<1>5. Asked(calls[1]) /\ calls[1].stage = "called"
  BY DEF FirstInv, Waits
<1>6. Chosen' = Chosen
  BY <1>2 DEF Chosen
<1>7. Asked(calls[1])'
  BY <1>2, <1>4, <1>5, <1>6 DEF Asked
<1>8. Unpacked(calls[1])' /\ Waits(calls[1])'
  BY <1>4, <1>5 DEF Unpacked, Waits
<1> QED BY <1>2, <1>4, <1>7, <1>8 DEF FirstInv

\* A handler that reads the file as it is has one step.
LEMMA LeafStep ==
  ASSUME Next, calls # <<>>, status = "opening", returned = "none", Top.stage = "new",
         Top.fn \notin Wrappers
  PROVE  Return(Leaf(Top.fn)) \/ \E e : ReturnError(e)
<1>1. Top.fn \notin Merging \union Envelopes
  BY DEF Wrappers, Merging, Envelopes
<1>2. CASE OpenLeaf \/ IoFails
  BY <1>2 DEF OpenLeaf, IoFails
<1>3. OpenLeaf \/ IoFails
  <2>1. ~Finish /\ ~Close
    BY DEF Finish, Close
  <2>2. ~(Wrap \/ InnerFails \/ MemberOpened \/ ShowEnvelope)
    BY DEF Wrap, InnerFails, MemberOpened, ShowEnvelope, Returned
  <2>3. ~(Join \/ OpenWhole \/ OpenJoined \/ OpenSingle)
    BY DEF Join, OpenWhole, OpenJoined, OpenSingle, Running, Wrappers
  <2>4. ~(OpenCarved \/ OpenPlain \/ CarveFails \/ OpenImage \/ OpenInPlace)
    BY DEF OpenCarved, OpenPlain, CarveFails, OpenImage, OpenInPlace, Running, Wrappers
  <2>5. ~Carve
    <3>1. ~Carves(Top.fn, Here)
      BY DEF Carves, Wrappers
    <3> QED BY <3>1 DEF Carve
  <2>6. ~(OpenWarc \/ WarcOpened \/ CopyData \/ OpenData \/ OpenTar)
    BY DEF OpenWarc, WarcOpened, CopyData, OpenData, OpenTar, Running, Wrappers
  <2>7. ~(OpenMembers \/ NextMember \/ DecodeMember \/ OpenMember \/ MembersOpened)
    BY <1>1 DEF OpenMembers, NextMember, DecodeMember, OpenMember, MembersOpened, Running
  <2>8. ~(OpenEnvelope \/ OpenPayload \/ PayloadFails)
    BY <1>1 DEF OpenEnvelope, OpenPayload, PayloadFails, Running
  <2> QED BY <2>1, <2>2, <2>3, <2>4, <2>5, <2>6, <2>7, <2>8 DEF Next, Step
<1> QED BY <1>2, <1>3

\* The tar or cpio in a compressed file is read, or fails.
LEMMA UnpackedKeeps ==
  ASSUME IndInv, FirstInv, Next, Len(calls) > 1, user.set = "none",
         calls # <<>>, calls[1].fn = "Compressed"
  PROVE  FirstInv'
<1> DEFINE g == InnerFn("Compressed", Inner)
<1>1. /\ status = "opening" /\ Asked(calls[1]) /\ Unpacked(calls[1])
      /\ calls[1].stage = "called"
  BY TopFacts DEF FirstInv, Waits
<1>2. /\ ~IsPlain(Inner) /\ Len(calls) = 2 /\ returned = "none" /\ calls[2].fn = g
      /\ calls[2].stage = "new"
  BY <1>1 DEF Unpacked
<1>3. Top.fn = g /\ Top.stage = "new"
  BY <1>2 DEF Top
<1>4. g \in {"Tar", "Cpio"}
  BY DEF InnerFn
<1>5. Return(Leaf(g)) \/ \E e : ReturnError(e)
  BY <1>1, <1>2, <1>3, <1>4, LeafStep DEF Wrappers
<1> HIDE DEF g
<1>6. user' = user /\ calls' = Below /\ (returned' = "ok" => result'.format = g)
      /\ returned' \in {"ok", "err"}
  BY <1>5 DEF Return, ReturnError, Leaf, Reader
<1>7. Len(calls') = 1 /\ calls'[1] = calls[1] /\ calls' # <<>>
  BY <1>2, <1>6, StackChanged
<1>8. Chosen' = Chosen /\ Inner' = Inner
  BY <1>6 DEF Chosen, Inner
<1>9. Asked(calls[1])'
  BY <1>1, <1>6, <1>7, <1>8 DEF Asked
<1>10. Unpacked(calls[1])'
  BY <1>1, <1>2, <1>6, <1>7, <1>8 DEF Unpacked, g
<1>11. Waits(calls[1])'
  BY <1>1, <1>7 DEF Waits
<1> QED BY <1>6, <1>7, <1>9, <1>10, <1>11 DEF FirstInv

\* It writes what it found in the file to a temp file.
LEMMA AloneWrites ==
  ASSUME IndInv, FirstInv, Alone, returned = "none", NEW c, NEW stage \in {"made", "copied"},
         Write(c, stage) \/ WriteOver(c, stage),
         Top.fn \notin {"open", "open_single"} \union BundleIds,
         Top.fn = "Dmg" => user.content.koly,
         Top.fn = "Warc" => user.content.head \in {"WARC", "gz"},
         Top.fn = "Compressed" => user.content.head \in Decodable /\ c = Inner /\ stage = "made"
  PROVE  FirstInv'
<1>1. Asked(Top) /\ IsFrame(Top)
  BY AloneFacts
<1>2. PICK t, f :
        /\ t \in TempIds \ DOMAIN temps
        /\ temps' = [x \in DOMAIN temps \union {t} |-> IF x = t THEN c ELSE temps[x]]
        /\ calls' = WithTop(f)
        /\ user' = user /\ returned' = "none"
        /\ f.fn = Top.fn /\ f.stage = stage /\ f.called = t
  <2>1. CASE Write(c, stage)
    <3>1. PICK t \in TempIds \ DOMAIN temps :
            /\ temps' = [x \in DOMAIN temps \union {t} |-> IF x = t THEN c ELSE temps[x]]
            /\ calls' = WithTop([Top EXCEPT !.own = @ \union {t}, !.called = t, !.stage = stage])
            /\ UNCHANGED <<user, returned, result, error, status>>
      BY <2>1 DEF Write
    <3>2. PICK f : f = [Top EXCEPT !.own = @ \union {t}, !.called = t, !.stage = stage]
      OBVIOUS
    <3>3. f.fn = Top.fn /\ f.stage = stage /\ f.called = t
      BY <1>1, <3>2 DEF IsFrame, FrameFields
    <3> QED BY <3>1, <3>2, <3>3
  <2>2. CASE WriteOver(c, stage)
    <3>1. PICK t \in TempIds \ DOMAIN temps :
            /\ temps' = [x \in DOMAIN temps \union {t} |-> IF x = t THEN c ELSE temps[x]]
            /\ calls' = WithTop([Top EXCEPT !.scratch = @ \union {Top.called},
                                            !.own = (@ \ {Top.called}) \union {t},
                                            !.called = t, !.stage = stage])
            /\ UNCHANGED <<user, returned, result, error, status>>
      BY <2>2 DEF WriteOver
    <3>2. PICK f : f = [Top EXCEPT !.scratch = @ \union {Top.called},
                                   !.own = (@ \ {Top.called}) \union {t},
                                   !.called = t, !.stage = stage]
      OBVIOUS
    <3>3. f.fn = Top.fn /\ f.stage = stage /\ f.called = t
      BY <1>1, <3>2 DEF IsFrame, FrameFields
    <3> QED BY <3>1, <3>2, <3>3
  <2> QED BY <2>1, <2>2
<1>3. temps'[t] = c
  BY <1>2
<1>4. Asked(f)
  BY <1>1, <1>2 DEF Asked
<1> QED BY <1>2, <1>3, <1>4, AloneGoesOn

\* A reader that reports the file's own format and needs nothing else.
LEMMA GivesItself ==
  ASSUME NEW r, r.format = Chosen, Chosen \notin {"Dmg", "Warc", "Compressed"}
  PROVE  Gives(r)
  BY DEF Gives

\* A call that is not one of the openers is the handler of the file.
LEMMA AloneIsChosen ==
  ASSUME IndInv, FirstInv, Alone, Top.fn \notin {"open", "open_single"}
  PROVE  Top.fn = Chosen
  BY AloneFacts DEF Asked

\* detect::open and open_single.
LEMMA FirstOpener ==
  ASSUME IndInv, FirstInv, Alone, Join \/ OpenWhole \/ OpenJoined \/ OpenSingle
  PROVE  FirstInv'
<1>1. Top.file = 0 /\ Asked(Top) /\ Here = user.content /\ NameOf(Top.file) = user.name
  BY AloneFacts
<1>2. ASSUME NEW fn \in {"open_single", Chosen}, Become(fn), returned = "none" PROVE FirstInv'
  <2>1. PICK f : f = Frame(fn, Top.file)
    OBVIOUS
  <2>2. f.fn = fn /\ f.stage = "new"
    BY <2>1 DEF Frame
  <2>3. calls' = WithTop(f) /\ user' = user /\ returned' = "none"
    BY <1>2, <2>1 DEF Become
  <2>4. Asked(f)
    BY <2>2 DEF Asked
  <2>5. f.fn = "Compressed" => f.stage = "new" \/ (f.stage = "made" /\ temps'[f.called] = Inner)
    BY <2>2
  <2> QED BY <2>3, <2>4, <2>5, AloneGoesOn, Zenon
<1>3. ~Join
  BY DEF Join, Alone
<1>4. CASE OpenWhole
  BY <1>2, <1>4 DEF OpenWhole, Running
<1>5. ~OpenJoined
  BY <1>1 DEF OpenJoined, Running, Asked
<1>6. CASE OpenSingle
  <2>1. returned = "none" /\ (ReturnError("UnknownFormat") \/ Become(Chosen))
    BY <1>1, <1>6 DEF OpenSingle, Running, Chosen
  <2> QED BY <1>2, <2>1, AloneFails
<1> QED BY <1>3, <1>4, <1>5, <1>6

\* The formats that read the file as it is.
LEMMA FirstLeaf ==
  ASSUME IndInv, FirstInv, Alone, OpenLeaf \/ OpenInPlace
  PROVE  FirstInv'
<1>1. Top.fn \notin {"open", "open_single", "Dmg", "Warc", "Compressed"}
  BY DEF OpenLeaf, OpenInPlace, Wrappers
<1>2. Top.fn = Chosen
  BY <1>1, AloneIsChosen
<1>3. Return(Leaf(Top.fn)) \/ \E e : ReturnError(e)
  BY DEF OpenLeaf, OpenInPlace
<1>4. PICK r : r = Leaf(Top.fn)
  OBVIOUS
<1>5. IsReader(r) /\ r.format = Top.fn
  BY <1>4 DEF Leaf, Reader, IsReader, ReaderFields
<1>6. Gives(r)
  BY <1>1, <1>2, <1>5, GivesItself
<1> QED BY <1>3, <1>4, <1>5, <1>6, AloneReturns, AloneFails

\* The handlers with one temp file, up to the call that opens it.
LEMMA FirstCarve ==
  ASSUME IndInv, FirstInv, Alone, Carve \/ CarveFails \/ OpenCarved \/ OpenImage
  PROVE  FirstInv'
<1>1. Asked(Top) /\ Unpacked(Top) /\ Here = user.content /\ Top = calls[1]
  BY AloneFacts
<1>2. CASE Carve
  <2>1. /\ Carves(Top.fn, Here) /\ returned = "none"
        /\ Write(Inner, "made")
    BY <1>1, <1>2 DEF Carve, Running, Carved, Inner
  <2>2. Top.fn \notin {"open", "open_single", "Warc"} \union BundleIds
    BY <2>1 DEF Carves, BundleIds
  <2>3. Top.fn = "Dmg" => user.content.koly
    BY <1>1, <2>1 DEF Carves
  <2>4. Top.fn = "Compressed" => user.content.head \in Decodable
    BY <1>1, <2>1 DEF Carves
  <2> QED BY <2>1, <2>2, <2>3, <2>4, AloneWrites
<1>3. CASE CarveFails
  BY <1>3, AloneFails DEF CarveFails
<1>4. CASE OpenCarved
  <2>1. /\ returned = "none" /\ Top.stage = "made"
        /\ Top.fn \in {"Sfx", "Crx", "Rpm", "Dmg", "AppImage", "Compressed"}
        /\ ~(Top.fn = "Compressed" /\ IsPlain(temps[Top.called]))
        /\ Call(InnerFn(Top.fn, temps[Top.called]))
    BY <1>4 DEF OpenCarved, Running
  <2>2. Top.fn \notin {"open", "open_single"} \union BundleIds
    BY <2>1 DEF BundleIds
  <2>3. PICK fn : fn = InnerFn(Top.fn, temps[Top.called])
    OBVIOUS
  <2>4. Top.fn = "Compressed" => temps[Top.called] = Inner
    BY <1>1, <2>1 DEF Unpacked
  <2>5. Top.fn = "Compressed" => ~IsPlain(Inner) /\ fn = InnerFn("Compressed", Inner)
    BY <2>1, <2>3, <2>4
  <2>6. Call(fn)
    BY <2>1, <2>3
  <2> QED BY <2>1, <2>2, <2>5, <2>6, AloneCalls
<1>5. CASE OpenImage
  <2>1. returned = "none" /\ Top.fn = "AppImage" /\ Call("Iso")
    BY <1>5 DEF OpenImage, Running
  <2>2. Top.fn \notin {"open", "open_single"} \union BundleIds
    BY <2>1 DEF BundleIds
  <2> QED BY <2>1, <2>2, AloneCalls
<1> QED BY <1>2, <1>3, <1>4, <1>5

\* What they hand on: the one entry, the reader of the tar or cpio, or an error.
LEMMA FirstWrap ==
  ASSUME IndInv, FirstInv, Alone, OpenPlain \/ Wrap \/ InnerFails
  PROVE  FirstInv'
<1>1. /\ Asked(Top) /\ Unpacked(Top) /\ Waits(Top) /\ Top = calls[1]
      /\ Top.file = 0 /\ NameOf(Top.file) = user.name /\ IsReader(result)
  BY AloneFacts
<1>2. CASE OpenPlain
  <2>1. /\ Top.fn = "Compressed" /\ Top.stage = "made" /\ IsPlain(temps[Top.called])
        /\ Return(Reader("Raw", temps[Top.called], {Top.called}, {}, EntryName(Top.file)))
    BY <1>2 DEF OpenPlain, Running
  <2>2. Chosen = "Compressed" /\ temps[Top.called] = Inner
    BY <1>1, <2>1 DEF Asked, Unpacked
  <2>3. PICK r : r = Reader("Raw", temps[Top.called], {Top.called}, {}, EntryName(Top.file))
    OBVIOUS
  <2>4. /\ IsReader(r) /\ r.format = "Raw" /\ r.leaf = Inner /\ r.entry = Strip(user.name)
    BY <1>1, <2>2, <2>3 DEF Reader, IsReader, ReaderFields, EntryName
  <2>5. user.content.head \in Decodable
    BY <1>1, <2>1 DEF Asked
  <2>6. Gives(r)
    BY <2>1, <2>2, <2>4, <2>5 DEF Gives, BundleIds
  <2> QED BY <2>1, <2>3, <2>4, <2>6, AloneReturns
<1>3. CASE Wrap
  <2>1. /\ returned = "ok" /\ Top.fn \notin Merging /\ Len(calls) = 1
        /\ Return([result EXCEPT !.format = Reports(Top.fn)])
    BY <1>3 DEF Wrap, Returned, Alone
  <2>2. Top.stage = "called"
    BY <1>1, <2>1 DEF Waits
  <2>3. Top.fn = Chosen /\ Chosen \notin BundleIds \union {"Conda", "Msi"}
    BY <1>1, <2>1, <2>2 DEF Asked, Merging
  <2>4. PICK r : r = [result EXCEPT !.format = Reports(Top.fn)]
    OBVIOUS
  <2>5. IsReader(r) /\ r.format = Reports(Top.fn)
    BY <1>1, <2>4 DEF IsReader, ReaderFields
  <2>6. Chosen = "Deb" => r.format = Chosen
    BY <2>3, <2>5 DEF Reports
  <2>7. /\ Chosen = "Dmg" => user.content.koly
        /\ Chosen = "Warc" => user.content.head \in {"WARC", "gz"}
        /\ Chosen = "Compressed" => user.content.head \in Decodable
    BY <1>1, <2>2, <2>3 DEF Asked
  <2>8. Chosen = "Compressed" => /\ ~IsPlain(Inner)
                                 /\ r.format = InnerFn("Compressed", Inner)
    BY <1>1, <2>1, <2>2, <2>3, <2>5 DEF Unpacked, Reports
  <2>9. Gives(r)
    BY <2>3, <2>6, <2>7, <2>8 DEF Gives
  <2> QED BY <2>1, <2>4, <2>5, <2>9, AloneReturns
<1>4. CASE InnerFails
  BY <1>4, AloneFails DEF InnerFails
<1> QED BY <1>2, <1>3, <1>4

\* WarcHandler.
LEMMA FirstWarc ==
  ASSUME IndInv, FirstInv, Alone, OpenWarc \/ WarcOpened
  PROVE  FirstInv'
<1>1. /\ Asked(Top) /\ Here = user.content /\ IsReader(result)
      /\ returned = "none" /\ Top.fn = "Warc"
  BY AloneFacts DEF OpenWarc, WarcOpened, Running
<1>2. Chosen = "Warc" /\ Top.fn \notin {"open", "open_single"} \union BundleIds
  BY <1>1, AloneIsChosen DEF BundleIds
<1>3. CASE OpenWarc
  <2>1. PICK packed : packed = EndsWith(NameOf(Top.file).exts, <<"warc", "gz">>)
    OBVIOUS
  <2>2. PICK c : c = IF packed THEN Here.inner[1] ELSE Here
    OBVIOUS
  <2>3. \/ ReturnError("Corrupt")
        \/ /\ Write(c, "made") /\ c.head = "WARC"
           /\ packed => Here.head = "gz"
    BY <1>3, <2>1, <2>2 DEF OpenWarc
  <2>4. CASE ReturnError("Corrupt")
    BY <2>4, AloneFails
  <2>5. CASE Write(c, "made") /\ c.head = "WARC" /\ (packed => Here.head = "gz")
    <3>1. user.content.head \in {"WARC", "gz"}
      BY <1>1, <2>2, <2>5
    <3> QED BY <1>1, <1>2, <2>5, <3>1, AloneWrites
  <2> QED BY <2>3, <2>4, <2>5
<1>4. CASE WarcOpened
  <2>1. /\ Top.stage = "made"
        /\ Return(Reader("Warc", temps[Top.called], {Top.called}, {}, NoName))
    BY <1>4 DEF WarcOpened, Running
  <2>2. PICK r : r = Reader("Warc", temps[Top.called], {Top.called}, {}, NoName)
    OBVIOUS
  <2>3. IsReader(r) /\ r.format = "Warc"
    BY <2>2 DEF Reader, IsReader, ReaderFields
  <2>4. user.content.head \in {"WARC", "gz"}
    BY <1>1, <2>1 DEF Asked
  <2>5. Gives(r)
    BY <1>2, <2>3, <2>4 DEF Gives, BundleIds
  <2> QED BY <2>1, <2>2, <2>3, <2>5, AloneReturns
<1> QED BY <1>3, <1>4

\* DebHandler.
LEMMA FirstDeb ==
  ASSUME IndInv, FirstInv, Alone, CopyData \/ OpenData \/ OpenTar
  PROVE  FirstInv'
<1>1. returned = "none" /\ Top.fn = "Deb"
  BY DEF CopyData, OpenData, OpenTar, Running
<1>2. Top.fn \notin {"open", "open_single"} \union BundleIds
  BY <1>1 DEF BundleIds
<1>3. ASSUME NEW c, NEW stage \in {"made", "copied"}, Write(c, stage) \/ WriteOver(c, stage)
      PROVE  FirstInv'
  BY <1>1, <1>2, <1>3, AloneWrites
<1>4. ASSUME Call("Tar") PROVE FirstInv'
  BY <1>1, <1>2, <1>4, AloneCalls
<1>5. CASE CopyData
  <2>1. (\E c : Write(c, "copied")) \/ ReturnError("Corrupt")
    BY <1>5 DEF CopyData
  <2> QED BY <1>3, <2>1, AloneFails
<1>6. CASE OpenData
  <2>1. PICK c : c = temps[Top.called]
    OBVIOUS
  <2>2. (\E d : WriteOver(d, "made")) \/ Call("Tar") \/ \E e : ReturnError(e)
    BY <1>6, <2>1 DEF OpenData
  <2> QED BY <1>3, <1>4, <2>2, AloneFails
<1>7. CASE OpenTar
  BY <1>4, <1>7 DEF OpenTar
<1> QED BY <1>5, <1>6, <1>7

\* MsiHandler and open_conda.
LEMMA FirstMembers ==
  ASSUME IndInv, FirstInv, Alone,
         OpenMembers \/ NextMember \/ DecodeMember \/ OpenMember \/ MemberOpened \/ MembersOpened
  PROVE  FirstInv'
<1>1. Asked(Top) /\ IsFrame(Top) /\ IsReader(result) /\ Top.fn \in Merging
  <2>1. Asked(Top) /\ IsFrame(Top) /\ IsReader(result)
    BY AloneFacts
  <2>2. Top.fn \in Merging \/ Top.stage = "loop"
    BY DEF OpenMembers, NextMember, DecodeMember, OpenMember, MemberOpened, MembersOpened,
           Running, Merging
  <2> QED BY <2>1, <2>2 DEF Asked
<1>2. /\ Asked(Top) /\ IsFrame(Top) /\ IsReader(result)
      /\ Top.fn \notin {"open", "open_single", "Dmg", "Warc", "Compressed"} \union BundleIds
  BY <1>1 DEF Merging, BundleIds
<1>3. Top.fn = Chosen
  BY <1>2, AloneIsChosen
<1>4. ASSUME NEW c, NEW stage \in {"made", "copied"}, Write(c, stage) \/ WriteOver(c, stage),
             returned = "none"
      PROVE  FirstInv'
  BY <1>2, <1>4, AloneWrites
<1>5. ASSUME NEW f, f.fn = Top.fn, calls' = WithTop(f), user' = user, returned' = "none"
      PROVE  FirstInv'
  <2>1. Asked(f)
    BY <1>1, <1>2, <1>3, <1>5 DEF Asked
  <2>2. f.fn # "Compressed"
    BY <1>2, <1>5
  <2> QED BY <1>5, <2>1, <2>2, AloneGoesOn
<1>6. CASE OpenMembers
  <2>1. PICK f : f = [Top EXCEPT !.stage = "loop"]
    OBVIOUS
  <2>2. f.fn = Top.fn
    BY <1>2, <2>1 DEF IsFrame, FrameFields
  <2>3. \/ calls' = WithTop(f) /\ user' = user /\ returned' = "none"
        \/ \E e : ReturnError(e)
    BY <1>6, <2>1 DEF OpenMembers, Running
  <2> QED BY <1>5, <2>2, <2>3, AloneFails
<1>7. CASE NextMember
  <2>1. PICK stage \in {"made", "copied"} : stage = IF Top.fn = "Conda" THEN "copied" ELSE "made"
    OBVIOUS
  <2>2. returned = "none" /\ Write(Here.inner[Top.next], stage)
    BY <1>7, <2>1 DEF NextMember, Running
  <2> QED BY <1>4, <2>2
<1>8. CASE DecodeMember
  <2>1. returned = "none" /\ ((\E c : WriteOver(c, "made")) \/ ReturnError("Io"))
    BY <1>8 DEF DecodeMember, Running
  <2> QED BY <1>4, <2>1, AloneFails
<1>9. CASE OpenMember
  <2>1. returned = "none" /\ \E fn : Call(fn)
    BY <1>9 DEF OpenMember, Running
  <2> QED BY <1>2, <2>1, AloneCalls
<1>10. CASE MemberOpened
  <2>1. PICK g : g = [Top EXCEPT !.stage = "loop", !.next = @ + 1, !.scratch = {}]
    OBVIOUS
  <2>2. PICK f : f = [g EXCEPT !.own = @ \union result.holds, !.reads = @ \union result.reads]
    OBVIOUS
  <2>3. IsFrame(g) /\ g.fn = Top.fn
    BY <1>2, <2>1 DEF IsFrame, FrameFields
  <2>4. f.fn = Top.fn
    BY <2>2, <2>3 DEF IsFrame, FrameFields
  <2>5. calls' = WithTop(f) /\ user' = user /\ returned' = "none"
    BY <1>10, <2>1, <2>2 DEF MemberOpened, Resume
  <2> QED BY <1>5, <2>4, <2>5
<1>11. CASE MembersOpened
  <2>1. PICK r : r = Reader(Top.fn, Here, Top.reads \union {Top.file}, {}, NoName)
    OBVIOUS
  <2>2. IsReader(r) /\ r.format = Top.fn
    BY <2>1 DEF Reader, IsReader, ReaderFields
  <2>3. Gives(r)
    BY <1>2, <1>3, <2>2, GivesItself
  <2>4. Return(r)
    BY <1>11, <2>1 DEF MembersOpened
  <2> QED BY <2>2, <2>3, <2>4, AloneReturns
<1> QED BY <1>6, <1>7, <1>8, <1>9, <1>10, <1>11

\* unwrap_envelope.
LEMMA FirstEnvelope ==
  ASSUME IndInv, FirstInv, Alone, OpenEnvelope \/ OpenPayload \/ ShowEnvelope \/ PayloadFails
  PROVE  FirstInv'
<1>1. Top.fn \in Envelopes
  BY DEF OpenEnvelope, OpenPayload, ShowEnvelope, PayloadFails
<1>2. Top.fn \notin {"open", "open_single", "Dmg", "Warc", "Compressed"} \union BundleIds
  BY <1>1 DEF Envelopes, BundleIds
<1>3. Top.fn = Chosen
  BY <1>2, AloneIsChosen
<1>4. PICK r : r = Leaf(Top.fn)
  OBVIOUS
<1>5. IsReader(r) /\ r.format = Top.fn
  BY <1>4 DEF Leaf, Reader, IsReader, ReaderFields
<1>6. Gives(r)
  BY <1>2, <1>3, <1>5, GivesItself
<1>7. CASE OpenEnvelope
  <2>1. returned = "none"
        /\ (ReturnError("Corrupt") \/ Return(Leaf(Top.fn)) \/ Write(Here.inner[1], "made"))
    BY <1>7 DEF OpenEnvelope, Running
  <2>2. CASE Write(Here.inner[1], "made")
    BY <1>2, <2>1, <2>2, AloneWrites
  <2> QED BY <1>4, <1>5, <1>6, <2>1, <2>2, AloneFails, AloneReturns
<1>8. CASE OpenPayload
  <2>1. returned = "none" /\ Call("open")
    BY <1>8 DEF OpenPayload, Running
  <2> QED BY <1>2, <2>1, AloneCalls
<1>9. CASE ShowEnvelope \/ PayloadFails
  <2>1. ReturnBare(r)
    BY <1>4, <1>9 DEF ShowEnvelope, PayloadFails
  <2> QED BY <1>5, <1>6, <2>1, AloneReturns
<1> QED BY <1>7, <1>8, <1>9

\* What the calls above it do and do not do to the call on the user's file.
LEMMA FirstNext == IndInv /\ FirstInv /\ [Next]_vars => FirstInv'
<1> SUFFICES ASSUME IndInv, FirstInv, [Next]_vars PROVE FirstInv'
  OBVIOUS
<1>1. CASE UNCHANGED vars
  BY <1>1 DEF vars, FirstInv, Asked, Unpacked, Waits, Gives, Chosen, Inner
<1>2. CASE Finish \/ Close
  <2>1. /\ user' = user /\ calls' = calls /\ returned' = returned /\ result' = result
        /\ calls = <<>>
    BY <1>2 DEF Finish, Close, IndInv, StatusInv
  <2> QED BY <2>1 DEF FirstInv, Gives, Chosen, Inner
<1>3. CASE Next /\ ~(Finish \/ Close)
  <2>1. calls # <<>> /\ Len(calls) \in Nat \ {0} /\ status = "opening"
    <3>1. calls # <<>>
      BY <1>3 DEF Next, Step, Running, Returned, Join, OpenWhole, OpenJoined, OpenSingle,
                  IoFails, OpenLeaf, Carve, OpenCarved, OpenPlain, CarveFails, OpenImage,
                  OpenInPlace, Wrap, InnerFails, OpenWarc, WarcOpened, CopyData, OpenData,
                  OpenTar, OpenMembers, NextMember, DecodeMember, OpenMember, MemberOpened,
                  MembersOpened, OpenEnvelope, OpenPayload, ShowEnvelope, PayloadFails
    <3> QED BY <3>1, TopFacts
  <2>2. CASE user.set # "none"
    <3>1. user' = user
      BY <1>3, <2>1, Shapes
    <3> QED BY <2>2, <3>1 DEF FirstInv
  <2>3. CASE user.set = "none" /\ Len(calls) > 1
    BY <1>3, <2>1, <2>3, DeepKeeps, UnpackedKeeps
  <2>4. CASE user.set = "none" /\ Len(calls) = 1
    <3>1. Alone
      BY <2>1, <2>4 DEF Alone
    <3>2. CASE IoFails
      BY <3>1, <3>2, AloneFails DEF IoFails
    <3>3. CASE Step \/ PayloadFails
      BY <1>3, <3>1, <3>3, FirstOpener, FirstLeaf, FirstCarve, FirstWrap, FirstWarc, FirstDeb,
         FirstMembers, FirstEnvelope DEF Step
    <3> QED BY <1>3, <3>2, <3>3 DEF Next
  <2>5. Len(calls) = 1 \/ Len(calls) > 1
    <3>1. PICK n \in Nat \ {0} : n = Len(calls)
      BY <2>1
    <3>2. n = 1 \/ n > 1
      OBVIOUS
    <3> QED BY <3>1, <3>2
  <2> QED BY <2>2, <2>3, <2>4, <2>5, Zenon
<1> QED BY <1>1, <1>2, <1>3

\* The call on the user's file is at every moment one of the openers or the handler
\* the file is for, and the reader handed out is what that handler gives (open_single,
\* the handlers' open).
THEOREM FirstInductive == Spec => [](IndInv /\ FirstInv)
<1>1. Init => FirstInv
  BY FirstInit
<1>2. IndInv /\ FirstInv /\ [Next]_vars => FirstInv'
  BY FirstNext
<1> QED BY <1>1, <1>2, InitInv, NextInv, PTL DEF Spec

\* A reader that was handed out is what the handler of the file gives.
LEMMA OpenGives ==
  ASSUME IndInv, FirstInv, status = "open", user.set = "none"
  PROVE  /\ Gives(result) /\ user \in Files
         /\ user.name \in [own : BOOLEAN, exts : Seq(STRING), caps : BOOLEAN]
<1>1. calls = <<>> /\ returned = "ok"
  BY DEF IndInv, StatusInv
<1>2. Gives(result) /\ user \in Files
  BY <1>1 DEF FirstInv
<1> QED BY <1>2, NameAssumption

\* However the file is nested and whatever shares its magic, a zip bundle, a conda or
\* msi package with its extension and a deb that open are shown as what they are, and
\* never as the zip, the ar or the disk image that is also in them (registry, probe).
THEOREM SpecificWins == Spec => []MostSpecific
<1>1. IndInv /\ FirstInv => MostSpecific
  <2> SUFFICES ASSUME IndInv, FirstInv, status = "open", user.set = "none", ~user.content.koly
               PROVE  /\ \A i \in 1..Len(Handlers) :
                           (/\ Handlers[i].rule = "both"
                            /\ Probe(Handlers[i], user.content.head, user.name.exts) > NONE) =>
                             result.format = Handlers[i].id
                      /\ user.content.head = "deb" => result.format = "Deb"
    BY DEF MostSpecific
  <2>1. Gives(result) /\ user.name.exts \in Seq(STRING)
    BY OpenGives
  <2>2. ASSUME NEW i \in 1..Len(Handlers), Handlers[i].rule = "both",
               Probe(Handlers[i], user.content.head, user.name.exts) > NONE
        PROVE  result.format = Handlers[i].id
    <3>1. i \in 1..55
      BY Places
    <3>2. Chosen = Handlers[i].id /\ Handlers[i].id \in BundleIds \union {"Conda", "Msi"}
      BY <2>1, <2>2, <3>1, BothChosen
    <3> QED BY <2>1, <3>2 DEF Gives
  <2>3. ASSUME user.content.head = "deb" PROVE result.format = "Deb"
    <3>1. Chosen \in {"Warc", "Dmg", "Compressed", "Deb"}
      BY <2>3, DebChosen
    <3>2. "deb" \notin Decodable \union {"WARC", "gz"}
      BY DEF Decodable, Compressed
    <3> QED BY <2>1, <2>3, <3>1, <3>2 DEF Gives
  <2> QED BY <2>2, <2>3
<1> QED BY <1>1, FirstInductive, PTL

\* The name of the entry is the file's, or the file's without a compressor's extension.
LEMMA Stripped ==
  ASSUME NEW name \in [own : BOOLEAN, exts : Seq(STRING), caps : BOOLEAN]
  PROVE  \E tail \in {<<>>} \union {<<e>> : e \in CompressorExts} :
           Strip(name).exts \o tail = name.exts
<1>1. CASE Strip(name) = name
  BY <1>1
<1>2. CASE Strip(name) # name
  <2>1. PICK n \in Nat : n = Len(name.exts) - 1
    BY <1>2 DEF Strip
  <2>2. /\ name.exts # <<>> /\ name.exts[n + 1] \in CompressorExts
        /\ Strip(name).exts = SubSeq(name.exts, 1, n)
    BY <1>2, <2>1 DEF Strip
  <2>3. PICK e \in CompressorExts : e = name.exts[n + 1]
    BY <2>2
  <2>4. SubSeq(name.exts, 1, n) \o <<e>> = name.exts
    BY <2>1, <2>2, <2>3
  <2> QED BY <2>2, <2>3, <2>4
<1> QED BY <1>1, <1>2

\* What is compressed is unwrapped exactly once: a tar or a cpio in it is opened, and
\* anything else, an archive too, is the only entry, under the file's own name without
\* its compressor's extension (CompressedHandler, SingleFileReader::new).
THEOREM OneEntry == Spec => []AsOneEntry
<1>1. IndInv /\ FirstInv => AsOneEntry
  <2> SUFFICES ASSUME IndInv, FirstInv, status = "open", user.set = "none", Chosen = "Compressed"
               PROVE  CASE Inner.head = "ustar" -> result.format = "Tar"
                        [] Inner.head = "cpio" -> result.format = "Cpio"
                        [] OTHER -> /\ result.format = "Raw" /\ result.leaf = Inner
                                    /\ ~user.name.caps =>
                                         \E tail \in {<<>>} \union {<<e>> : e \in CompressorExts} :
                                           result.entry.exts \o tail = user.name.exts
    BY Zenon DEF AsOneEntry, Chosen, Inner
  <2>1. /\ Gives(result)
        /\ user.name \in [own : BOOLEAN, exts : Seq(STRING), caps : BOOLEAN]
    BY OpenGives
  <2>2. /\ ~IsPlain(Inner) => result.format = InnerFn("Compressed", Inner)
        /\ IsPlain(Inner) => /\ result.format = "Raw" /\ result.leaf = Inner
                             /\ result.entry = Strip(user.name)
    BY <2>1 DEF Gives
  <2>3. CASE IsPlain(Inner)
    BY <2>1, <2>2, <2>3, Stripped DEF IsPlain
  <2>4. CASE ~IsPlain(Inner)
    BY <2>2, <2>4 DEF IsPlain, InnerFn
  <2> QED BY <2>3, <2>4
<1> QED BY <1>1, FirstInductive, PTL

----------------------------------------------------------------------------
(***************************************************************************)
(* The handler a whole file goes to.                                       *)
(***************************************************************************)
\* A set of numbers has a smallest.
LEMMA Smallest == ASSUME NEW S, S \subseteq Nat, S # {} PROVE \E k \in S : \A j \in S : k <= j
<1> DEFINE Smaller == OpToRel(<, Nat)
<1>1. IsWellFoundedOn(Smaller, Nat)
  BY NatLessThanWellFounded
<1>2. \A x \in Nat : \A y \in Nat : y < x => <<y, x>> \in Smaller
  BY DEF OpToRel
<1> HIDE DEF Smaller
<1>3. PICK k \in S : \A j \in S : ~(<<j, k>> \in Smaller)
  BY <1>1, WFMin
<1>4. ASSUME NEW j \in S PROVE k <= j
  <2>1. j \in Nat /\ k \in Nat /\ ~(<<j, k>> \in Smaller)
    BY <1>3
  <2>2. ~(j < k)
    BY <1>2, <2>1
  <2> QED BY <2>1, <2>2
<1> QED BY <1>4

\* What the table says of every row: its rule, what it opens, who shares a head with
\* a self-extractor's archive.
RowOk(r) ==
  /\ r.rule \in {"content", "both", "either", "guess", "half"}
  /\ r.id \notin {"open", "open_single", "Volume", "none"}
  /\ r.rule = "guess" <=> r.id \in LaterMagic
  /\ r.id \in LaterMagic => r.heads = {}
  /\ r.rule # "both" /\ r.id \in Wrappers => r.heads \cap SfxMagics = {}

LEMMA TableOk == \A i \in 1..55 : RowOk(Handlers[i])
<1>1. \A i \in 1..13 : RowOk(ZipBundles[i])
  BY DEF ZipBundles, ZipBundle, Row, RowOk, Wrappers, LaterMagic
<1>2. \A i \in 1..3 : RowOk(Zips[i])
  BY DEF Zips, Row, RowOk, Wrappers, SfxMagics, LaterMagic
<1>3. \A i \in 1..20 : RowOk(Modern[i])
  BY DEF Modern, Row, Guess, RowOk, Wrappers, SfxMagics, LaterMagic
<1>4. \A i \in 1..19 : RowOk(Legacy[i])
  BY DEF Legacy, Row, RowOk, Wrappers, SfxMagics, LaterMagic
<1>5. ASSUME NEW i \in 1..55 PROVE RowOk(Handlers[i])
  <2>1. CASE i \in 1..13
    BY <1>1, <2>1, Places, Zenon
  <2>2. CASE i \in 14..16
    <3>1. i - 13 \in 1..3 /\ 13 + (i - 13) = i
      BY <2>2
    <3>2. Handlers[i] = Zips[i - 13]
      BY <3>1, Places
    <3> QED BY <1>2, <3>1, <3>2
  <2>3. CASE i \in 17..36
    <3>1. i - 16 \in 1..20 /\ 16 + (i - 16) = i
      BY <2>3
    <3>2. Handlers[i] = Modern[i - 16]
      BY <3>1, Places
    <3> QED BY <1>3, <3>1, <3>2
  <2>4. CASE i \in 37..55
    <3>1. i - 36 \in 1..19 /\ 36 + (i - 36) = i
      BY <2>4
    <3>2. Handlers[i] = Legacy[i - 36]
      BY <3>1, Places
    <3> QED BY <1>4, <3>1, <3>2
  <2> QED BY <2>1, <2>2, <2>3, <2>4
<1> QED BY <1>5, Zenon

\* A row that has any confidence makes one be selected, and the selected row has no less
\* confidence than any other.
LEMMA SomeSelected ==
  ASSUME NEW head, NEW exts, NEW j \in 1..55, Probe(Handlers[j], head, exts) # NONE
  PROVE  Selected(head, exts) # {}
<1> DEFINE c == [k \in 1..Len(Handlers) |-> Probe(Handlers[k], head, exts)]
<1>1. Len(Handlers) = 55
  BY Places
<1>2. \A k \in 1..55 : c[k] = Probe(Handlers[k], head, exts)
  BY <1>1
<1>3. Selected(head, exts) =
        {k \in 1..55 : c[k] > 0 /\ \A l \in 1..55 : c[l] <= c[k] /\ (l < k => c[l] < c[k])}
  BY <1>1 DEF Selected, NONE
<1> HIDE DEF c
<1>4. \A k \in 1..55 : c[k] \in {0, 50, 100}
  <2>1. ASSUME NEW k \in 1..55 PROVE c[k] \in {0, 50, 100}
    <3>1. Probe(Handlers[k], head, exts) \in {0, 50, 100}
      BY Confidences
    <3> QED BY <1>2, <3>1
  <2> QED BY <2>1
<1>5. c[j] \in {50, 100}
  BY <1>2, <1>4 DEF NONE
<1>6. ASSUME NEW v \in {50, 100}, \E k \in 1..55 : c[k] = v, \A k \in 1..55 : c[k] <= v
      PROVE  Selected(head, exts) # {}
  <2> DEFINE S == {k \in 1..55 : c[k] = v}
  <2>1. S \subseteq Nat /\ S # {}
    BY <1>6
  <2>2. PICK k \in S : \A l \in S : k <= l
    BY <2>1, Smallest
  <2>3. k \in 1..55 /\ c[k] = v
    OBVIOUS
  <2>4. \A l \in 1..55 : l < k => c[l] # v
    BY <2>2, <2>3
  <2>5. \A l \in 1..55 : c[l] <= c[k] /\ (l < k => c[l] < c[k])
    BY <1>4, <1>6, <2>3, <2>4
  <2>6. k \in Selected(head, exts)
    BY <1>3, <2>3, <2>5
  <2> QED BY <2>6
<1>7. CASE \E k \in 1..55 : c[k] = 100
  BY <1>4, <1>6, <1>7
<1>8. CASE \A k \in 1..55 : c[k] # 100
  <2>1. c[j] = 50 /\ \A k \in 1..55 : c[k] <= 50
    BY <1>4, <1>5, <1>8
  <2> QED BY <1>6, <2>1
<1> QED BY <1>7, <1>8

LEMMA SelectedIs ==
  ASSUME NEW head, NEW exts, NEW i \in Selected(head, exts)
  PROVE  /\ i \in 1..55 /\ Probe(Handlers[i], head, exts) \in {50, 100}
         /\ \A j \in 1..55 : Probe(Handlers[j], head, exts) = 100 => Probe(Handlers[i], head, exts) = 100
<1> DEFINE c == [k \in 1..Len(Handlers) |-> Probe(Handlers[k], head, exts)]
<1>1. Len(Handlers) = 55
  BY Places
<1>2. \A k \in 1..55 : c[k] = Probe(Handlers[k], head, exts)
  BY <1>1
<1>3. Selected(head, exts) =
        {k \in 1..55 : c[k] > 0 /\ \A l \in 1..55 : c[l] <= c[k] /\ (l < k => c[l] < c[k])}
  BY <1>1 DEF Selected, NONE
<1> HIDE DEF c
<1>4. i \in 1..55 /\ c[i] > 0 /\ \A l \in 1..55 : c[l] <= c[i]
  BY <1>3
<1>5. Probe(Handlers[i], head, exts) \in {0, 50, 100}
  BY <1>4, Confidences
<1>6. c[i] \in {50, 100}
  BY <1>2, <1>4, <1>5
<1>7. ASSUME NEW j \in 1..55, Probe(Handlers[j], head, exts) = 100 PROVE c[i] = 100
  <2>1. c[j] = 100 /\ c[j] <= c[i]
    BY <1>2, <1>4, <1>7
  <2> QED BY <1>6, <2>1
<1> QED BY <1>2, <1>4, <1>6, <1>7

----------------------------------------------------------------------------
\* What is claimed is what is probed: a row that is selected is claimed, and a row that is
\* claimed is probed with some confidence.
LEMMA ClaimedIsProbed ==
  ASSUME NEW c, NEW exts, NEW i \in 1..55, Claims(Handlers[i], c, exts)
  PROVE  Probe(Handlers[i], c.head, exts) # NONE
<1>1. PICK r : r = Handlers[i]
  OBVIOUS
<1>2. /\ r.rule \in {"content", "both", "either", "guess", "half"} /\ Claims(r, c, exts)
      /\ r.rule = "guess" <=> r.id \in LaterMagic
  BY <1>1, TableOk DEF RowOk
<1>3. Probe(r, c.head, exts) # NONE
  <2>1. CASE r.rule = "both"
    BY <1>2, <2>1 DEF Claims, Probe, MAGIC, NONE
  <2>2. CASE r.rule = "guess"
    BY <1>2, <2>2 DEF Claims, Probe, EXTENSION, NONE
  <2>3. CASE r.rule = "half"
    BY <1>2, <2>3 DEF Claims, Probe, NONE
  <2>4. CASE r.rule \in {"content", "either"}
    BY <1>2, <2>4 DEF Claims, Probe, MAGIC, NONE
  <2> QED BY <1>2, <2>1, <2>2, <2>3, <2>4
<1> QED BY <1>1, <1>3

\* An extension guess never shadows what the bytes tell (Confidence::EXTENSION).
LEMMA SelectedIsClaimed ==
  ASSUME NEW c, NEW exts, NEW i \in Selected(c.head, exts), c.head \notin Compressed,
         c.head # "MZnsis"
  PROVE  i \in 1..55 /\ Claims(Handlers[i], c, exts)
<1>0. PICK r : r = Handlers[i]
  OBVIOUS
<1>1. /\ i \in 1..55 /\ Probe(r, c.head, exts) \in {50, 100}
      /\ \A j \in 1..55 : Probe(Handlers[j], c.head, exts) = 100 => Probe(r, c.head, exts) = 100
  BY <1>0, SelectedIs
<1>2. RowOk(r)
  BY <1>0, <1>1, TableOk
<1> SUFFICES Claims(r, c, exts)
  BY <1>0, <1>1
<1>3. CASE r.rule # "guess"
  <2>1. CASE r.rule = "both"
    BY <1>1, <1>2, <2>1 DEF Claims, Probe, NONE, RowOk
  <2>2. CASE r.rule = "half"
    BY <1>1, <1>2, <2>2 DEF Claims, Probe, NONE, RowOk
  <2>3. CASE r.rule \in {"content", "either"}
    BY <1>1, <1>2, <2>3 DEF Claims, Probe, NONE, RowOk
  <2> QED BY <1>2, <1>3, <2>1, <2>2, <2>3 DEF RowOk
<1>4. CASE r.rule = "guess"
  <2>1. Has(r, exts) /\ Probe(r, c.head, exts) = 50
    BY <1>1, <1>4 DEF Probe, NONE, EXTENSION
  <2>2. ASSUME c.head \in Telling PROVE FALSE
    <3>1. PICK j \in 1..55 : Handlers[j].rule \notin {"both", "half"} /\ c.head \in Handlers[j].heads
      BY <2>2, Places DEF Telling
    <3>2. Handlers[j].rule \in {"content", "either"}
      BY <3>1, TableOk DEF RowOk
    <3>3. Probe(Handlers[j], c.head, exts) = 100
      BY <3>1, <3>2 DEF Probe, MAGIC
    <3> QED BY <1>1, <2>1, <3>3
  <2> QED BY <1>2, <1>4, <2>1, <2>2 DEF Claims, RowOk
<1> QED BY <1>3, <1>4

\* Whatever is whole goes to a handler of what it is.
LEMMA WholeRoute ==
  ASSUME NEW c, NEW name, name.exts \in Seq(STRING), Whole(c, name.exts)
  PROVE  LET fn == Route(c, name)
         IN fn \notin {"none", "open", "open_single", "Volume"} /\ Made(fn, c, name.exts)
<1> DEFINE exts == name.exts
           row == Selected(c.head, exts)
           fn == Route(c, name)
           warc == EndsWith(exts, <<"warc">>) \/ EndsWith(exts, <<"warc", "gz">>)
           dmg == EndsWith(exts, <<"dmg">>)
           rows == {Handlers[i].id : i \in {j \in 1..Len(Handlers) : Claims(Handlers[j], c, exts)}}
           deep == {f \in {"Iso"} : c.deep = "iso"} \union {f \in {"HfsPlus"} : c.deep = "hfs"}
<1> SUFFICES fn \notin {"none", "open", "open_single", "Volume"} /\ Made(fn, c, exts)
  OBVIOUS
<1>1. \A f \in Shown(c, exts) : Made(f, c, exts)
  BY DEF Whole
<1>2. Shown(c, exts) # {}
  BY DEF Whole
<1>3. /\ warc => fn = "Warc"
      /\ ~warc /\ (dmg \/ c.koly) => fn = "Dmg"
      /\ ~warc /\ ~dmg /\ ~c.koly /\ IsCompressed(c.head, exts) => fn = "Compressed"
      /\ ~warc /\ ~dmg /\ ~c.koly /\ ~IsCompressed(c.head, exts) /\ c.head = "MZnsis" => fn = "Nsis"
      /\ ~warc /\ ~dmg /\ ~c.koly /\ ~IsCompressed(c.head, exts) /\ c.head # "MZnsis" =>
           /\ row # {} => fn = Handlers[CHOOSE i \in row : TRUE].id
           /\ row = {} => fn = CASE c.deep = "iso" -> "Iso" [] c.deep = "hfs" -> "HfsPlus" [] OTHER -> "none"
  BY Zenon DEF Route
<1>4. /\ warc => "Warc" \in Shown(c, exts)
      /\ c.koly => "Dmg" \in Shown(c, exts)
      /\ ~c.koly /\ IsCompressed(c.head, exts) => "Compressed" \in Shown(c, exts)
      /\ ~c.koly /\ c.head = "MZnsis" => "Nsis" \in Shown(c, exts)
      /\ ~c.koly => rows \subseteq Shown(c, exts) /\ deep \subseteq Shown(c, exts)
  BY DEF Shown
<1>5. Shown(c, exts) \subseteq {f \in {"Warc"} : warc} \union {f \in {"Dmg"} : c.koly}
        \union {f \in {"Compressed"} : IsCompressed(c.head, exts)}
        \union {f \in {"Nsis"} : c.head = "MZnsis"} \union rows \union deep
  BY DEF Shown
<1>6. Len(Handlers) = 55
  BY Places
<1> HIDE DEF fn, warc, dmg, deep, row, rows, exts
<1>7. CASE warc
  BY <1>1, <1>3, <1>4, <1>7
<1>8. CASE ~warc /\ c.koly
  BY <1>1, <1>3, <1>4, <1>8
<1>9. CASE ~warc /\ ~c.koly /\ dmg
  <2>1. exts # <<>> /\ exts[Len(exts)] = "dmg"
    BY <1>9, NamedFor DEF dmg, exts
  <2>2. Modern[19] = Row("Dmg", "either", {}, {"dmg"})
    BY DEF Modern
  <2>3. Handlers[35] = Row("Dmg", "either", {}, {"dmg"})
    <3>1. 19 \in 1..20 /\ 16 + 19 = 35
      OBVIOUS
    <3>2. Handlers[16 + 19] = Modern[19]
      BY <3>1, Places
    <3> QED BY <2>2, <3>1, <3>2
  <2>4. Claims(Handlers[35], c, exts) /\ Handlers[35].id = "Dmg"
    BY <2>1, <2>3 DEF Claims, Row, Has, LaterMagic
  <2>5. "Dmg" \in rows
    <3>1. 35 \in 1..Len(Handlers)
      BY <1>6
    <3> QED BY <2>4, <3>1 DEF rows
  <2> QED BY <1>1, <1>3, <1>4, <1>9, <2>5
<1>10. CASE ~warc /\ ~c.koly /\ ~dmg /\ (IsCompressed(c.head, exts) \/ c.head = "MZnsis")
  BY <1>1, <1>3, <1>4, <1>10
<1>11. CASE ~warc /\ ~c.koly /\ ~dmg /\ ~IsCompressed(c.head, exts) /\ c.head # "MZnsis" /\ row # {}
  <2>1. PICK i : i = CHOOSE k \in row : TRUE
    OBVIOUS
  <2>2. i \in row /\ fn = Handlers[i].id
    BY <1>3, <1>11, <2>1
  <2>3. c.head \notin Compressed
    BY <1>11 DEF IsCompressed
  <2>4. i \in 1..55 /\ Claims(Handlers[i], c, exts)
    BY <1>11, <2>2, <2>3, SelectedIsClaimed DEF row
  <2>5. Handlers[i].id \in rows
    BY <1>6, <2>4 DEF rows
  <2>6. Handlers[i].id \notin {"none", "open", "open_single", "Volume"}
    BY <2>4, TableOk DEF RowOk
  <2> QED BY <1>1, <1>4, <1>11, <2>2, <2>5, <2>6
<1>12. CASE ~warc /\ ~c.koly /\ ~dmg /\ ~IsCompressed(c.head, exts) /\ c.head # "MZnsis" /\ row = {}
  <2>1. rows = {}
    <3>1. ASSUME NEW i \in 1..55, Claims(Handlers[i], c, exts) PROVE FALSE
      <4>1. Probe(Handlers[i], c.head, exts) # NONE
        BY <3>1, ClaimedIsProbed
      <4> QED BY <1>12, <4>1, SomeSelected DEF row
    <3> QED BY <1>6, <3>1 DEF rows
  <2>2. deep # {}
    BY <1>2, <1>5, <1>12, <2>1
  <2>3. c.deep \in {"iso", "hfs"}
    BY <2>2 DEF deep
  <2>4. fn \in deep /\ fn \in {"Iso", "HfsPlus"}
    BY <1>3, <1>12, <2>3 DEF deep
  <2> QED BY <1>1, <1>4, <1>12, <2>4
<1> QED BY <1>7, <1>8, <1>9, <1>10, <1>11, <1>12

----------------------------------------------------------------------------
(***************************************************************************)
(* The invariant about whole files: every call is made on what it can      *)
(* open, as long as no envelope is below it, whose payload may be anything. *)
(***************************************************************************)
\* What a call is made on; a disk image is the user's file.
Good(fn, file, c, exts, koly) ==
  /\ fn = "open" => file = 0
  /\ fn = "open_single" => Whole(c, exts) /\ (c.koly => koly)
  /\ fn \notin {"open", "open_single"} => Made(fn, c, exts)
  /\ fn \in {"Dmg", "Volume"} => koly

GoodCall(f) ==
  /\ f.next \in Nat \ {0}
  /\ Good(f.fn, f.file, ContentOf(f.file), NameOf(f.file).exts, user.content.koly)

\* The handlers with one temp file.
Carvers == {"Sfx", "Crx", "Rpm", "Dmg", "AppImage", "Compressed"}

\* What a call on c, where u is the user's file, has written to a temp file and is
\* about to open: d.
Ready(fn, stage, d, c, u) ==
  /\ fn = "open" => d = u.content /\ u.set \in {"raw", "zip"}
  /\ fn \in Carvers => d = c.inner[1]
  /\ fn = "AppImage" => c.deep # "iso" /\ d.deep = "iso"
  /\ fn = "Deb" /\ stage = "copied" => d = c.inner[1]
  /\ fn = "Conda" /\ stage = "copied" => \E i \in 1..Len(c.inner) : d = c.inner[i]
  /\ fn \in {"Deb", "Conda"} /\ stage = "made" => Accepts("Tar", d)
  /\ fn = "Msi" => Accepts("Cab", d)

\* None of the first n calls is an envelope's.
Sure(n) == \A j \in 1..n : calls[j].fn \notin Envelopes

\* The errors that a disk may cause.
Allowed == error = "Io" \/ (user.content.koly /\ error = "UnknownFormat")

\* The user's file is no temp file, and a call in progress is one.
Sane ==
  /\ 0 \notin DOMAIN temps
  /\ returned \in {"none", "ok", "err"}
  /\ returned = "none" => calls # <<>>
  /\ user \in Files

\* Below the first envelope every call can do what it is for, and fails for the disk only.
WholeCalls ==
  /\ \A k \in 1..Len(calls) : Sure(k - 1) => GoodCall(calls[k])
  /\ (/\ calls # <<>> /\ returned = "none" /\ Sure(Len(calls) - 1)
      /\ Top.stage \in {"made", "copied"}) =>
       Ready(Top.fn, Top.stage, temps[Top.called], Here, user)
  /\ returned = "err" /\ Sure(Len(calls)) => Allowed

WholeInv == Sane /\ (IsWhole(user) => WholeCalls)

----------------------------------------------------------------------------
\* A handler that looks no further takes what it accepts.
LEMMA LeafMade ==
  ASSUME NEW fn, fn \notin Wrappers, NEW c, NEW exts
  PROVE  Made(fn, c, exts) <=> Accepts(fn, c)
BY DEF Made, Wrappers, Accepts

LEMMA NoNameEnds ==
  /\ ~EndsWith(<<>>, <<"warc">>) /\ ~EndsWith(<<>>, <<"warc", "gz">>)
  /\ \A t : t # 0 => NameOf(t).exts = <<>>
<1>1. Len(<<>>) = 0 /\ Len(<<"warc">>) = 1 /\ Len(<<"warc", "gz">>) = 2
  OBVIOUS
<1> QED BY <1>1 DEF EndsWith, NameOf, NoName

\* The archive behind a self-extractor is whole by its own bytes.
LEMMA AppendedWhole ==
  ASSUME NEW d, d.head \in SfxMagics, d.sound, ~d.koly
  PROVE  Whole(d, <<>>)
<1> DEFINE rows == {Handlers[i].id : i \in {j \in 1..Len(Handlers) : Claims(Handlers[j], d, <<>>)}}
           deep == {f \in {"Iso"} : d.deep = "iso"} \union {f \in {"HfsPlus"} : d.deep = "hfs"}
<1>1. Len(Handlers) = 55
  BY Places
<1>2. ~IsCompressed(d.head, <<>>) /\ d.head # "MZnsis"
  BY DEF IsCompressed, SfxMagics, Compressed
<1>3. Shown(d, <<>>) = rows \union deep
  BY <1>2, NoNameEnds DEF Shown
<1>4. ASSUME NEW i \in 1..55, Claims(Handlers[i], d, <<>>)
      PROVE  Made(Handlers[i].id, d, <<>>)
  <2>1. PICK r : r = Handlers[i]
    OBVIOUS
  <2>2. RowOk(r) /\ Claims(r, d, <<>>)
    BY <1>4, <2>1, TableOk
  <2>3. ~Has(r, <<>>)
    BY DEF Has
  <2>4. r.rule # "both" /\ d.head \in r.heads
    <3>1. CASE r.rule = "both"
      BY <2>2, <2>3, <3>1 DEF Claims, RowOk
    <3>2. CASE r.rule = "guess"
      BY <2>2, <2>3, <3>2 DEF Claims, RowOk
    <3>3. CASE r.rule = "half"
      BY <2>2, <3>3 DEF Claims, RowOk
    <3>4. CASE r.rule = "content"
      BY <2>2, <3>4 DEF Claims, RowOk
    <3>5. CASE r.rule = "either"
      BY <2>2, <2>3, <3>5 DEF Claims, RowOk
    <3> QED BY <2>2, <3>1, <3>2, <3>3, <3>4, <3>5 DEF RowOk
  <2>5. r.id \notin Wrappers
    BY <2>2, <2>4 DEF RowOk
  <2>6. d.head \in HeadsOf(r.id)
    <3>1. i \in {j \in 1..Len(Handlers) : Handlers[j].id = r.id}
      BY <1>1, <2>1
    <3>2. d.head \in UNION {Handlers[k].heads : k \in {j \in 1..Len(Handlers) : Handlers[j].id = r.id}}
      BY <2>1, <2>4, <3>1
    <3> QED BY <3>2, Zenon DEF HeadsOf
  <2> QED BY <2>1, <2>5, <2>6, LeafMade DEF Accepts
<1>5. ASSUME NEW f \in deep PROVE Made(f, d, <<>>)
  <2>1. (f = "Iso" /\ d.deep = "iso") \/ (f = "HfsPlus" /\ d.deep = "hfs")
    OBVIOUS
  <2>2. f \notin Wrappers /\ Accepts(f, d)
    BY <2>1 DEF Wrappers, Accepts
  <2> QED BY <2>2, LeafMade
<1>6. rows # {}
  <2>1. \E i \in 1..55 : Handlers[i].rule = "content" /\ d.head \in Handlers[i].heads
    <3>1. Handlers[16].rule = "content" /\ "PK34" \in Handlers[16].heads
      BY Rows DEF Row
    <3>2. /\ Modern[2].rule = "content" /\ "7z" \in Modern[2].heads
          /\ Modern[3].rule = "content" /\ "Rar" \in Modern[3].heads
          /\ Modern[5].rule = "content" /\ "MSCF" \in Modern[5].heads
      BY DEF Modern, Row
    <3>3. Handlers[16 + 2] = Modern[2] /\ Handlers[16 + 3] = Modern[3] /\ Handlers[16 + 5] = Modern[5]
      <4>1. 2 \in 1..20 /\ 3 \in 1..20 /\ 5 \in 1..20
        OBVIOUS
      <4> QED BY <4>1, Places
    <3>4. 16 \in 1..55 /\ 16 + 2 \in 1..55 /\ 16 + 3 \in 1..55 /\ 16 + 5 \in 1..55
      OBVIOUS
    <3>5. CASE d.head = "PK34"
      BY <3>1, <3>4, <3>5
    <3>6. CASE d.head = "7z"
      BY <3>2, <3>3, <3>4, <3>6
    <3>7. CASE d.head = "Rar"
      BY <3>2, <3>3, <3>4, <3>7
    <3>8. CASE d.head = "MSCF"
      BY <3>2, <3>3, <3>4, <3>8
    <3> QED BY <3>5, <3>6, <3>7, <3>8 DEF SfxMagics
  <2>2. PICK i \in 1..55 : Handlers[i].rule = "content" /\ d.head \in Handlers[i].heads
    BY <2>1
  <2>3. Claims(Handlers[i], d, <<>>)
    BY <2>2, TableOk DEF Claims, RowOk
  <2>4. Handlers[i].id \in rows
    BY <1>1, <2>3
  <2> QED BY <2>4
<1>7. \A f \in rows : Made(f, d, <<>>)
  BY <1>1, <1>4
<1> HIDE DEF rows, deep
<1> QED BY <1>3, <1>5, <1>6, <1>7 DEF Whole

----------------------------------------------------------------------------
(***************************************************************************)
(* What keeps the invariant when the top goes on, calls another or ends.   *)
(***************************************************************************)
\* The temp files that stay hold what they held.
TempsStay == \A t \in DOMAIN temps \cap DOMAIN temps' : temps'[t] = temps[t]

LEMMA FilesThere ==
  ASSUME NEW s, NEW n \in Nat, NEW disk, NEW given, Owned(s, n, disk, given)
  PROVE  \A k \in 1..n : s[k].file \in disk \union {0}
<1>1. ASSUME NEW k \in 1..n PROVE s[k].file \in disk \union {0}
  <2>1. s[k].file = 0 \/ \E j \in 1 .. k - 1 : s[k].file \in s[j].own
    BY DEF Owned
  <2>2. \A j \in 1 .. k - 1 : j \in 1..n
    OBVIOUS
  <2>3. \A j \in 1..n : s[j].own \subseteq disk
    BY DEF Owned, Held
  <2> QED BY <2>1, <2>2, <2>3
<1> QED BY <1>1

\* The calls that stay where they are stay good.
LEMMA GoodStays ==
  ASSUME IndInv, IndInv', user' = user, TempsStay,
         NEW n \in Nat, n = Len(calls), NEW l \in Nat, l = Len(calls'),
         NEW m \in 0..n, m <= l,
         \A k \in 1..m : /\ calls'[k].fn = calls[k].fn /\ calls'[k].file = calls[k].file
                          /\ calls'[k].next = calls[k].next
  PROVE  /\ \A k \in 1..m : /\ GoodCall(calls[k]) => GoodCall(calls[k])'
                            /\ ContentOf(calls[k].file)' = ContentOf(calls[k].file)
         /\ \A k \in 0..m : Sure(k)' <=> Sure(k)
<1>1. Owned(calls, n, DOMAIN temps, Given) /\ Owned(calls', l, DOMAIN temps', Given')
  BY DEF IndInv
<1>2. \A k \in 1..n : calls[k].file \in DOMAIN temps \union {0}
  BY <1>1, FilesThere
<1>3. \A k \in 1..l : calls'[k].file \in DOMAIN temps' \union {0}
  BY <1>1, FilesThere
<1>4. ASSUME NEW k \in 1..m
      PROVE  /\ GoodCall(calls[k]) => GoodCall(calls[k])'
             /\ ContentOf(calls[k].file)' = ContentOf(calls[k].file)
  <2>1. k \in 1..n /\ k \in 1..l
    OBVIOUS
  <2>2. /\ calls'[k].file = calls[k].file /\ calls'[k].fn = calls[k].fn
        /\ calls'[k].next = calls[k].next
    OBVIOUS
  <2>3. calls[k].file = 0 \/ calls[k].file \in DOMAIN temps \cap DOMAIN temps'
    BY <1>2, <1>3, <2>1, <2>2
  <2>4. ContentOf(calls[k].file)' = ContentOf(calls[k].file)
    BY <2>2, <2>3 DEF ContentOf, TempsStay
  <2>5. NameOf(calls[k].file)' = NameOf(calls[k].file)
    BY <2>2 DEF NameOf
  <2> QED BY <2>2, <2>4, <2>5 DEF GoodCall
<1>5. ASSUME NEW k \in 0..m PROVE Sure(k)' <=> Sure(k)
  <2>1. \A j \in 1..k : j \in 1..m
    OBVIOUS
  <2> QED BY <2>1 DEF Sure
<1> QED BY <1>4, <1>5

\* What is known of the top.
LEMMA GoodTop ==
  ASSUME IndInv, WholeInv, calls # <<>>, IsWhole(user), Sure(Len(calls) - 1)
  PROVE  /\ Good(Top.fn, Top.file, Here, NameOf(Top.file).exts, user.content.koly)
         /\ Top.next \in Nat \ {0}
         /\ returned = "none" /\ Top.stage \in {"made", "copied"} =>
              Ready(Top.fn, Top.stage, temps[Top.called], Here, user)
<1>1. PICK n \in Nat \ {0} : n = Len(calls)
  BY TopFacts
<1>2. n \in 1..n /\ Top = calls[n]
  BY <1>1, TopFacts
<1>3. GoodCall(calls[n])
  BY <1>1, <1>2 DEF WholeInv, WholeCalls
<1> QED BY <1>2, <1>3 DEF GoodCall, Here, WholeInv, WholeCalls

LEMMA SureTop ==
  ASSUME IndInv, calls # <<>>
  PROVE  Sure(Len(calls)) <=> Sure(Len(calls) - 1) /\ Top.fn \notin Envelopes
<1>1. PICK n \in Nat \ {0} : n = Len(calls)
  BY TopFacts
<1>2. \A j \in 1..n : j \in 1 .. n - 1 \/ j = n
  BY <1>1
<1>3. \A j \in 1 .. n - 1 : j \in 1..n
  BY <1>1
<1>4. n \in 1..n /\ Top = calls[n]
  BY <1>1, TopFacts
<1> QED BY <1>1, <1>2, <1>3, <1>4 DEF Sure

LEMMA TopGoesOn ==
  ASSUME IndInv, IndInv', WholeInv, calls # <<>>, user' = user, returned' = "none", TempsStay,
         0 \notin DOMAIN temps', NEW f, calls' = WithTop(f), f.file = Top.file,
         IsWhole(user) /\ Sure(Len(calls) - 1) =>
           /\ Good(f.fn, f.file, Here, NameOf(f.file).exts, user.content.koly)
           /\ f.next \in Nat \ {0}
           /\ f.stage \in {"made", "copied"} =>
                Ready(f.fn, f.stage, temps'[f.called], Here, user)
  PROVE  WholeInv'
<1>1. PICK n \in Nat \ {0} : n = Len(calls)
  BY TopFacts
<1>2. PICK S : calls \in Seq(S)
  BY DEF IndInv
<1>3. /\ calls' \in Seq(S \union {f}) /\ Len(calls') = n /\ calls'[n] = f
      /\ \A k \in 1 .. n - 1 : calls'[k] = calls[k]
  BY <1>1, <1>2, TopReplaced DEF WithTop, Below
<1>4. Top = calls[n] /\ Top' = f /\ calls' # <<>>
  BY <1>1, <1>3 DEF Top
<1>5. Sane'
  BY <1>4 DEF WholeInv, Sane
<1>6. ASSUME IsWhole(user) PROVE WholeCalls'
  <2>1. PICK m \in 0..n : m = n - 1
    BY <1>1
  <2>2. /\ \A k \in 1..m : GoodCall(calls[k]) => GoodCall(calls[k])'
        /\ \A k \in 0..m : Sure(k)' <=> Sure(k)
    <3>1. m \in 0..n /\ m <= n /\ n \in Nat /\ n = Len(calls')
      BY <1>1, <1>3, <2>1
    <3>2. \A k \in 1..m : /\ calls'[k].fn = calls[k].fn /\ calls'[k].file = calls[k].file
                          /\ calls'[k].next = calls[k].next
      BY <1>3, <2>1
    <3> QED BY <1>1, <3>1, <3>2, GoodStays
  <2>3. ContentOf(f.file)' = Here
    <3>1. Owned(calls, n, DOMAIN temps, Given) /\ Owned(calls', n, DOMAIN temps', Given')
      BY <1>1, <1>3 DEF IndInv
    <3>2. n \in 1..n /\ n \in Nat
      BY <1>1
    <3>3. f.file \in DOMAIN temps \union {0} /\ f.file \in DOMAIN temps' \union {0}
      BY <1>3, <1>4, <3>1, <3>2, FilesThere
    <3> QED BY <3>3 DEF ContentOf, TempsStay, Here
  <2>4. NameOf(f.file)' = NameOf(f.file)
    BY DEF NameOf
  <2>5. Sure(n - 1) => GoodCall(f)'
    BY <1>1, <1>6, <2>3, <2>4 DEF GoodCall
  <2>6. ASSUME NEW k \in 1..Len(calls'), Sure(k - 1)' PROVE GoodCall(calls[k])'
    <3>1. CASE k = n
      <4>1. Sure(n - 1)
        BY <2>1, <2>2, <2>6, <3>1
      <4> QED BY <1>3, <2>5, <3>1, <4>1
    <3>2. CASE k # n
      <4>1. k \in 1..m /\ k - 1 \in 0..m /\ k \in 1..n
        BY <1>3, <2>1, <3>2
      <4>2. Sure(k - 1)
        BY <2>2, <2>6, <4>1
      <4>3. GoodCall(calls[k])
        BY <1>1, <1>6, <4>1, <4>2 DEF WholeInv, WholeCalls
      <4> QED BY <2>2, <4>1, <4>3
    <3> QED BY <3>1, <3>2
  <2>7. Sure(n - 1)' => Sure(n - 1)
    BY <2>1, <2>2
  <2>8. (/\ Sure(n - 1)' /\ f.stage \in {"made", "copied"}) =>
          Ready(f.fn, f.stage, temps'[f.called], Here', user')
    <3>1. Here' = Here
      BY <1>4, <2>3 DEF Here
    <3> QED BY <1>1, <1>6, <2>7, <3>1
  <2> QED BY <1>3, <1>4, <2>6, <2>8 DEF WholeCalls
<1>7. IsWhole(user)' = IsWhole(user)
  OBVIOUS
<1> QED BY <1>5, <1>6, <1>7 DEF WholeInv

LEMMA TopCalls ==
  ASSUME IndInv, IndInv', WholeInv, calls # <<>>, user' = user, returned' = "none",
         temps' = temps, NEW e, NEW f, calls' = Append(WithTop(e), f),
         e.fn = Top.fn, e.file = Top.file, e.next = Top.next, f.next = 1, f.stage = "new",
         IsWhole(user) /\ Sure(Len(calls)) =>
           Good(f.fn, f.file, ContentOf(f.file), NameOf(f.file).exts, user.content.koly)
  PROVE  WholeInv'
<1>1. PICK n \in Nat \ {0} : n = Len(calls)
  BY TopFacts
<1>2. PICK S : calls \in Seq(S)
  BY DEF IndInv
<1>3. PICK w : w = WithTop(e)
  OBVIOUS
<1>4. /\ w \in Seq(S \union {e}) /\ Len(w) = n /\ w[n] = e
      /\ \A k \in 1 .. n - 1 : w[k] = calls[k]
  BY <1>1, <1>2, <1>3, TopReplaced DEF WithTop, Below
<1>5. /\ Len(calls') = n + 1 /\ calls'[n + 1] = f
      /\ \A k \in 1..n : calls'[k] = w[k]
  <2>1. PICK T : w \in Seq(T) /\ f \in T
    <3>1. w \in Seq(S \union {e} \union {f}) /\ f \in S \union {e} \union {f}
      BY <1>4
    <3> QED BY <3>1
  <2>2. Len(Append(w, f)) = Len(w) + 1 /\ Append(w, f)[Len(w) + 1] = f
        /\ \A k \in 1..Len(w) : Append(w, f)[k] = w[k]
    BY <2>1, AppendProperties
  <2> QED BY <1>3, <1>4, <2>2
<1>6. Top = calls[n] /\ Top' = f /\ calls' # <<>>
  <2>1. Top' = f
    BY <1>5 DEF Top
  <2>2. n + 1 # 0
    OBVIOUS
  <2> QED BY <1>1, <1>5, <2>1, <2>2, TopFacts
<1>7. Sane'
  BY <1>6 DEF WholeInv, Sane
<1>8. ASSUME IsWhole(user) PROVE WholeCalls'
  <2>1. /\ \A k \in 1..n : GoodCall(calls[k]) => GoodCall(calls[k])'
        /\ \A k \in 0..n : Sure(k)' <=> Sure(k)
    <3>1. \A k \in 1..n : /\ calls'[k].fn = calls[k].fn /\ calls'[k].file = calls[k].file
                          /\ calls'[k].next = calls[k].next
      <4>1. ASSUME NEW k \in 1..n
            PROVE  /\ calls'[k].fn = calls[k].fn /\ calls'[k].file = calls[k].file
                   /\ calls'[k].next = calls[k].next
        <5>1. CASE k = n
          BY <1>4, <1>5, <1>6, <5>1
        <5>2. CASE k # n
          BY <1>4, <1>5, <5>2
        <5> QED BY <5>1, <5>2
      <4> QED BY <4>1
    <3>2. TempsStay
      BY DEF TempsStay
    <3>3. n \in Nat /\ n + 1 \in Nat /\ n \in 0..n /\ n <= n + 1
      OBVIOUS
    <3> QED BY <1>1, <1>5, <3>1, <3>2, <3>3, GoodStays
  <2>2. Sure(n) => GoodCall(f)'
    BY <1>1, <1>8 DEF GoodCall, ContentOf, NameOf
  <2>3. ASSUME NEW k \in 1 .. n + 1, Sure(k - 1)' PROVE GoodCall(calls[k])'
    <3>1. CASE k = n + 1
      <4>1. Sure(n)
        <5>1. k - 1 = n /\ n \in 0..n
          BY <3>1
        <5> QED BY <2>1, <2>3, <5>1
      <4> QED BY <1>5, <2>2, <3>1, <4>1
    <3>2. CASE k # n + 1
      <4>1. k \in 1..n /\ k - 1 \in 0..n
        BY <3>2
      <4>2. Sure(k - 1)
        BY <2>1, <2>3, <4>1
      <4>3. GoodCall(calls[k])
        BY <1>1, <1>8, <4>1, <4>2 DEF WholeInv, WholeCalls
      <4> QED BY <2>1, <4>1, <4>3
    <3> QED BY <3>1, <3>2
  <2>4. f.stage \notin {"made", "copied"}
    OBVIOUS
  <2> QED BY <1>5, <1>6, <2>3, <2>4 DEF WholeCalls
<1>9. IsWhole(user)' = IsWhole(user)
  OBVIOUS
<1> QED BY <1>7, <1>8, <1>9 DEF WholeInv

LEMMA TopEnds ==
  ASSUME IndInv, IndInv', WholeInv, calls # <<>>, user' = user, returned' \in {"ok", "err"},
         TempsStay, 0 \notin DOMAIN temps', calls' = Below,
         IsWhole(user) /\ Sure(Len(calls) - 1) /\ returned' = "err" => Allowed'
  PROVE  WholeInv'
<1>1. PICK n \in Nat \ {0} : n = Len(calls)
  BY TopFacts
<1>2. PICK S : calls \in Seq(S)
  BY DEF IndInv
<1>3. PICK m \in 0..n : m = n - 1
  BY <1>1
<1>4. Len(calls') = m /\ \A k \in 1..m : calls'[k] = calls[k]
  BY <1>1, <1>2, <1>3, TopRemoved DEF Below
<1>5. Sane'
  BY DEF WholeInv, Sane
<1>6. ASSUME IsWhole(user) PROVE WholeCalls'
  <2>1. /\ \A k \in 1..m : GoodCall(calls[k]) => GoodCall(calls[k])'
        /\ \A k \in 0..m : Sure(k)' <=> Sure(k)
    <3>1. m \in Nat /\ n \in Nat /\ m <= m
      BY <1>3
    <3> QED BY <1>1, <1>3, <1>4, <3>1, GoodStays
  <2>2. ASSUME NEW k \in 1..m, Sure(k - 1)' PROVE GoodCall(calls[k])'
    <3>1. k \in 1..n /\ k - 1 \in 0..m
      BY <1>3
    <3>2. Sure(k - 1)
      BY <2>1, <2>2, <3>1
    <3>3. GoodCall(calls[k])
      BY <1>1, <1>6, <3>1, <3>2 DEF WholeInv, WholeCalls
    <3> QED BY <2>1, <3>3
  <2>3. Sure(m)' => Sure(n - 1)
    <3>1. m \in 0..m
      BY <1>3
    <3> QED BY <1>3, <2>1, <3>1
  <2>4. returned' = "err" /\ Sure(m)' => Allowed'
    BY <1>1, <1>6, <2>3
  <2>5. returned' # "none"
    OBVIOUS
  <2> QED BY <1>4, <2>2, <2>4, <2>5 DEF WholeCalls
<1>7. IsWhole(user)' = IsWhole(user)
  OBVIOUS
<1> QED BY <1>5, <1>6, <1>7 DEF WholeInv

----------------------------------------------------------------------------
(***************************************************************************)
(* The same, for the operators the actions are made of.                    *)
(***************************************************************************)
LEMMA WriteWhole ==
  ASSUME IndInv, IndInv', WholeInv, calls # <<>>, returned = "none",
         NEW c, NEW stage, Write(c, stage) \/ WriteOver(c, stage),
         IsWhole(user) /\ Sure(Len(calls) - 1) => Ready(Top.fn, stage, c, Here, user)
  PROVE  WholeInv'
<1>1. IsFrame(Top)
  BY TopFacts
<1>2. PICK t, f :
        /\ t \in TempIds \ DOMAIN temps
        /\ temps' = [x \in DOMAIN temps \union {t} |-> IF x = t THEN c ELSE temps[x]]
        /\ calls' = WithTop(f) /\ f.fn = Top.fn /\ f.file = Top.file /\ f.next = Top.next /\ f.stage = stage /\ f.called = t
        /\ user' = user /\ returned' = returned
  <2>1. CASE Write(c, stage)
    <3>1. PICK t \in TempIds \ DOMAIN temps :
            /\ temps' = [x \in DOMAIN temps \union {t} |-> IF x = t THEN c ELSE temps[x]]
            /\ calls' = WithTop([Top EXCEPT !.own = @ \union {t}, !.called = t, !.stage = stage])
            /\ UNCHANGED <<user, returned, result, error, status>>
      BY <2>1 DEF Write
    <3>2. PICK f : f = [Top EXCEPT !.own = @ \union {t}, !.called = t, !.stage = stage]
      OBVIOUS
    <3>3. f.fn = Top.fn /\ f.file = Top.file /\ f.next = Top.next /\ f.stage = stage /\ f.called = t
      BY <1>1, <3>2 DEF IsFrame, FrameFields
    <3> QED BY <3>1, <3>2, <3>3
  <2>2. CASE WriteOver(c, stage)
    <3>1. PICK t \in TempIds \ DOMAIN temps :
            /\ temps' = [x \in DOMAIN temps \union {t} |-> IF x = t THEN c ELSE temps[x]]
            /\ calls' = WithTop([Top EXCEPT !.scratch = @ \union {Top.called},
                                            !.own = (@ \ {Top.called}) \union {t},
                                            !.called = t, !.stage = stage])
            /\ UNCHANGED <<user, returned, result, error, status>>
      BY <2>2 DEF WriteOver
    <3>2. PICK f : f = [Top EXCEPT !.scratch = @ \union {Top.called},
                                   !.own = (@ \ {Top.called}) \union {t},
                                   !.called = t, !.stage = stage]
      OBVIOUS
    <3>3. f.fn = Top.fn /\ f.file = Top.file /\ f.next = Top.next /\ f.stage = stage /\ f.called = t
      BY <1>1, <3>2 DEF IsFrame, FrameFields
    <3> QED BY <3>1, <3>2, <3>3
  <2> QED BY <2>1, <2>2
<1>3. TempsStay
  BY <1>2 DEF TempsStay
<1>4. 0 \notin DOMAIN temps' /\ temps'[t] = c
  BY <1>2, OpenAssumption DEF WholeInv, Sane
<1>5. IsWhole(user) /\ Sure(Len(calls) - 1) =>
        Good(f.fn, f.file, Here, NameOf(f.file).exts, user.content.koly) /\ f.next \in Nat \ {0}
  BY <1>2, GoodTop
<1> QED BY <1>2, <1>3, <1>4, <1>5, TopGoesOn

LEMMA CallWhole ==
  ASSUME IndInv, IndInv', WholeInv, calls # <<>>, returned = "none", NEW fn, Call(fn),
         IsWhole(user) /\ Sure(Len(calls)) =>
           Good(fn, Top.called, ContentOf(Top.called), NameOf(Top.called).exts, user.content.koly)
  PROVE  WholeInv'
<1>1. IsFrame(Top)
  BY TopFacts
<1>2. PICK e, f : e = [Top EXCEPT !.stage = "called"] /\ f = Frame(fn, Top.called)
  OBVIOUS
<1>3. e.fn = Top.fn /\ e.file = Top.file /\ e.next = Top.next
  BY <1>1, <1>2 DEF IsFrame, FrameFields
<1>4. f.fn = fn /\ f.file = Top.called /\ f.stage = "new" /\ f.next = 1
  BY <1>2 DEF Frame
<1>5. calls' = Append(WithTop(e), f) /\ user' = user /\ temps' = temps /\ returned' = "none"
  BY <1>2 DEF Call
<1> QED BY <1>3, <1>4, <1>5, TopCalls

LEMMA BecomeWhole ==
  ASSUME IndInv, IndInv', WholeInv, calls # <<>>, returned = "none", NEW fn, Become(fn),
         IsWhole(user) /\ Sure(Len(calls) - 1) =>
           Good(fn, Top.file, Here, NameOf(Top.file).exts, user.content.koly)
  PROVE  WholeInv'
<1>1. PICK f : f = Frame(fn, Top.file)
  OBVIOUS
<1>2. f.fn = fn /\ f.file = Top.file /\ f.stage = "new" /\ f.next = 1
  BY <1>1 DEF Frame
<1>3. calls' = WithTop(f) /\ user' = user /\ temps' = temps /\ returned' = "none"
  BY <1>1 DEF Become
<1>4. TempsStay /\ 0 \notin DOMAIN temps'
  BY <1>3 DEF TempsStay, WholeInv, Sane
<1> QED BY <1>2, <1>3, <1>4, TopGoesOn

LEMMA DropStays ==
  ASSUME WholeInv, NEW files, Drop(files)
  PROVE  TempsStay /\ 0 \notin DOMAIN temps'
BY DEF Drop, TempsStay, WholeInv, Sane

LEMMA ErrorWhole ==
  ASSUME IndInv, IndInv', WholeInv, calls # <<>>, NEW e, ReturnError(e),
         IsWhole(user) /\ Sure(Len(calls) - 1) => e = "Io" \/ (user.content.koly /\ e = "UnknownFormat")
  PROVE  WholeInv'
<1>1. /\ calls' = Below /\ returned' = "err" /\ error' = e /\ user' = user
      /\ TempsStay /\ 0 \notin DOMAIN temps'
  BY DropStays DEF ReturnError
<1> QED BY <1>1, TopEnds DEF Allowed

LEMMA ReturnWhole ==
  ASSUME IndInv, IndInv', WholeInv, calls # <<>>, NEW r, Return(r) \/ ReturnBare(r)
  PROVE  WholeInv'
<1>1. /\ calls' = Below /\ returned' = "ok" /\ user' = user
      /\ TempsStay /\ 0 \notin DOMAIN temps'
  BY DropStays DEF Return, ReturnBare
<1> QED BY <1>1, TopEnds

----------------------------------------------------------------------------
(***************************************************************************)
(* The actions.                                                            *)
(***************************************************************************)
\* What the probes of four handlers know.
LEMMA KnownHeads ==
  /\ "cpio" \in HeadsOf("Cpio") /\ "ustar" \in HeadsOf("Tar")
  /\ "Cr24" \in HeadsOf("Crx") /\ "rpm" \in HeadsOf("Rpm")
  /\ "PK34" \in HeadsOf("Conda") /\ "CFB" \in HeadsOf("Msi")
<1>1. ASSUME NEW i \in 1..55, NEW id, NEW head, Handlers[i].id = id, head \in Handlers[i].heads
      PROVE  head \in HeadsOf(id)
  <2>1. i \in {j \in 1..Len(Handlers) : Handlers[j].id = id}
    BY <1>1, Places
  <2>2. head \in UNION {Handlers[k].heads : k \in {j \in 1..Len(Handlers) : Handlers[j].id = id}}
    BY <1>1, <2>1
  <2> QED BY <2>2, Zenon DEF HeadsOf
<1>2. /\ Modern[1].id = "Cpio" /\ "cpio" \in Modern[1].heads
      /\ Modern[4].id = "Tar" /\ "ustar" \in Modern[4].heads
      /\ Modern[8].id = "Rpm" /\ "rpm" \in Modern[8].heads
  BY DEF Modern, Row
<1>3. /\ Handlers[14].id = "Crx" /\ "Cr24" \in Handlers[14].heads
      /\ Handlers[15].id = "Conda" /\ "PK34" \in Handlers[15].heads
      /\ Handlers[26].id = "Msi" /\ "CFB" \in Handlers[26].heads
  BY Rows DEF Row
<1>4. Handlers[17] = Modern[1] /\ Handlers[20] = Modern[4] /\ Handlers[24] = Modern[8]
  <2>1. 1 \in 1..20 /\ 4 \in 1..20 /\ 8 \in 1..20 /\ 16 + 1 = 17 /\ 16 + 4 = 20 /\ 16 + 8 = 24
    OBVIOUS
  <2>2. Handlers[16 + 1] = Modern[1] /\ Handlers[16 + 4] = Modern[4] /\ Handlers[16 + 8] = Modern[8]
    BY <2>1, Places
  <2> QED BY <2>1, <2>2
<1>5. 17 \in 1..55 /\ 20 \in 1..55 /\ 24 \in 1..55 /\ 14 \in 1..55 /\ 15 \in 1..55 /\ 26 \in 1..55
  OBVIOUS
<1> QED BY <1>1, <1>2, <1>3, <1>4, <1>5

\* What is about to be opened is a temp file, and such a file has no name.
LEMMA CalledTemp ==
  ASSUME IndInv, WholeInv, calls # <<>>, Top.stage \in {"made", "copied"}
  PROVE  ContentOf(Top.called) = temps[Top.called] /\ NameOf(Top.called).exts = <<>>
<1>1. Top.called \in Top.own /\ Held(Top) \subseteq DOMAIN temps
  BY TopFacts DEF FrameInv
<1>2. Top.called # 0
  BY <1>1 DEF Held, WholeInv, Sane
<1> QED BY <1>2, NoNameEnds DEF ContentOf

\* The names that files have.
LEMMA NamesAreNames ==
  ASSUME WholeInv, NEW t
  PROVE  NameOf(t).exts \in Seq(STRING)
<1>1. user.name.exts \in Seq(STRING)
  BY NameAssumption DEF WholeInv, Sane
<1>2. NoName.exts = <<>> /\ <<>> \in Seq(STRING)
  BY DEF NoName
<1>3. NameOf(t) = user.name \/ NameOf(t) = NoName
  BY DEF NameOf
<1> QED BY <1>1, <1>2, <1>3

LEMMA OpenersWhole ==
  ASSUME IndInv, IndInv', WholeInv, Join \/ OpenWhole \/ OpenJoined \/ OpenSingle
  PROVE  WholeInv'
<1>0. calls # <<>> /\ returned = "none"
  BY DEF Join, OpenWhole, OpenJoined, OpenSingle, Running
<1>1. CASE Join
  <2>1. Top.fn = "open" /\ user.set \in {"raw", "zip"} /\ Write(user.content, "made")
    BY <1>1 DEF Join
  <2>2. Ready(Top.fn, "made", user.content, Here, user)
    BY <2>1 DEF Ready, Carvers
  <2> QED BY <1>0, <2>1, <2>2, WriteWhole
<1>2. CASE OpenWhole
  <2>1. /\ Top.fn = "open" /\ Become("open_single")
        /\ Top.file = 0 => user.set \in {"none", "stray"}
    BY <1>2 DEF OpenWhole
  <2>2. ASSUME IsWhole(user), Sure(Len(calls) - 1)
        PROVE  Good("open_single", Top.file, Here, NameOf(Top.file).exts, user.content.koly)
    <3>1. Top.file = 0
      BY <1>0, <2>1, <2>2, GoodTop DEF Good
    <3>2. Here = user.content /\ NameOf(Top.file) = user.name
      BY <3>1 DEF Here, ContentOf, NameOf
    <3>3. Whole(user.content, user.name.exts)
      BY <2>1, <2>2, <3>1 DEF IsWhole
    <3> QED BY <3>2, <3>3 DEF Good
  <2> QED BY <1>0, <2>1, <2>2, BecomeWhole
<1>3. CASE OpenJoined
  <2>1. /\ Top.fn = "open" /\ Top.stage = "made"
        /\ Call(IF user.set = "zip" THEN "Zip" ELSE "open_single")
    BY <1>3 DEF OpenJoined, Running
  <2>2. PICK fn : fn = IF user.set = "zip" THEN "Zip" ELSE "open_single"
    OBVIOUS
  <2>3. ASSUME IsWhole(user), Sure(Len(calls))
        PROVE  Good(fn, Top.called, ContentOf(Top.called), NameOf(Top.called).exts, user.content.koly)
    <3>1. Sure(Len(calls) - 1)
      BY <1>0, <2>3, SureTop
    <3>2. temps[Top.called] = user.content /\ user.set \in {"raw", "zip"}
      BY <1>0, <2>1, <2>3, <3>1, GoodTop DEF Ready
    <3>3. ContentOf(Top.called) = user.content /\ NameOf(Top.called).exts = <<>>
      BY <1>0, <2>1, <3>2, CalledTemp
    <3>4. CASE user.set = "zip"
      BY <2>2, <2>3, <3>3, <3>4 DEF IsWhole, Good
    <3>5. CASE user.set = "raw"
      BY <2>2, <2>3, <3>3, <3>5 DEF IsWhole, Good
    <3> QED BY <3>2, <3>4, <3>5
  <2> QED BY <1>0, <2>1, <2>2, <2>3, CallWhole
<1>4. CASE OpenSingle
  <2>1. PICK fn : fn = Route(Here, NameOf(Top.file))
    OBVIOUS
  <2>2. /\ Top.fn = "open_single"
        /\ \/ fn = "none" /\ ReturnError("UnknownFormat")
           \/ fn # "none" /\ Become(fn)
    BY <1>4, <2>1 DEF OpenSingle
  <2>3. ASSUME IsWhole(user), Sure(Len(calls) - 1)
        PROVE  fn # "none" /\ Good(fn, Top.file, Here, NameOf(Top.file).exts, user.content.koly)
    <3>1. Whole(Here, NameOf(Top.file).exts) /\ (Here.koly => user.content.koly)
      BY <1>0, <2>2, <2>3, GoodTop DEF Good
    <3>2. /\ fn \notin {"none", "open", "open_single", "Volume"}
          /\ Made(fn, Here, NameOf(Top.file).exts)
      BY <2>1, <3>1, NamesAreNames, WholeRoute
    <3>3. fn = "Dmg" => Here.koly
      BY <3>2 DEF Made
    <3> QED BY <3>1, <3>2, <3>3 DEF Good
  <2> QED BY <1>0, <2>2, <2>3, BecomeWhole, ErrorWhole
<1> QED BY <1>1, <1>2, <1>3, <1>4

LEMMA LeavesWhole ==
  ASSUME IndInv, IndInv', WholeInv, OpenLeaf \/ OpenInPlace \/ OpenImage
  PROVE  WholeInv'
<1>0. calls # <<>> /\ returned = "none" /\ Top.stage = "new"
  BY DEF OpenLeaf, OpenInPlace, OpenImage, Running
<1>1. CASE OpenLeaf
  <2>1. /\ Top.fn \notin Wrappers
        /\ \/ Accepts(Top.fn, Here) /\ Return(Leaf(Top.fn))
           \/ ~Accepts(Top.fn, Here) /\ \E e : ReturnError(e)
    BY <1>1 DEF OpenLeaf
  <2>2. IsWhole(user) /\ Sure(Len(calls) - 1) => Accepts(Top.fn, Here)
    <3>1. Top.fn \notin {"open", "open_single"}
      BY <2>1 DEF Wrappers
    <3> QED BY <1>0, <2>1, <3>1, GoodTop, LeafMade DEF Good
  <2> QED BY <1>0, <2>1, <2>2, ReturnWhole, ErrorWhole
<1>2. CASE OpenInPlace
  <2>1. /\ Top.fn = "AppImage" /\ Here.deep # "iso"
        /\ \/ Return(Leaf("AppImage"))
           \/ ~Here.inner[1].sound /\ ReturnError("Corrupt")
    BY <1>2 DEF OpenInPlace
  <2>2. IsWhole(user) /\ Sure(Len(calls) - 1) => Here.inner[1].sound
    BY <1>0, <2>1, GoodTop DEF Good, Made
  <2> QED BY <1>0, <2>1, <2>2, ReturnWhole, ErrorWhole
<1>3. CASE OpenImage
  <2>1. Top.fn = "AppImage" /\ Here.sound /\ Here.deep = "iso" /\ Call("Iso")
    BY <1>3 DEF OpenImage
  <2>2. Made("Iso", Here, NameOf(Top.file).exts)
    BY <2>1 DEF Made, Accepts
  <2>3. Top.called = Top.file
    BY <1>0, TopFacts DEF FrameInv
  <2>4. Good("Iso", Top.called, ContentOf(Top.called), NameOf(Top.called).exts, user.content.koly)
    BY <2>2, <2>3 DEF Good, Here
  <2> QED BY <1>0, <2>1, <2>4, CallWhole
<1> QED BY <1>1, <1>2, <1>3

LEMMA CarvesWhole ==
  ASSUME IndInv, IndInv', WholeInv, Carve \/ OpenCarved \/ OpenPlain \/ CarveFails
  PROVE  WholeInv'
<1>0. calls # <<>> /\ returned = "none"
  BY DEF Carve, OpenCarved, OpenPlain, CarveFails, Running
<1>1. CASE Carve
  <2>1. Carves(Top.fn, Here) /\ Write(Carved(Top.fn, Here), "made")
    BY <1>1 DEF Carve
  <2>2. /\ Top.fn \in Carvers /\ Carved(Top.fn, Here) = Here.inner[1]
        /\ Top.fn = "AppImage" => Here.deep # "iso" /\ Here.inner[1].deep = "iso"
    BY <2>1 DEF Carves, Carvers, Carved
  <2>3. Ready(Top.fn, "made", Carved(Top.fn, Here), Here, user)
    BY <2>2 DEF Ready, Carvers
  <2> QED BY <1>0, <2>1, <2>3, WriteWhole
<1>2. CASE OpenCarved
  <2>1. PICK d : d = temps[Top.called]
    OBVIOUS
  <2>2. PICK fn : fn = InnerFn(Top.fn, d)
    OBVIOUS
  <2>3. /\ Top.stage = "made" /\ Top.fn \in Carvers /\ ~(Top.fn = "Compressed" /\ IsPlain(d)) /\ Call(fn)
    BY <1>2, <2>1, <2>2 DEF OpenCarved, Running, Carvers
  <2>4. ASSUME IsWhole(user), Sure(Len(calls))
        PROVE  Good(fn, Top.called, ContentOf(Top.called), NameOf(Top.called).exts, user.content.koly)
    <3>1. Sure(Len(calls) - 1)
      BY <1>0, <2>4, SureTop
    <3>2. ContentOf(Top.called) = d /\ NameOf(Top.called).exts = <<>>
      BY <1>0, <2>1, <2>3, CalledTemp
    <3>3. Ready(Top.fn, Top.stage, d, Here, user)
      BY <1>0, <2>1, <2>3, <2>4, <3>1, GoodTop
    <3>4. /\ d = Here.inner[1]
          /\ Top.fn = "AppImage" => Here.deep # "iso" /\ d.deep = "iso"
      BY <2>3, <3>3 DEF Ready
    <3>5. /\ Made(Top.fn, Here, NameOf(Top.file).exts)
          /\ Top.fn = "Dmg" => user.content.koly
      BY <1>0, <2>3, <2>4, <3>1, GoodTop DEF Good, Carvers
    <3>6. CASE Top.fn = "Sfx"
      <4>1. d.head \in SfxMagics /\ d.sound /\ ~d.koly
        BY <3>4, <3>5, <3>6 DEF Made
      <4>2. fn = "open_single" /\ Whole(d, <<>>)
        BY <2>2, <3>6, <4>1, AppendedWhole DEF InnerFn
      <4> QED BY <3>2, <4>1, <4>2 DEF Good
    <3>7. CASE Top.fn # "Sfx"
      <4>1. fn \in {"Zip", "Cpio", "Volume", "Iso", "Tar"} /\ Accepts(fn, d)
        <5>1. CASE Top.fn = "Crx"
          BY <2>2, <3>4, <3>5, <5>1 DEF InnerFn, Made
        <5>2. CASE Top.fn = "Rpm"
          BY <2>2, <3>4, <3>5, <5>2 DEF InnerFn, Made
        <5>3. CASE Top.fn = "Dmg"
          BY <2>2, <3>4, <3>5, <5>3 DEF InnerFn, Made
        <5>4. CASE Top.fn = "AppImage"
          BY <2>2, <3>4, <3>5, <5>4 DEF InnerFn, Made, Accepts
        <5>5. CASE Top.fn = "Compressed"
          <6>1. d.head \in {"ustar", "cpio"} /\ d.sound
            BY <2>3, <3>4, <3>5, <5>5 DEF IsPlain, Made
          <6>2. fn = IF d.head = "ustar" THEN "Tar" ELSE "Cpio"
            BY <2>2, <5>5 DEF InnerFn
          <6> QED BY <6>1, <6>2, KnownHeads DEF Accepts
        <5> QED BY <2>3, <3>7, <5>1, <5>2, <5>3, <5>4, <5>5 DEF Carvers
      <4>2. fn = "Volume" => Top.fn = "Dmg"
        BY <2>2, <2>3, <3>7 DEF InnerFn, Carvers
      <4>3. Made(fn, d, <<>>)
        <5>1. fn \notin Wrappers
          BY <4>1 DEF Wrappers
        <5> QED BY <4>1, <5>1, LeafMade
      <4> QED BY <3>2, <3>5, <4>1, <4>2, <4>3 DEF Good
    <3> QED BY <3>6, <3>7
  <2> QED BY <1>0, <2>3, <2>4, CallWhole
<1>3. CASE OpenPlain
  BY <1>0, <1>3, ReturnWhole DEF OpenPlain
<1>4. CASE CarveFails
  <2>1. PICK e : ReturnError(e)
    BY <1>4 DEF CarveFails
  <2>2. /\ ~Carves(Top.fn, Here)
        /\ \/ Top.fn \in {"Sfx", "Dmg", "Crx", "Rpm", "Compressed"}
           \/ /\ Top.fn = "AppImage" /\ ~(Here.sound /\ Here.deep = "iso")
              /\ ~(Here.sound /\ Here.head = "AI" /\ Here.inner # <<>> /\ Here.inner[1].head = "hsqs")
    BY <1>4 DEF CarveFails
  <2>3. ASSUME IsWhole(user), Sure(Len(calls) - 1) PROVE FALSE
    <3>1. Made(Top.fn, Here, NameOf(Top.file).exts)
      BY <1>0, <2>2, <2>3, GoodTop DEF Good
    <3>2. CASE Top.fn \in {"Sfx", "Dmg", "Compressed"}
      BY <2>2, <3>1, <3>2 DEF Made, Carves
    <3>3. CASE Top.fn \in {"Crx", "Rpm"}
      BY <2>2, <3>1, <3>3, KnownHeads DEF Made, Carves
    <3>4. CASE Top.fn = "AppImage"
      BY <2>2, <3>1, <3>4 DEF Made, Carves
    <3> QED BY <2>2, <3>2, <3>3, <3>4
  <2> QED BY <1>0, <2>1, <2>3, ErrorWhole
<1> QED BY <1>1, <1>2, <1>3, <1>4

LEMMA WrapsWhole ==
  ASSUME IndInv, IndInv', WholeInv, IoFails \/ PayloadFails \/ Wrap \/ InnerFails
  PROVE  WholeInv'
<1>0. calls # <<>>
  BY DEF IoFails, PayloadFails, Wrap, InnerFails, Running, Returned
<1>1. CASE IoFails
  <2>1. /\ returned = "none"
        /\ \/ ReturnError("Io")
           \/ Top.fn = "Volume" /\ ReturnError("UnknownFormat")
    BY <1>1 DEF IoFails
  <2>2. IsWhole(user) /\ Sure(Len(calls) - 1) /\ Top.fn = "Volume" => user.content.koly
    BY <1>0, GoodTop DEF Good
  <2> QED BY <1>0, <2>1, <2>2, ErrorWhole
<1>2. CASE PayloadFails
  BY <1>0, <1>2, ReturnWhole DEF PayloadFails
<1>3. CASE Wrap
  BY <1>0, <1>3, ReturnWhole DEF Wrap
<1>4. CASE InnerFails
  <2>1. returned = "err" /\ Top.fn \notin Envelopes /\ ReturnError(error)
    BY <1>4 DEF InnerFails, Returned
  <2>2. IsWhole(user) /\ Sure(Len(calls) - 1) => Allowed
    BY <1>0, <2>1, SureTop DEF WholeInv, WholeCalls
  <2> QED BY <1>0, <2>1, <2>2, ErrorWhole DEF Allowed
<1> QED BY <1>1, <1>2, <1>3, <1>4

LEMMA WarcWhole ==
  ASSUME IndInv, IndInv', WholeInv, OpenWarc \/ WarcOpened
  PROVE  WholeInv'
<1>0. calls # <<>> /\ returned = "none"
  BY DEF OpenWarc, WarcOpened, Running
<1>1. CASE OpenWarc
  <2>1. PICK packed : packed = EndsWith(NameOf(Top.file).exts, <<"warc", "gz">>)
    OBVIOUS
  <2>2. PICK c : c = IF packed THEN Here.inner[1] ELSE Here
    OBVIOUS
  <2> DEFINE ok == /\ Here.sound
                   /\ packed => Here.head = "gz" /\ Here.inner # <<>>
                   /\ c.sound /\ c.head = "WARC"
  <2>3. /\ Top.fn = "Warc"
        /\ \/ ok /\ Write(c, "made")
           \/ ~ok /\ ReturnError("Corrupt")
    BY <1>1, <2>1, <2>2 DEF OpenWarc
  <2>4. ASSUME IsWhole(user), Sure(Len(calls) - 1) PROVE ok
    <3>1. Made("Warc", Here, NameOf(Top.file).exts)
      BY <1>0, <2>3, <2>4, GoodTop DEF Good
    <3> QED BY <2>1, <2>2, <3>1 DEF Made
  <2>5. Ready("Warc", "made", c, Here, user)
    BY DEF Ready, Carvers
  <2> HIDE DEF ok
  <2> QED BY <1>0, <2>3, <2>4, <2>5, WriteWhole, ErrorWhole
<1>2. CASE WarcOpened
  BY <1>0, <1>2, ReturnWhole DEF WarcOpened
<1> QED BY <1>1, <1>2

LEMMA DebWhole ==
  ASSUME IndInv, IndInv', WholeInv, CopyData \/ OpenData \/ OpenTar
  PROVE  WholeInv'
<1>0. calls # <<>> /\ returned = "none" /\ Top.fn = "Deb"
  BY DEF CopyData, OpenData, OpenTar, Running
<1>1. ASSUME IsWhole(user), Sure(Len(calls) - 1)
      PROVE  /\ Here.sound /\ Here.inner # <<>> /\ Here.inner[1].sound
             /\ \/ Here.inner[1].head = "ustar"
                \/ /\ Here.inner[1].head \in Decodable /\ Here.inner[1].inner # <<>>
                   /\ Accepts("Tar", Here.inner[1].inner[1])
  <2>1. Made("Deb", Here, NameOf(Top.file).exts)
    BY <1>0, <1>1, GoodTop DEF Good
  <2> QED BY <2>1 DEF Made
<1>2. "ustar" \notin Decodable
  BY DEF Decodable, Compressed
<1>3. \A d : Accepts("Tar", d) => Made("Tar", d, <<>>)
  BY LeafMade DEF Wrappers
<1>4. CASE CopyData
  <2>1. \/ Write(Here.inner[1], "copied")
        \/ ~(Here.sound /\ Here.inner # <<>>) /\ ReturnError("Corrupt")
    BY <1>4 DEF CopyData
  <2>2. Ready("Deb", "copied", Here.inner[1], Here, user)
    BY DEF Ready, Carvers
  <2> QED BY <1>0, <1>1, <2>1, <2>2, WriteWhole, ErrorWhole
<1>5. CASE OpenData
  <2>1. PICK d : d = temps[Top.called]
    OBVIOUS
  <2>2. Top.stage = "copied"
    BY <1>5 DEF OpenData, Running
  <2>3. \/ WriteOver(d.inner[1], "made") /\ d.head \in Decodable
        \/ ReturnError("Io")
        \/ d.head = "ustar" /\ Call("Tar")
        \/ /\ d.head # "ustar" /\ ReturnError("Unsupported")
           /\ ~(d.head \in Decodable /\ d.sound /\ d.inner # <<>>)
           /\ ~(d.head \in Decodable /\ ~(d.sound /\ d.inner # <<>>))
    BY <1>5, <2>1 DEF OpenData
  <2>4. ASSUME IsWhole(user), Sure(Len(calls) - 1) PROVE d = Here.inner[1]
    BY <1>0, <2>1, <2>2, <2>4, GoodTop DEF Ready
  <2>5. ContentOf(Top.called) = d /\ NameOf(Top.called).exts = <<>>
    BY <1>0, <2>1, <2>2, CalledTemp
  <2>6. CASE WriteOver(d.inner[1], "made") /\ d.head \in Decodable
    <3>1. IsWhole(user) /\ Sure(Len(calls) - 1) => Accepts("Tar", d.inner[1])
      BY <1>1, <1>2, <2>4, <2>6
    <3>2. Accepts("Tar", d.inner[1]) => Ready("Deb", "made", d.inner[1], Here, user)
      BY DEF Ready, Carvers
    <3> QED BY <1>0, <2>6, <3>1, <3>2, WriteWhole
  <2>7. CASE d.head = "ustar" /\ Call("Tar")
    <3>1. ASSUME IsWhole(user), Sure(Len(calls))
          PROVE  Good("Tar", Top.called, ContentOf(Top.called), NameOf(Top.called).exts,
                      user.content.koly)
      <4>1. d.sound
        BY <1>0, <1>1, <2>4, <3>1, SureTop
      <4>2. Accepts("Tar", d)
        BY <2>7, <4>1, KnownHeads DEF Accepts
      <4> QED BY <1>3, <2>5, <4>2 DEF Good
    <3> QED BY <1>0, <2>7, <3>1, CallWhole
  <2>8. CASE ReturnError("Io")
    BY <1>0, <2>8, ErrorWhole
  <2>9. CASE /\ d.head # "ustar" /\ ReturnError("Unsupported")
             /\ ~(d.head \in Decodable /\ d.sound /\ d.inner # <<>>)
             /\ ~(d.head \in Decodable /\ ~(d.sound /\ d.inner # <<>>))
    <3>1. ~(IsWhole(user) /\ Sure(Len(calls) - 1))
      BY <1>1, <2>4, <2>9
    <3> QED BY <1>0, <2>9, <3>1, ErrorWhole
  <2> QED BY <2>3, <2>6, <2>7, <2>8, <2>9
<1>6. CASE OpenTar
  <2>1. Top.stage = "made" /\ Call("Tar")
    BY <1>6 DEF OpenTar, Running
  <2>2. ASSUME IsWhole(user), Sure(Len(calls))
        PROVE  Good("Tar", Top.called, ContentOf(Top.called), NameOf(Top.called).exts,
                    user.content.koly)
    <3>1. Accepts("Tar", temps[Top.called])
      BY <1>0, <2>1, <2>2, SureTop, GoodTop DEF Ready
    <3>2. ContentOf(Top.called) = temps[Top.called] /\ NameOf(Top.called).exts = <<>>
      BY <1>0, <2>1, CalledTemp
    <3> QED BY <1>3, <3>1, <3>2 DEF Good
  <2> QED BY <1>0, <2>1, <2>2, CallWhole
<1> QED BY <1>4, <1>5, <1>6

LEMMA MembersWhole ==
  ASSUME IndInv, IndInv', WholeInv,
         \/ OpenMembers \/ NextMember \/ DecodeMember \/ OpenMember \/ MemberOpened \/ MembersOpened
  PROVE  WholeInv'
<1>0. calls # <<>> /\ Top.fn \in Merging
  BY DEF OpenMembers, NextMember, DecodeMember, OpenMember, MemberOpened, MembersOpened, Running,
         Returned, Merging
<1>1. IsFrame(Top)
  BY <1>0, TopFacts
<1>2. ASSUME IsWhole(user), Sure(Len(calls) - 1)
      PROVE  /\ Top.next \in Nat \ {0} /\ Here.sound
             /\ Top.fn = "Conda" =>
                  /\ Here.head = "PK34" /\ Here.inner # <<>>
                  /\ \A i \in 1..Len(Here.inner) :
                       /\ Here.inner[i].head = "zst" /\ Here.inner[i].sound
                       /\ Here.inner[i].inner # <<>> /\ Accepts("Tar", Here.inner[i].inner[1])
             /\ Top.fn = "Msi" =>
                  Here.head = "CFB" /\ \A i \in 1..Len(Here.inner) : Accepts("Cab", Here.inner[i])
  <2>1. Made(Top.fn, Here, NameOf(Top.file).exts) /\ Top.next \in Nat \ {0}
    BY <1>0, <1>2, GoodTop DEF Good, Merging
  <2> QED BY <2>1 DEF Made
<1>3. CASE OpenMembers
  <2>1. \/ ReturnError(IF Top.fn = "Msi" THEN "UnknownFormat" ELSE "Corrupt")
           /\ ~(/\ Here.sound /\ Here.head \in HeadsOf(Top.fn)
                /\ Top.fn = "Conda" => Here.inner # <<>>)
        \/ calls' = WithTop([Top EXCEPT !.stage = "loop"])
           /\ UNCHANGED <<user, temps, returned, result, error, status>>
    BY <1>3 DEF OpenMembers
  <2>2. returned = "none"
    BY <1>3 DEF OpenMembers, Running
  <2>3. CASE ~(/\ Here.sound /\ Here.head \in HeadsOf(Top.fn)
               /\ Top.fn = "Conda" => Here.inner # <<>>)
             /\ ReturnError(IF Top.fn = "Msi" THEN "UnknownFormat" ELSE "Corrupt")
    <3>1. ~(IsWhole(user) /\ Sure(Len(calls) - 1))
      BY <1>0, <1>2, <2>3, KnownHeads DEF Merging
    <3> QED BY <1>0, <2>3, <3>1, ErrorWhole
  <2>4. CASE calls' = WithTop([Top EXCEPT !.stage = "loop"])
             /\ UNCHANGED <<user, temps, returned, result, error, status>>
    <3>1. PICK f : f = [Top EXCEPT !.stage = "loop"]
      OBVIOUS
    <3>2. f.fn = Top.fn /\ f.file = Top.file /\ f.next = Top.next /\ f.stage = "loop"
      BY <1>1, <3>1 DEF IsFrame, FrameFields
    <3>3. TempsStay /\ 0 \notin DOMAIN temps'
      BY <2>4 DEF TempsStay, WholeInv, Sane
    <3>4. IsWhole(user) /\ Sure(Len(calls) - 1) =>
            Good(f.fn, f.file, Here, NameOf(f.file).exts, user.content.koly) /\ f.next \in Nat \ {0}
      BY <1>0, <3>2, GoodTop
    <3>5. calls' = WithTop(f) /\ user' = user /\ returned' = "none"
      BY <2>2, <2>4, <3>1
    <3> QED BY <1>0, <3>2, <3>3, <3>4, <3>5, TopGoesOn
  <2> QED BY <2>1, <2>3, <2>4
<1>4. CASE NextMember
  <2>1. PICK stage : stage = IF Top.fn = "Conda" THEN "copied" ELSE "made"
    OBVIOUS
  <2>2. PICK d : d = Here.inner[Top.next]
    OBVIOUS
  <2>3. returned = "none" /\ Top.next <= Len(Here.inner) /\ Write(d, stage)
    BY <1>4, <2>1, <2>2 DEF NextMember, Running
  <2>4. ASSUME IsWhole(user), Sure(Len(calls) - 1)
        PROVE  Ready(Top.fn, stage, d, Here, user)
    <3>1. Top.next \in 1..Len(Here.inner)
      BY <1>2, <2>3, <2>4
    <3>2. CASE Top.fn = "Conda"
      BY <2>1, <2>2, <3>1, <3>2 DEF Ready, Carvers
    <3>3. CASE Top.fn = "Msi"
      BY <1>2, <2>2, <2>4, <3>1, <3>3 DEF Ready, Carvers
    <3> QED BY <1>0, <3>2, <3>3 DEF Merging
  <2> QED BY <1>0, <2>3, <2>4, WriteWhole
<1>5. CASE DecodeMember
  <2>1. PICK d : d = temps[Top.called]
    OBVIOUS
  <2>2. /\ returned = "none" /\ Top.stage = "copied" /\ Top.fn = "Conda"
        /\ WriteOver(d.inner[1], "made") \/ ReturnError("Io")
    BY <1>5, <2>1 DEF DecodeMember, Running
  <2>3. ASSUME IsWhole(user), Sure(Len(calls) - 1)
        PROVE  Ready("Conda", "made", d.inner[1], Here, user)
    <3>1. \E i \in 1..Len(Here.inner) : d = Here.inner[i]
      BY <1>0, <2>1, <2>2, <2>3, GoodTop DEF Ready
    <3>2. Accepts("Tar", d.inner[1])
      BY <1>2, <2>2, <2>3, <3>1
    <3> QED BY <3>2 DEF Ready, Carvers
  <2> QED BY <1>0, <2>2, <2>3, WriteWhole, ErrorWhole
<1>6. CASE OpenMember
  <2>1. PICK fn : fn = IF Top.fn = "Conda" THEN "Tar" ELSE "Cab"
    OBVIOUS
  <2>2. returned = "none" /\ Top.stage = "made" /\ Call(fn)
    BY <1>6, <2>1 DEF OpenMember, Running
  <2>3. ASSUME IsWhole(user), Sure(Len(calls))
        PROVE  Good(fn, Top.called, ContentOf(Top.called), NameOf(Top.called).exts, user.content.koly)
    <3>1. Accepts(fn, temps[Top.called])
      BY <1>0, <2>1, <2>2, <2>3, SureTop, GoodTop DEF Ready, Merging
    <3>2. ContentOf(Top.called) = temps[Top.called] /\ NameOf(Top.called).exts = <<>>
      BY <1>0, <2>2, CalledTemp
    <3>3. fn \in {"Tar", "Cab"} /\ fn \notin Wrappers
      BY <2>1 DEF Wrappers
    <3>4. Made(fn, temps[Top.called], <<>>)
      BY <3>1, <3>3, LeafMade
    <3> QED BY <3>2, <3>3, <3>4 DEF Good
  <2> QED BY <1>0, <2>2, <2>3, CallWhole
<1>7. CASE MemberOpened
  <2>1. PICK e : e = [Top EXCEPT !.stage = "loop", !.next = @ + 1, !.scratch = {}]
    OBVIOUS
  <2>2. PICK f : f = [e EXCEPT !.own = @ \union result.holds, !.reads = @ \union result.reads]
    OBVIOUS
  <2>3. calls' = WithTop(f) /\ returned' = "none" /\ user' = user /\ Drop(Top.scratch)
    BY <1>7, <2>1, <2>2 DEF MemberOpened, Resume
  <2>4. f.fn = Top.fn /\ f.file = Top.file /\ f.next = Top.next + 1 /\ f.stage = "loop"
    BY <1>1, <2>1, <2>2 DEF IsFrame, FrameFields
  <2>5. TempsStay /\ 0 \notin DOMAIN temps'
    BY <2>3, DropStays
  <2>6. IsWhole(user) /\ Sure(Len(calls) - 1) =>
          Good(f.fn, f.file, Here, NameOf(f.file).exts, user.content.koly) /\ f.next \in Nat \ {0}
    BY <1>0, <2>4, GoodTop
  <2> QED BY <1>0, <2>3, <2>4, <2>5, <2>6, TopGoesOn
<1>8. CASE MembersOpened
  BY <1>0, <1>8, ReturnWhole DEF MembersOpened
<1> QED BY <1>3, <1>4, <1>5, <1>6, <1>7, <1>8

\* What is in an envelope may be anything.
LEMMA EnvelopesWhole ==
  ASSUME IndInv, IndInv', WholeInv, OpenEnvelope \/ OpenPayload \/ ShowEnvelope
  PROVE  WholeInv'
<1>0. calls # <<>> /\ Top.fn \in Envelopes
  BY DEF OpenEnvelope, OpenPayload, ShowEnvelope, Running, Returned
<1>1. CASE OpenEnvelope
  <2>1. /\ returned = "none"
        /\ \/ ~Accepts(Top.fn, Here) /\ ReturnError("Corrupt")
           \/ Return(Leaf(Top.fn))
           \/ Write(Here.inner[1], "made")
    BY <1>1 DEF OpenEnvelope, Running
  <2>2. IsWhole(user) /\ Sure(Len(calls) - 1) => Accepts(Top.fn, Here)
    BY <1>0, GoodTop DEF Good, Made, Envelopes
  <2>3. Ready(Top.fn, "made", Here.inner[1], Here, user)
    BY <1>0 DEF Ready, Carvers, Envelopes
  <2> QED BY <1>0, <2>1, <2>2, <2>3, ReturnWhole, ErrorWhole, WriteWhole
<1>2. CASE OpenPayload
  <2>1. returned = "none" /\ Call("open")
    BY <1>2 DEF OpenPayload, Running
  <2>2. ~Sure(Len(calls))
    BY <1>0, SureTop
  <2> QED BY <1>0, <2>1, <2>2, CallWhole
<1>3. CASE ShowEnvelope
  BY <1>0, <1>3, ReturnWhole DEF ShowEnvelope
<1> QED BY <1>1, <1>2, <1>3

LEMMA EndsWhole ==
  ASSUME IndInv, WholeInv, Finish \/ Close
  PROVE  WholeInv'
<1>1. calls = <<>> /\ calls' = calls /\ returned' = returned /\ error' = error /\ user' = user
  BY DEF Finish, Close, IndInv, StatusInv
<1>2. 0 \notin DOMAIN temps'
  <2>1. CASE Finish
    BY <2>1 DEF Finish, WholeInv, Sane
  <2>2. CASE Close
    BY <2>2, DropStays DEF Close
  <2> QED BY <2>1, <2>2
<1>3. Sane'
  BY <1>1, <1>2 DEF WholeInv, Sane
<1>4. Len(calls) = 0 /\ calls' = <<>>
  BY <1>1
<1>5. WholeCalls => WholeCalls'
  BY <1>1, <1>4 DEF WholeCalls, Sure, Allowed
<1> QED BY <1>1, <1>3, <1>5 DEF WholeInv

----------------------------------------------------------------------------
LEMMA WholeInit == Init => WholeInv
<1> SUFFICES ASSUME Init PROVE WholeInv
  OBVIOUS
<1>1. PICK f : f = Frame("open", 0)
  OBVIOUS
<1>2. f.fn = "open" /\ f.file = 0 /\ f.stage = "new" /\ f.next = 1
  BY <1>1 DEF Frame
<1>3. calls = <<f>> /\ Len(calls) = 1 /\ calls[1] = f /\ calls # <<>> /\ returned = "none"
  BY <1>1 DEF Init
<1>4. Top = f
  BY <1>3 DEF Top
<1>5. Sane
  BY <1>3 DEF Init, Sane
<1>6. GoodCall(calls[1])
  BY <1>2, <1>3 DEF GoodCall, Good
<1>7. WholeCalls
  BY <1>2, <1>3, <1>4, <1>6 DEF WholeCalls
<1> QED BY <1>5, <1>7 DEF WholeInv

LEMMA WholeNext == IndInv /\ WholeInv /\ [Next]_vars => WholeInv'
<1> SUFFICES ASSUME IndInv, WholeInv, [Next]_vars PROVE WholeInv'
  OBVIOUS
<1>1. IndInv'
  BY NextInv
<1>2. CASE UNCHANGED vars
  BY <1>2 DEF vars, WholeInv, Sane, WholeCalls, Sure, Allowed, GoodCall, ContentOf, NameOf, Top, Here
<1>3. CASE Next
  BY <1>1, <1>3, OpenersWhole, LeavesWhole, CarvesWhole, WrapsWhole, WarcWhole, DebWhole,
     MembersWhole, EnvelopesWhole, EndsWhole DEF Next, Step
<1> QED BY <1>2, <1>3

\* A file that is whole, by whatever of it one goes, opens unless the disk fails: no
\* guess from a name shadows what the bytes tell, every handler that unpacks hands on
\* what the next can read, and an envelope outlives its payload (open_single, the
\* registry's confidences, the handlers' open, unwrap_envelope).
THEOREM IntactOpens == Spec => []WholeOpens
<1>1. Init => IndInv /\ WholeInv
  BY InitInv, WholeInit
<1>2. IndInv /\ WholeInv /\ [Next]_vars => (IndInv /\ WholeInv)'
  BY NextInv, WholeNext
<1>3. IndInv /\ WholeInv => WholeOpens
  <2> SUFFICES ASSUME IndInv, WholeInv, status = "failed", IsWhole(user)
               PROVE  error = "Io" \/ (user.content.koly /\ error = "UnknownFormat")
    BY DEF WholeOpens
  <2>1. calls = <<>> /\ returned # "ok"
    BY DEF IndInv, StatusInv
  <2>2. returned = "err" /\ WholeCalls
    BY <2>1 DEF WholeInv, Sane
  <2>3. Sure(Len(calls))
    <3>1. Len(calls) = 0
      BY <2>1
    <3> QED BY <3>1 DEF Sure
  <2> QED BY <2>2, <2>3 DEF WholeCalls, Allowed
<1> QED BY <1>1, <1>2, <1>3, PTL DEF Spec
=============================================================================
