---------------------------- MODULE RecordFiles ----------------------------
(***************************************************************************)
(* The archives the five readers of Records are given: as their writers    *)
(* make them, and what may have befallen them since.  A file's `spots` are *)
(* where its writer put the records.  Nothing here is the readers': it is  *)
(* what their properties take the archives to be.                          *)
(***************************************************************************)
EXTENDS Cpio, FiniteSets

CONSTANTS WPressFiles, BlockLen, TarFiles, ZipFiles, RarFiles, MaxFailures

W == INSTANCE WPress WITH Shortenings <- Cuts
T == INSTANCE Tar WITH backing <- scan, Clippings <- Cuts
Z == INSTANCE Zip WITH verdict <- scan
R == INSTANCE Rar WITH keeps <- scan

----------------------------------------------------------------------------
\* cpio.  A spot: where the record begins, where its body is and how long, and
\* how many members come before it.
CpioSpot == [at : Nat, body : Nat, size : Nat, before : Nat]

MagicOf(f) == f.rec[0].magic
HeaderOf(f, k) == f.rec[f.spots[k].at]
SizeOf(f, k) == Number(HeaderOf(f, k).filesize, Base[MagicOf(f)])
NameLen(f, k) == Number(HeaderOf(f, k).namesize, Base[MagicOf(f)])
SumOf(f, k) == Number(HeaderOf(f, k).check, Base[MagicOf(f)])

\* In the ASCII dialects of hex everything begins at a multiple of four.
Aligned(d, n) == IF d = "odc" THEN n ELSE 4 * ((n + 3) \div 4)

NameEnd(f, k) == f.spots[k].at + HeaderLen[MagicOf(f)] + NameLen(f, k)

SoundSpot(f, k) ==
  /\ MagicOf(f) \in Dialects
  /\ f.spots[k].at \in DOMAIN f.rec
  /\ HeaderOf(f, k).magic = MagicOf(f) /\ HeaderOf(f, k).plain
  /\ NameLen(f, k) \in Nat \ {0} /\ SizeOf(f, k) \in Nat
  /\ MagicOf(f) = "crc" => SumOf(f, k) \in Nat

\* A record that another one follows.
Laid(f, k) ==
  /\ SoundSpot(f, k) /\ HeaderOf(f, k).name # Trailer
  /\ SizeOf(f, k) = f.spots[k].size
  /\ f.spots[k].body = Aligned(MagicOf(f), NameEnd(f, k))
  /\ f.spots[k + 1].at = Aligned(MagicOf(f), f.spots[k].body + f.spots[k].size)

\* A link's target may be padded with NULs.
Pads(target, bytes) ==
  /\ target \in Seq(Nat) /\ Len(target) <= Len(bytes)
  /\ \A j \in DOMAIN bytes : bytes[j] = IF j <= Len(target) THEN target[j] ELSE 0
  /\ target # <<>> => target[Len(target)] # 0

\* What the record holds: nothing that is listed, or the member m.  What spoiled
\* a body in the dialect that has sums, the sum tells.
Holds(f, k, m) ==
  LET bytes == Bytes(f, f.spots[k].body, f.spots[k].size)
  IN /\ m.path = PathOf(HeaderOf(f, k).name)
     /\ \/ /\ HeaderOf(f, k).type = "reg" /\ m.kind = "file"
           /\ Len(m.content) = f.spots[k].size
           /\ \/ m.content = bytes
              \/ MagicOf(f) = "crc" /\ SumOf(f, k) # Sum(bytes)
        \/ /\ HeaderOf(f, k).type = "dir" /\ m.kind = "dir"
        \/ /\ HeaderOf(f, k).type = "link" /\ m.kind = "link"
           /\ f.damage = "body" \/ Pads(m.content, bytes)

Kept(f, k) ==
  IF HeaderOf(f, k).type = "other" THEN f.spots[k + 1].before = f.spots[k].before
  ELSE /\ f.spots[k + 1].before = f.spots[k].before + 1
       /\ f.spots[k + 1].before <= Len(f.members)
       /\ Holds(f, k, f.members[f.spots[k + 1].before])

\* A record no walk gets past: its header is none, or leads where none is.
Spoiled(f, k) ==
  \/ ~SoundSpot(f, k)
  \/ /\ HeaderOf(f, k).name # Trailer
     /\ LET next == Aligned(MagicOf(f), Aligned(MagicOf(f), NameEnd(f, k)) + SizeOf(f, k))
        IN next > f.len \/ next \notin DOMAIN f.rec

\* The record every walk ends at: the trailer, or the first spoiled one.
EndsAt(f, last) ==
  \/ /\ last = Len(f.spots) /\ SoundSpot(f, last) /\ HeaderOf(f, last).name = Trailer
     /\ f.spots[last].before = Len(f.members)
     /\ f.damage \in IF NameEnd(f, last) <= f.len THEN {"none", "body"} ELSE {"cut"}
  \/ f.damage = "header" /\ Spoiled(f, last)

WrittenCpio(f) ==
  /\ f.spots \in Seq(CpioSpot) /\ f.spots # <<>>
  /\ f.spots[1].at = 0 /\ f.spots[1].before = 0
  /\ \A i, j \in DOMAIN f.spots : i <= j => f.spots[i].at <= f.spots[j].at
  /\ \E last \in DOMAIN f.spots :
       /\ EndsAt(f, last)
       /\ \A k \in 1 .. last - 1 : Laid(f, k) /\ Kept(f, k)

----------------------------------------------------------------------------
\* wpress.  A spot: where the block begins and how long its body is.  A block is
\* a member, of the path and the length parse_header reads in it.
WPressSpot == [at : Nat, size : Nat]

BlockOf(f, k) == f.rec[f.spots[k].at]
EndOf(f, k) == IF k = 0 THEN 0 ELSE f.spots[k].at + BlockLen + f.spots[k].size

Written(f, k) ==
  LET s == f.spots[k]
      m == f.members[k]
  IN /\ s.at = EndOf(f, k - 1) /\ s.at \in DOMAIN f.rec
     /\ W!SoundBlock(BlockOf(f, k)) /\ W!Decimal(BlockOf(f, k).size) = s.size
     /\ m.path = W!Join(W!Text(BlockOf(f, k).prefix), W!Text(BlockOf(f, k).name))
     /\ m.kind = "file" /\ m.content = Bytes(f, s.at + BlockLen, s.size)

\* A block no walk gets past, or that the file is cut in.
Broken(f, k) ==
  /\ f.spots[k].at = EndOf(f, k - 1) /\ f.spots[k].at \in DOMAIN f.rec
  /\ f.spots[k].at < f.len
  /\ \/ ~W!SoundBlock(BlockOf(f, k))
     \/ f.spots[k].at + BlockLen + W!Decimal(BlockOf(f, k).size) > f.len

WrittenWPress(f) ==
  /\ f.format = "wpress" /\ W!WPressFile(f)
  /\ HasFields(f, {"format", "len", "byte", "stream", "members", "spots", "damage"})
  /\ f.spots \in Seq(WPressSpot) /\ Len(f.spots) = Len(f.members)
  /\ f.members \in Seq(Range(f.members))
  /\ \E last \in 0 .. Len(f.spots) :
       /\ \A k \in 1 .. last : Written(f, k) /\ EndOf(f, k) <= f.len
       /\ \/ /\ f.damage = "none" /\ last = Len(f.spots)
             /\ \A p \in DOMAIN f.rec \union DOMAIN f.byte : p < EndOf(f, last)
          \/ f.damage = "short" /\ last > 0 /\ f.len = EndOf(f, last)
          \/ f.damage \in {"cut", "header"} /\ last < Len(f.spots) /\ Broken(f, last + 1)

----------------------------------------------------------------------------
\* tar.  What a cut leaves of the last body, the crate misses.
TarMember == [path : Seq(STRING), kind : {"file", "dir", "link"}, header : Nat,
              at : Nat, size : Nat, content : Seq(Nat)]

WrittenTar(f) ==
  /\ f.format = "tar" /\ f.len \in Nat /\ f.source \in {"path", "pathless", "stream"}
  /\ HasFields(f, {"len", "byte", "members"}) /\ f.members \in Seq(TarMember)
  /\ \A i \in DOMAIN f.members : f.members[i].kind = "file" =>
       /\ Len(f.members[i].content) = f.members[i].size
       /\ f.members[i].content = Bytes(f, f.members[i].at, f.members[i].size)
  /\ \/ /\ f.damage = "none"
        /\ \A i \in DOMAIN f.members :
             f.members[i].header < f.len /\ f.members[i].at + f.members[i].size <= f.len
     \/ /\ f.damage = "cut"
        /\ \E i \in DOMAIN f.members :
             f.members[i].header < f.len /\ f.members[i].at + f.members[i].size > f.len

----------------------------------------------------------------------------
\* zip and rar.  What befalls a member is the member's own; a zip that is cut
\* has lost its directory.
ZipMember == [path : Seq(STRING), kind : {"file", "dir", "link"}, content : Seq(Nat),
              lock : STRING, weak : BOOLEAN, lzma : BOOLEAN, props : BOOLEAN,
              sound : BOOLEAN]

WrittenZip(f) ==
  /\ f.format = "zip" /\ f.members \in Seq(ZipMember)
  /\ f.stream \in BOOLEAN /\ f.directory \in BOOLEAN
  /\ \/ /\ f.damage = "none"
        /\ \A i \in DOMAIN f.members : f.members[i].kind = "link" => f.members[i].sound
     \/ /\ f.damage = "cut" /\ ~f.directory

RarMember == [path : Seq(STRING), kind : {"file", "dir"}, content : Seq(Nat),
              lock : STRING, vague : BOOLEAN, sound : BOOLEAN]

WrittenRar(f) ==
  /\ f.format = "rar" /\ f.members \in Seq(RarMember)
  /\ f.path \in BOOLEAN /\ f.damage = "none"

----------------------------------------------------------------------------
ASSUME WrittenAssumption ==
  /\ BlockLen \in Nat \ {0}
  /\ \A f \in CpioFiles : WrittenCpio(f)
  /\ \A f \in WPressFiles : WrittenWPress(f)
  /\ \A f \in TarFiles : WrittenTar(f)
  /\ \A f \in ZipFiles : WrittenZip(f)
  /\ \A f \in RarFiles : WrittenRar(f)
===========================================================================
