----------------------------- MODULE TreeFiles -----------------------------
(***************************************************************************)
(* The volumes, images and archives the readers of Trees are given: as     *)
(* their writers make them, and what may have befallen them since.  A      *)
(* file's `members` are its tree, in the order in which a walk meets it.   *)
(* Nothing here is the readers': it is what their properties take the      *)
(* files to be.                                                            *)
(***************************************************************************)
EXTENDS Apfs, FiniteSets

CONSTANTS
  HfsImages, VolumeHeaderAt, PrivateDirs,
  DmgImages, SectorSize, KolySize,
  XarFiles, MinHeader, MaxToc, MaxTocDepth,
  WimFiles, WimHeaderLen, EndWidth, StackFrames,
  IsoImages, MaxIsoDepth,
  TreeCuts

H == INSTANCE HfsPlus
D == INSTANCE Dmg
X == INSTANCE Xar WITH HeapCuts <- TreeCuts
M == INSTANCE Wim WITH WimCuts <- TreeCuts
I == INSTANCE Iso WITH IsoCuts <- TreeCuts

IsSeq(s) == s \in Seq(Range(s))

----------------------------------------------------------------------------
(***************************************************************************)
(* A tree, counted.  Node 0 is the root, node k the k-th member.  Of the   *)
(* records a node has below it, Cuts(t, k)[i] is how many members come     *)
(* before the i-th, and End(t, k) how many there are when the last and all *)
(* that is below it are through.                                           *)
(***************************************************************************)
Tree(cuts, members) == [cuts |-> cuts, members |-> members]

Nodes(t) == 0 .. Len(t.members)
Cuts(t, k) == IF k = 0 THEN t.cuts ELSE t.members[k].cuts
PathOf(t, k) == IF k = 0 THEN <<>> ELSE t.members[k].path
IsDir(t, k) == k = 0 \/ t.members[k].kind = "dir"
End(t, k) == Cuts(t, k)[Len(Cuts(t, k))]

Counted(t) ==
  /\ IsSeq(t.members) /\ End(t, 0) = Len(t.members)
  /\ \A k \in DOMAIN t.members : /\ t.members[k].path \in Seq(STRING)
                                 /\ t.members[k].content \in Seq(Nat)

\* Node k has n records below it ...
Divided(t, k, n) ==
  n \in Nat /\ Cuts(t, k) \in Seq(Nat) /\ Len(Cuts(t, k)) = n + 1 /\ Cuts(t, k)[1] = k

\* ... of which the i-th is a member, of that name, or is none.
Child(t, k, i) == Cuts(t, k)[i] + 1
Listed(t, k, i, name) ==
  /\ Child(t, k, i) <= Len(t.members)
  /\ t.members[Child(t, k, i)].path = Append(PathOf(t, k), name)
  /\ Cuts(t, k)[i + 1] = End(t, Child(t, k, i))
LeftOut(t, k, i) == Cuts(t, k)[i + 1] = Cuts(t, k)[i]

\* How a body lies in a file: as it is, or packed, which is its length and its bytes.
StoredAs(bytes, packed, content) ==
  bytes = IF packed THEN <<Len(content)>> \o content ELSE content

----------------------------------------------------------------------------
\* The volume an image has, of one file system, where its offset is.
Bears(f, at, fs) ==
  /\ f.offset + at < f.len
  /\ ByteAt(f, f.offset + at) \in DOMAIN Volumes
  /\ Volumes[ByteAt(f, f.offset + at)].fs = fs
VolumeAt(f, at) == Volumes[ByteAt(f, f.offset + at)]

\* APFS.  `is` is the inode's number; a volume's `cuts` are its root's, and its
\* `fault` is a way down to what nobody can walk past.
ApfsIs(m, v, id) ==
  /\ m.is = id /\ id \in DOMAIN v.inodes /\ v.inodes[id].sound
  /\ m.kind = v.inodes[id].kind
  /\ m.kind = "file" =>
       Len(m.content) = IF v.inodes[id].packed THEN v.inodes[id].real ELSE v.inodes[id].size
  /\ m.kind = "link" => m.target = v.inodes[id].target

ApfsDir(v, t, k) == IF k = 0 THEN v.root ELSE t.members[k].is

ApfsNode(v, t, k) ==
  LET d == ApfsDir(v, t, k) IN
  IF IsDir(t, k)
  THEN /\ d \in DOMAIN v.dirs /\ Len(PathOf(t, k)) <= MaxDepth
       /\ Divided(t, k, Len(v.dirs[d]))
       /\ \A i \in DOMAIN v.dirs[d] :
            /\ Listed(t, k, i, v.dirs[d][i].name)
            /\ ApfsIs(t.members[Child(t, k, i)], v, v.dirs[d][i].id)
  ELSE Divided(t, k, 0)

ApfsTree(v, t) == Counted(t) /\ \A k \in Nodes(t) : ApfsNode(v, t, k)

ApfsBodies(f, v) ==
  \A k \in DOMAIN f.members : f.members[k].kind = "file" =>
    LET inode == v.inodes[f.members[k].is] IN
    StoredAs(Bytes(f, f.offset + inode.at, inode.stored), inode.packed, f.members[k].content)

Way == [dir : Nat, nth : Nat]

\* A step of the way that leads on, and one that goes no further.
LeadsOn(v, s, to) ==
  /\ s.dir \in DOMAIN v.dirs /\ s.nth \in DOMAIN v.dirs[s.dir]
  /\ v.dirs[s.dir][s.nth].id = to
  /\ to \in DOMAIN v.inodes /\ v.inodes[to].kind = "dir"

DeadEnd(v, s) ==
  \/ s.dir \notin DOMAIN v.dirs
  \/ /\ s.nth \in DOMAIN v.dirs[s.dir]
     /\ LET id == v.dirs[s.dir][s.nth].id
        IN ~(id \in DOMAIN v.inodes /\ v.inodes[id].sound)

ApfsFault(v) ==
  /\ v.fault \in Seq(Way) /\ v.fault # <<>> /\ v.fault[1].dir = v.root
  /\ \A j \in DOMAIN v.fault : v.fault[j].nth > 0
  /\ \A j \in 1 .. Len(v.fault) - 1 : LeadsOn(v, v.fault[j], v.fault[j + 1].dir)
  /\ Len(v.fault) > MaxDepth + 1 \/ DeadEnd(v, v.fault[Len(v.fault)])

ApfsV(f) == VolumeAt(f, ApfsMagicAt)
ApfsT(f) == Tree(ApfsV(f).cuts, f.members)
ApfsBears(f) == Bears(f, ApfsMagicAt, "apfs")
ApfsOpens(f) == f.path /\ ApfsBears(f) /\ ApfsV(f).mounts /\ Len(f.members) <= MaxEntries
ApfsHolds(f) == ApfsBears(f) => ApfsTree(ApfsV(f), ApfsT(f)) /\ ApfsBodies(f, ApfsV(f))
ApfsFails(f) ==
  f.path /\ ApfsBears(f) /\ ApfsV(f).mounts =>
    \/ ApfsFault(ApfsV(f))
    \/ ApfsTree(ApfsV(f), ApfsT(f)) /\ Len(f.members) > MaxEntries

----------------------------------------------------------------------------
\* HFS+.  A volume's `shown` are the places, in what the crate finds, of what is
\* not in the two private directories.
HfsPublic(w) == w.path = <<>> \/ w.path[1] \notin PrivateDirs

HfsShown(v) ==
  /\ v.shown \in Seq(DOMAIN v.found)
  /\ Range(v.shown) = {i \in DOMAIN v.found : HfsPublic(v.found[i])}
  /\ \A j, k \in DOMAIN v.shown : j < k => v.shown[j] < v.shown[k]

\* The crate comes by a directory before it comes by what is in it.
HfsDescends(v) ==
  \A k \in DOMAIN v.shown :
    LET path == v.found[v.shown[k]].path IN
    \/ Len(path) = 1
    \/ \E j \in 1 .. k - 1 :
         LET w == v.found[v.shown[j]] IN
         /\ path = Append(w.path, path[Len(path)])
         /\ w.id \in DOMAIN v.record => v.record[w.id].kind = "dir"

HfsBody(f, r, content) == StoredAs(Bytes(f, f.offset + r.at, r.stored), r.packed, content)

\* A link's body is its target.
HfsIs(f, m, v, w) ==
  LET r == v.record[w.id] IN
  /\ m.path = w.path /\ w.id \in DOMAIN v.record /\ m.kind = r.kind
  /\ m.kind = "file" =>
       m.content \in Seq(Nat) /\ r.size = Len(m.content) /\ HfsBody(f, r, m.content)
  /\ m.kind = "link" /\ f.damage = "none" =>
       /\ m.target \in Seq(Nat) /\ r.at \in Nat /\ r.stored \in Nat
       /\ r.decodes /\ f.offset + r.at + r.stored <= f.len /\ HfsBody(f, r, m.target)

HfsV(f) == VolumeAt(f, VolumeHeaderAt)
HfsBears(f) == Bears(f, VolumeHeaderAt, "hfs")
HfsOpens(f) == f.path /\ HfsBears(f) /\ HfsV(f).walks
HfsHolds(f) ==
  HfsBears(f) =>
    /\ IsSeq(f.members) /\ Len(f.members) = Len(HfsV(f).shown)
    /\ \A k \in DOMAIN f.members :
         HfsIs(f, f.members[k], HfsV(f), HfsV(f).found[HfsV(f).shown[k]])
HfsFails(f) ==
  f.path /\ HfsBears(f) /\ HfsV(f).walks =>
    \E i \in DOMAIN HfsV(f).found :
      HfsPublic(HfsV(f).found[i]) /\ HfsV(f).found[i].id \notin DOMAIN HfsV(f).record

\* What a mark may stand for.
WrittenVolume(v) ==
  v.fs = "hfs" =>
    /\ IsSeq(v.found) /\ HfsShown(v) /\ HfsDescends(v)
    /\ v.record = [i \in DOMAIN v.record |-> v.record[i]]

Opens(f) == IF f.format = "apfs" THEN ApfsOpens(f) ELSE HfsOpens(f)
Holds(f) == IF f.format = "apfs" THEN ApfsHolds(f) ELSE HfsHolds(f)
Fails(f) == IF f.format = "apfs" THEN ApfsFails(f) ELSE HfsFails(f)

WrittenImage(f) ==
  /\ ApfsImage(f) /\ ~f.inside
  /\ \/ f.damage = "none" /\ Opens(f) /\ Holds(f)
     \/ f.damage = "body" /\ Holds(f)
     \/ f.damage = "told" /\ Fails(f)

----------------------------------------------------------------------------
\* Disk images.  `raw` is the image that was packed, `volume` the place in it
\* where the volume begins; at every other place there is none that opens.
Place(raw) == [fs : {"hfs", "apfs"}, offset : {s * SectorSize : s \in 0 .. raw.len \div SectorSize}]

Mounts(f, raw, p) ==
  [format |-> p.fs, offset |-> p.offset, len |-> raw.len, byte |-> raw.byte, path |-> TRUE,
   members |-> f.members, damage |-> f.damage]

DmgSound(f) ==
  /\ f.path /\ f.len >= KolySize /\ f.koly # <<>>
  /\ f.koly[1].xmlAt + f.koly[1].xmlLen <= f.len
  /\ f.plist.sound
  /\ \A t \in DOMAIN f.plist.tables : f.plist.tables[t].sound

Chunks(f) == D!AllChunks(f.plist.tables)
Filled(f) ==
  {c \in Range(Chunks(f)) : c.chunk.type \notin {"zero", "ignore", "comment", "terminator"}}

\* Where a chunk lies, what its decoder makes of it, and which part of the image it is.
From(f, c) == f.koly[1].fork + f.plist.tables[c.table].base + c.chunk.at
Onto(f, c) == (f.plist.tables[c.table].sector + c.chunk.sector) * SectorSize
Span(c) == c.chunk.sectors * SectorSize
Unpacked(f, c) == D!DecodeChunk(c.chunk.type, Bytes(f, From(f, c), c.chunk.len), Span(c))
Part(f, c) == Onto(f, c) .. Onto(f, c) + Span(c) - 1

DmgPacks(f) ==
  /\ IsSeq(Chunks(f)) /\ f.len \in Nat
  /\ f.raw.len \in Nat /\ Sparse(f.raw.byte, Nat \ {0})
  /\ \A c \in Filled(f) :
       /\ From(f, c) \in Nat /\ c.chunk.len \in Nat /\ From(f, c) + c.chunk.len <= f.len
       /\ Onto(f, c) \in Nat /\ Span(c) \in Nat /\ Onto(f, c) + Span(c) <= f.raw.len
       /\ Unpacked(f, c) = Answer("ok", Bytes(f.raw, Onto(f, c), Span(c)))
  /\ \A q \in DOMAIN f.raw.byte : \E c \in Filled(f) : q \in Part(f, c)
  /\ D!RawLen(f.plist.tables) \in 0 .. f.raw.len
  /\ \/ f.raw.len = D!RawLen(f.plist.tables)
     \/ \E c \in Filled(f) : f.raw.len = Onto(f, c) + Span(c)

WrittenDmg(f) ==
  /\ f.format = "dmg"
  /\ \/ /\ f.damage = "none" /\ DmgSound(f) /\ DmgPacks(f)
        /\ f.volume \in Place(f.raw)
        /\ Opens(Mounts(f, f.raw, f.volume)) /\ Holds(Mounts(f, f.raw, f.volume))
        /\ \A p \in Place(f.raw) \ {f.volume} : Fails(Mounts(f, f.raw, p))
     \/ /\ f.damage = "told"
        /\ \/ ~DmgSound(f)
           \/ /\ IsSeq(Chunks(f))
              /\ \E c \in Filled(f) : \/ From(f, c) + c.chunk.len > f.len
                                    \/ Unpacked(f, c).said # "ok"
           \/ DmgPacks(f) /\ \A p \in Place(f.raw) : Fails(Mounts(f, f.raw, p))

----------------------------------------------------------------------------
\* xar.  `is` is the member's <file>; elements are all <file>s, of which only
\* directories have others below them, and a `fault` is a way down to one whose
\* encoding nobody knows.
XarElement(f, e) ==
  /\ HasFields(e, {"names", "type", "hasData", "data", "link", "kids", "parent"})
  /\ e.kids \in Seq(f.elements) /\ (e.kids # <<>> => e.type = "directory")
  /\ e.hasData => e.data.offset \in Nat /\ e.data.length \in Nat

Unnamed(e) == e.names = <<>> \/ ~X!Safe(e.names)
Bodied(e) == e.type \notin {"directory", "symlink"} /\ e.hasData

XarKind(e) ==
  CASE e.type = "directory" -> "dir" [] e.type = "symlink" -> "link" [] OTHER -> "file"

XarIs(f, m, e) ==
  /\ m.is = e /\ m.kind = XarKind(e)
  /\ m.kind = "link" => m.target = e.link
  /\ m.kind = "file" /\ ~e.hasData => m.content = <<>>
  /\ Bodied(e) =>
       /\ e.data.style \in X!Stored \union X!Packed
       /\ e.data.size = Len(m.content)
       /\ StoredAs(Bytes(f, f.headerLen + f.tocLen + e.data.offset, e.data.length),
                   e.data.style \in X!Packed, m.content)

XarT(f) == Tree(f.cuts, f.members)
Kids(f, k) == IF k = 0 THEN f.toc ELSE f.members[k].is.kids
XarTree(f) ==
  /\ Counted(XarT(f))
  /\ \A k \in Nodes(XarT(f)) :
       /\ Divided(XarT(f), k, Len(Kids(f, k)))
       /\ \A i \in DOMAIN Kids(f, k) :
            LET e == Kids(f, k)[i] IN
            IF Unnamed(e) THEN LeftOut(XarT(f), k, i)
            ELSE /\ Listed(XarT(f), k, i, X!Component(e.names))
                 /\ XarIs(f, f.members[Child(XarT(f), k, i)], e)

XarFault(f) ==
  /\ f.fault \in Seq(f.elements) /\ f.fault # <<>>
  /\ f.fault[1] \in Range(f.toc)
  /\ \A j \in DOMAIN f.fault : ~Unnamed(f.fault[j])
  /\ \A j \in 1 .. Len(f.fault) - 1 : f.fault[j + 1] \in Range(f.fault[j].kids)
  /\ LET e == f.fault[Len(f.fault)]
     IN Bodied(e) /\ e.data.style \notin X!Stored \union X!Packed

XarOpens(f) == ~f.stream /\ X!SoundHeader(f) /\ X!SoundToc(f)

WrittenXar(f) ==
  /\ f.format = "xar" /\ f.len \in Nat /\ f.headerLen \in Nat /\ f.tocLen \in Nat
  /\ HasFields(f, {"len", "shrunk", "format", "members", "damage", "byte", "headerLen", "tocLen"})
  /\ f.toc \in Seq(f.elements) /\ \A e \in f.elements : XarElement(f, e)
  /\ \/ f.damage = "none" /\ XarOpens(f) /\ XarTree(f)
     \/ f.damage = "told" /\ (~XarOpens(f) \/ XarFault(f))

----------------------------------------------------------------------------
\* WIM.  `is` is where the member's dentry is, and a `fault` leads, dentry by
\* dentry, each with how many directories deep it is, to one that is not there,
\* has a body that is not, or is deeper than the stack.  Only directories have
\* dentries below them.
Dents(f) == f.meta.dents
There(f, at) == at \in DOMAIN Dents(f) /\ Dents(f)[at].next <= f.meta.len

WimT(f) == Tree(f.cuts, f.members)
Under(f, k) ==
  IF k # 0 THEN Dents(f)[f.members[k].is].below
  ELSE IF Dents(f)[f.meta.root].last THEN 0 ELSE Dents(f)[f.meta.root].below

\* Where the i-th dentry below node k is.
DentAt(f, k, i) ==
  IF i = 1 THEN Under(f, k) ELSE Dents(f)[f.members[Child(WimT(f), k, i - 1)].is].next

\* A body that is packed was cut into its member's pieces, each a chunk; what
\* became of a chunk since, it tells.
WimBody(f, r, m) ==
  LET raw == Bytes(f, r.at, r.onDisk)
      n == M!ChunksOf(r.size, f.chunk)
      cut == r.packed /\ r.size > 0 /\ f.chunk > 0
  IN /\ m.content \in Seq(Nat) /\ r.size = Len(m.content) /\ r.at \in Nat /\ r.onDisk \in Nat
     /\ ~r.packed => m.content = raw
     /\ cut => n \in Nat \ {0}
     /\ cut /\ n = 1 =>
          M!DecodeOneChunk(raw, r.size) \in {Answer("ok", m.content), Answer("Corrupt", <<>>)}
     /\ cut /\ n > 1 =>
          /\ IsSeq(m.pieces) /\ Len(m.pieces) = n /\ m.content = FlattenSeq(m.pieces)
          /\ M!EndsFit(raw, n) =>
               \A k \in 1..n : M!ChunkRead(raw, r.size, f.chunk, n, k)
                                 \in {Answer("ok", m.pieces[k]), Answer("Corrupt", <<>>)}

WimIs(f, m, at) ==
  LET d == Dents(f)[at] IN
  /\ m.is = at /\ m.kind = IF d.dir THEN "dir" ELSE "file"
  /\ ~d.dir => IF d.hash = M!NoHash THEN m.content = <<>>
               ELSE M!Bodies(f, d.hash) # {} /\ WimBody(f, M!BodyOf(f, d.hash), m)

WimNode(f, k) ==
  LET n == Len(Cuts(WimT(f), k)) - 1 IN
  /\ Divided(WimT(f), k, n)
  /\ \A i \in 1..n :
       LET at == DentAt(f, k, i) IN
       /\ Under(f, k) # 0 /\ There(f, at) /\ ~Dents(f)[at].last
       /\ Listed(WimT(f), k, i, Dents(f)[at].name)
       /\ WimIs(f, f.members[Child(WimT(f), k, i)], at)
  /\ Under(f, k) # 0 =>
       /\ There(f, DentAt(f, k, n + 1)) /\ Dents(f)[DentAt(f, k, n + 1)].last
       /\ Len(PathOf(WimT(f), k)) < StackFrames

WimTree(f) == Counted(WimT(f)) /\ \A k \in Nodes(WimT(f)) : WimNode(f, k)

Hop(at, depth) == [at |-> at, depth |-> depth]

\* The dentry behind one, in the same directory, or the first below it.
Onward(d, s) == {Hop(d.next, s.depth), Hop(d.below, s.depth + 1)} \ {Hop(0, s.depth + 1)}

WimFault(f) ==
  /\ f.fault \in Seq([at : Nat, depth : Nat]) /\ f.fault # <<>>
  /\ Under(f, 0) # 0 /\ f.fault[1] = Hop(Under(f, 0), 1)
  /\ \A j \in 1 .. Len(f.fault) - 1 :
       LET d == Dents(f)[f.fault[j].at]
       IN ~d.last /\ f.fault[j + 1] \in Onward(d, f.fault[j])
  /\ LET s == f.fault[Len(f.fault)]
         d == Dents(f)[s.at]
     IN \/ ~There(f, s.at)
        \/ ~d.last /\ ~d.dir /\ d.hash # M!NoHash /\ M!Bodies(f, d.hash) = {}
        \/ s.depth > StackFrames

WimOpens(f) == ~f.stream /\ M!SoundHeader(f) /\ ~f.spanned /\ M!SoundTables(f)

WrittenWim(f) ==
  /\ f.format = "wim" /\ f.len \in Nat /\ f.chunk \in Nat
  /\ HasFields(f, {"len", "shrunk", "format", "members", "damage", "byte", "chunk"})
  /\ f.stream \in BOOLEAN /\ f.spanned \in BOOLEAN
  /\ \A at \in DOMAIN Dents(f) : Dents(f)[at].below # 0 => Dents(f)[at].dir
  /\ \/ f.damage = "none" /\ WimOpens(f) /\ WimTree(f)
     \/ f.damage = "body" /\ WimTree(f)
     \/ f.damage = "told" /\ (~WimOpens(f) \/ WimFault(f))

----------------------------------------------------------------------------
\* ISO 9660.  `is` is the extent a record leads to; a `fault` leads, directory by
\* directory, to one with a record nobody can read.
IsoT(f) == Tree(f.cuts, f.members)
Extent(f, k) == IF k = 0 THEN f.root ELSE f.members[k].is

\* A directory that no record before it led to.
Entered(f, k) ==
  \/ k = 0
  \/ /\ f.members[k].kind = "dir" /\ f.members[k].is # f.root
     /\ \A j \in 1 .. k - 1 : f.members[j].kind = "dir" => f.members[j].is # f.members[k].is

IsoIs(f, m, r) ==
  /\ m.is = r.extent /\ m.kind = r.kind
  /\ m.kind = "file" => m.content = Bytes(f, r.extent, r.size)
  /\ m.kind = "link" => m.target = r.target

IsoNode(f, k) ==
  LET t == IsoT(f)
      records == f.extents[Extent(f, k)]
  IN IF ~Entered(f, k) THEN Divided(t, k, 0)
     ELSE /\ Divided(t, k, Len(records))
          /\ \A i \in DOMAIN records :
               /\ records[i].reads = "ok"
               /\ IF I!Self(records[i].name) THEN LeftOut(t, k, i)
                  ELSE /\ Listed(t, k, i, records[i].name)
                       /\ IsoIs(f, f.members[Child(t, k, i)], records[i])

IsoTree(f) == Counted(IsoT(f)) /\ \A k \in Nodes(IsoT(f)) : IsoNode(f, k)

Shallow(f) ==
  \A k \in Nodes(IsoT(f)) : Entered(f, k) => Len(PathOf(IsoT(f), k)) <= MaxIsoDepth

LeadsTo(f, e, to) ==
  \E i \in DOMAIN f.extents[e] :
    LET r == f.extents[e][i] IN ~I!Self(r.name) /\ r.kind = "dir" /\ r.extent = to

IsoFault(f) ==
  /\ f.fault \in Seq(Nat) /\ f.fault # <<>> /\ f.fault[1] = f.root
  /\ \A j \in 1 .. Len(f.fault) - 1 : LeadsTo(f, f.fault[j], f.fault[j + 1])
  /\ LET records == f.extents[f.fault[Len(f.fault)]]
     IN \E i \in DOMAIN records : records[i].reads # "ok"

IsoOpens(f) == ~f.stream /\ f.len >= f.descriptorEnd /\ f.described /\ f.opens

WrittenIso(f) ==
  /\ f.format = "iso"
  /\ HasFields(f, {"len", "shrunk", "format", "members", "damage", "byte"})
  /\ \/ f.damage = "none" /\ IsoOpens(f) /\ IsoTree(f) /\ Shallow(f)
     \/ /\ f.damage = "told"
        /\ \/ ~IsoOpens(f) \/ IsoFault(f)
           \/ IsoTree(f) /\ ~Shallow(f)

----------------------------------------------------------------------------
ASSUME TreesAssumption ==
  /\ VolumeHeaderAt \in Nat /\ SectorSize \in Nat \ {0} /\ TreeCuts \subseteq Nat
  /\ StackFrames \in Nat \ {0}
  /\ I!IsoAssumption
  /\ \A m \in DOMAIN Volumes : WrittenVolume(Volumes[m])
  /\ \A f \in ApfsImages : f.format = "apfs" /\ WrittenImage(f)
  /\ \A f \in HfsImages : f.format = "hfs" /\ WrittenImage(f)
  /\ \A f \in DmgImages : WrittenDmg(f)
  /\ \A f \in XarFiles : WrittenXar(f)
  /\ \A f \in WimFiles : WrittenWim(f)
  /\ \A f \in IsoImages : WrittenIso(f)
===========================================================================
