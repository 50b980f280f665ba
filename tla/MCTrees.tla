------------------------------ MODULE MCTrees ------------------------------
(***************************************************************************)
(* Small volumes, disk images and archives for TLC, as their writers make  *)
(* them, and what can befall them.                                         *)
(***************************************************************************)
EXTENDS Trees

\* The bytes of bodies laid at their places.
Laid(p, body) ==
  [q \in {p + k - 1 : k \in {k \in DOMAIN body : body[k] # 0}} |-> body[q - p + 1]]
Stream(body) == <<Len(body)>> \o body

Node(path, kind, content, target) ==
  [path |-> path, kind |-> kind, content |-> content, target |-> target]

\* Members as nodes of a counted tree: their cuts, and what each is.
Counting(members, cuts, is) ==
  [k \in DOMAIN members |-> members[k] @@ [cuts |-> cuts[k], is |-> is[k]]]
FileAt(path, content) == Node(path, "file", content, <<>>)
DirAt(path) == Node(path, "dir", <<>>, <<>>)

----------------------------------------------------------------------------
\* APFS: six entries three directories deep, which is just what the limits allow.
In(kind, packed, at, body) ==
  [kind |-> kind, size |-> IF packed THEN 0 ELSE Len(body), packed |-> packed,
   real |-> IF packed THEN Len(body) ELSE 0, sound |-> TRUE,
   target |-> IF kind = "link" THEN <<"d", "a">> ELSE <<>>, at |-> at,
   stored |-> IF packed THEN Len(body) + 1 ELSE Len(body)]
To(name, id) == [name |-> name, id |-> id]

BodyA == <<5, 5, 5, 5, 5, 5, 5, 5>>
BodyB == <<6, 7, 6, 7, 6, 7, 6, 7>>
BodyP == <<9, 0, 8>>

ApfsVol ==
  [fs |-> "apfs", mounts |-> TRUE, root |-> 2, cuts |-> <<0, 1, 4, 5, 6>>, fault |-> <<>>,
   dirs |-> (2 :> <<To("a", 10), To("d", 3), To("l", 11), To("p", 12)>>) @@
            (3 :> <<To("a", 13), To("e", 4)>>) @@ (4 :> <<>>),
   inodes |-> (10 :> In("file", FALSE, 24, BodyA)) @@ (3 :> In("dir", FALSE, 0, <<>>)) @@
              (11 :> In("link", FALSE, 0, <<>>)) @@ (12 :> In("file", TRUE, 40, BodyP)) @@
              (13 :> In("file", FALSE, 32, BodyB)) @@ (4 :> In("dir", FALSE, 0, <<>>)) @@
              (5 :> In("dir", FALSE, 0, <<>>))]
ApfsMembers ==
  Counting(
    <<FileAt(<<"a">>, BodyA), DirAt(<<"d">>), FileAt(<<"d", "a">>, BodyB), DirAt(<<"d", "e">>),
      Node(<<"l">>, "link", <<>>, <<"d", "a">>), FileAt(<<"p">>, BodyP)>>,
    <<<<1>>, <<2, 3, 4>>, <<3>>, <<4>>, <<5>>, <<6>>>>, <<10, 3, 13, 4, 11, 12>>)
OneTooMany == ApfsMembers \o Counting(<<FileAt(<<"q">>, BodyA)>>, <<<<7>>>>, <<10>>)
ApfsBytes == Laid(24, BodyA) @@ Laid(32, BodyB) @@ Laid(40, Stream(BodyP))

\* HFS+: the crate gives the private directories with all the rest.
Private == "HFS+ Private Data"
Held(kind, at, body, packed) ==
  [kind |-> kind, size |-> Len(body), at |-> at, packed |-> packed, decodes |-> TRUE,
   stored |-> IF packed THEN Len(body) + 1 ELSE Len(body)]
At(path, id) == [path |-> path, id |-> id]

HfsVol ==
  [fs |-> "hfs", walks |-> TRUE, shown |-> <<3, 4, 5, 6>>,
   found |-> <<At(<<Private>>, 18), At(<<Private, "iNode1">>, 19), At(<<"d">>, 20),
               At(<<"d", Private>>, 21), At(<<"l">>, 22), At(<<"p">>, 23)>>,
   record |-> (20 :> Held("dir", 0, <<>>, FALSE)) @@ (21 :> Held("file", 24, BodyA, FALSE)) @@
              (22 :> Held("link", 32, <<6, 7>>, FALSE)) @@ (23 :> Held("file", 40, BodyP, TRUE))]
HfsMembers ==
  <<DirAt(<<"d">>), FileAt(<<"d", Private>>, BodyA), Node(<<"l">>, "link", <<>>, <<6, 7>>),
    FileAt(<<"p">>, BodyP)>>

Step(dir, nth) == [dir |-> dir, nth |-> nth]
MCVolumes ==
  (201 :> ApfsVol) @@
  (202 :> [ApfsVol EXCEPT !.dirs[4] = <<To("back", 3)>>,
                          !.fault = <<Step(2, 2), Step(3, 2), Step(4, 1), Step(3, 2)>>]) @@
  (203 :> [ApfsVol EXCEPT !.dirs = (5 :> <<>>) @@ [@ EXCEPT ![2] = SubSeq(@, 1, 2), ![4] = <<To("f", 5)>>],
                          !.fault = <<Step(2, 2), Step(3, 2), Step(4, 1), Step(5, 1)>>]) @@
  (204 :> [ApfsVol EXCEPT !.dirs[2] = Append(@, To("q", 10)), !.cuts = Append(@, 7)]) @@
  (205 :> [ApfsVol EXCEPT !.dirs[3][1] = To("a", 99), !.fault = <<Step(2, 2), Step(3, 1)>>]) @@
  (206 :> [ApfsVol EXCEPT !.mounts = FALSE]) @@
  (207 :> [ApfsVol EXCEPT !.dirs[3][2] = To("e", 5), !.fault = <<Step(2, 2), Step(3, 2), Step(5, 1)>>]) @@
  (208 :> [ApfsVol EXCEPT !.inodes[12].sound = FALSE, !.fault = <<Step(2, 4)>>]) @@
  (211 :> HfsVol) @@
  (212 :> [HfsVol EXCEPT !.walks = FALSE]) @@
  (213 :> [HfsVol EXCEPT !.found[6] = At(<<"p">>, 99)]) @@
  (214 :> [HfsVol EXCEPT !.record[23].decodes = FALSE])

Volumed(fs, markAt, mark, members, damage) ==
  [format |-> fs, offset |-> 0, tries |-> <<>>, inside |-> FALSE, path |-> TRUE,
   len |-> 48, byte |-> (markAt :> mark) @@ ApfsBytes, members |-> members, damage |-> damage]

ApfsVolumes ==
  {Volumed("apfs", 1, 201, ApfsMembers, "none")}
    \union {Volumed("apfs", 1, m, IF m = 204 THEN OneTooMany ELSE ApfsMembers, "told") : m \in 202 .. 208}
    \union {Volumed("apfs", 2, 201, ApfsMembers, "told")}
    \union {[Volumed("apfs", 1, 201, ApfsMembers, "told") EXCEPT !.path = FALSE]}
    \union {[Volumed("apfs", 1, 201, ApfsMembers, "body") EXCEPT !.len = 33]}

HfsVolumes ==
  {Volumed("hfs", 16, 211, HfsMembers, "none")}
    \union {Volumed("hfs", 16, m, HfsMembers, "told") : m \in {212, 213}}
    \union {Volumed("hfs", 15, 211, HfsMembers, "told")}
    \union {[Volumed("hfs", 16, 211, HfsMembers, "told") EXCEPT !.path = FALSE]}
    \union {Volumed("hfs", 16, 214, HfsMembers, "body"),
            [Volumed("hfs", 16, 211, HfsMembers, "body") EXCEPT !.len = 41]}

----------------------------------------------------------------------------
\* Disk images: ten sectors, packed in two tables.
RawBytes(marks, at) ==
  LET shifted == [q \in {p + at : p \in DOMAIN ApfsBytes} |-> ApfsBytes[q - at]]
      all == marks @@ shifted
  IN [k \in 1..80 |-> IF k - 1 \in DOMAIN all THEN all[k - 1] ELSE 0]

\* As a packer would: a sector that repeats one byte, or two, as matches.
Adc(bytes) ==
  IF \A k \in DOMAIN bytes : bytes[k] = bytes[1]
  THEN <<128, bytes[1], 4 * (Len(bytes) - 1 - 3), 0>>
  ELSE IF \A k \in 3 .. Len(bytes) : bytes[k] = bytes[k - 2]
  THEN <<129, bytes[1], bytes[2], 64 + (Len(bytes) - 2 - 4), 0, 1>>
  ELSE <<127 + Len(bytes)>> \o bytes

Pack(type, bytes) ==
  CASE type = "raw" -> bytes
    [] type = "packed" -> Stream(bytes)
    [] type = "adc" -> Adc(bytes)
    [] OTHER -> <<>>

\* A plan of a table: its first sector, its base, and its chunks' types, a
\* sector each, but for what has no sectors.
Run(type) == [type |-> type, sectors |-> IF type \in {"comment", "terminator"} THEN 0 ELSE 1]

AddRun(raw, first, base, w, run) ==
  LET body == SubSeq(raw, ((first + w.next) * 8) + 1, (first + w.next + run.sectors) * 8)
      type == IF run.type \in {"raw", "packed", "adc"} /\ \A k \in DOMAIN body : body[k] = 0
              THEN "zero" ELSE run.type
      in == Pack(type, body)
  IN [next |-> w.next + run.sectors, data |-> w.data \o in,
      chunks |-> Append(w.chunks, [type |-> type, sector |-> w.next, sectors |-> run.sectors,
                                   at |-> Len(w.data) - base, len |-> Len(in)])]

Tabled(raw, data, first, base, runs) ==
  FoldLeft(LAMBDA w, r : AddRun(raw, first, base, w, r),
           [next |-> 0, data |-> data, chunks |-> <<>>], runs)

Fork == 3
DiskOf(raw, types, members, volume, damage) ==
  LET runs == [k \in 1..10 |-> Run(types[((k - 1) % Len(types)) + 1])]
      one == Tabled(raw, <<>>, 0, 0, SubSeq(runs, 1, 4) \o <<Run("comment"), Run("terminator")>>)
      two == Tabled(raw, one.data, 4, Len(one.data), SubSeq(runs, 5, 10))
      end == Fork + Len(two.data)
      table(first, base, w) == [sound |-> TRUE, sector |-> first, sectors |-> w.next,
                                base |-> base, chunks |-> w.chunks]
  IN [format |-> "dmg", path |-> TRUE, len |-> end + 4 + 8, byte |-> Laid(Fork, two.data),
      koly |-> <<[fork |-> Fork, xmlAt |-> end, xmlLen |-> 4]>>,
      plist |-> [sound |-> TRUE,
                 tables |-> <<table(0, 0, one), table(4, Len(one.data), two)>>],
      raw |-> [len |-> 80, byte |-> Laid(0, raw)], volume |-> volume,
      members |-> members, damage |-> damage]

Packers == {<<"raw">>, <<"packed">>, <<"adc">>, <<"adc", "raw", "packed">>}

\* A volume at the start or behind a partition map; signatures that are not
\* volumes before it; none at all.
Begins(fs, offset) == [fs |-> fs, offset |-> offset]
Disks ==
  {DiskOf(RawBytes(16 :> 211, 0), t, HfsMembers, Begins("hfs", 0), "none") : t \in Packers}
    \union {DiskOf(RawBytes(1 :> 201, 0), t, ApfsMembers, Begins("apfs", 0), "none") : t \in Packers}
    \union {DiskOf(RawBytes((9 :> 201), 8), t, ApfsMembers, Begins("apfs", 8), "none") : t \in Packers}
    \union {DiskOf(RawBytes((1 :> 206) @@ (9 :> 202) @@ (16 :> 212) @@ (40 :> 211), 24), t,
                   HfsMembers, Begins("hfs", 24), "none") : t \in Packers}
    \union {DiskOf(RawBytes((1 :> 206) @@ (16 :> 212), 8), <<"raw">>, <<>>, Begins("hfs", 0), "told")}

Whole == DiskOf(RawBytes(16 :> 211, 0), <<"adc", "raw", "packed">>, HfsMembers, Begins("hfs", 0), "none")
BadDisks ==
  {[d EXCEPT !.damage = "told"] : d \in {
     [Whole EXCEPT !.path = FALSE], [Whole EXCEPT !.len = 7], [Whole EXCEPT !.koly = <<>>],
     [Whole EXCEPT !.koly[1].xmlLen = 99], [Whole EXCEPT !.plist.sound = FALSE],
     [Whole EXCEPT !.plist.tables[2].sound = FALSE],
     [Whole EXCEPT !.koly[1].fork = Whole.len],
     [Whole EXCEPT !.plist.tables[1].chunks[3].type = "new"],
     [Whole EXCEPT !.plist.tables[1].chunks[4].len = @ - 1],
     [Whole EXCEPT !.plist.tables[2].chunks[1].len = @ - 1],
     [Whole EXCEPT !.plist.tables[2].chunks[1].sectors = 2]}}

\* A table that claims less than its chunks fill makes no shorter an image.
Short == [Whole EXCEPT !.plist.tables[2].sectors = 0, !.raw.len = 48]

MCDisks == Disks \union BadDisks \union {Short}

----------------------------------------------------------------------------
\* XAR: a <file> and the XML around it.
Data(offset, length, size, style) ==
  [offset |-> offset, length |-> length, size |-> size, style |-> style]
Tocked(names, type, data, kids) ==
  [names |-> names, type |-> type, hasData |-> data # <<>>,
   data |-> IF data = <<>> THEN Data(0, 0, 0, "none") ELSE data[1],
   link |-> IF type = "symlink" THEN <<"d">> ELSE <<>>, kids |-> kids, parent |-> <<>>]

HeapBody == <<1, 2, 3, 4>>
XarKids == <<Tocked(<<"a">>, "file", <<Data(1, 4, 4, "none")>>, <<>>),
             Tocked(<<"b">>, "file", <<Data(5, 5, 4, "application/x-gzip")>>, <<>>)>>
XarToc ==
  <<Tocked(<<"d">>, "directory", <<>>, XarKids),
    Tocked(<<"..", "x">>, "directory", <<>>, XarKids),
    Tocked(<<>>, "directory", <<>>, XarKids),
    Tocked(<<"", "etc">>, "file", <<>>, <<>>),
    Tocked(<<"l">>, "symlink", <<>>, <<>>),
    Tocked(<<"u", "v">>, "hardlink", <<>>, <<>>)>>
XarMembers ==
  Counting(
    <<DirAt(<<"d">>), FileAt(<<"d", "a">>, HeapBody), FileAt(<<"d", "b">>, HeapBody),
      Node(<<"l">>, "link", <<>>, <<"d">>), FileAt(<<"u:v">>, <<>>)>>,
    <<<<1, 2, 3>>, <<2>>, <<3>>, <<4>>, <<5>>>>,
    <<XarToc[1], XarKids[1], XarKids[2], XarToc[5], XarToc[6]>>)

\* Opening tags with a quoted "/>" in them, and a comment with tags in it.
OpenTag == <<"<", "f", "q", "/", ">", "q", ">">>
CloseTag == <<"<", "/", "f", ">">>
Comment == <<"<", "!", "-", "-", "<", "f", ">", "<", "f", ">", "-", "-", ">">>
Text == <<"<", "?", "<", ">", "<", "!", "[", "<", "f", ">", ">", "]", "]", ">", "<", "n", "/", ">">>

\* A chain of n elements, one in another.
Nested(n) ==
  FoldLeft(LAMBDA x, k : OpenTag \o Text \o x \o CloseTag, Comment, [k \in 1..n |-> k])

XarOf(toc, depth, damage) ==
  [format |-> "xar", stream |-> FALSE, magic |-> TRUE, headerLen |-> 28, tocLen |-> 3,
   inflates |-> TRUE, parses |-> TRUE, hasToc |-> TRUE, shrunk |-> FALSE,
   xml |-> Nested(1) \o Nested(depth), toc |-> toc, members |-> XarMembers,
   elements |-> Range(toc) \union UNION {Range(e.kids) : e \in Range(toc)},
   cuts |-> <<0, 3, 3, 3, 3, 4, 5>>, fault |-> <<>>,
   len |-> 41, byte |-> Laid(32, HeapBody) @@ Laid(36, Stream(HeapBody)), damage |-> damage]

Strange == [XarToc EXCEPT ![1].kids[2].data.style = "application/x-lzma"]

XarArchives ==
  {XarOf(XarToc, 5, "none")}
    \union {[x EXCEPT !.damage = "told"] : x \in {
       XarOf(XarToc, 6, ""), [XarOf(XarToc, 5, "") EXCEPT !.stream = TRUE],
       [XarOf(XarToc, 5, "") EXCEPT !.magic = FALSE],
       [XarOf(XarToc, 5, "") EXCEPT !.headerLen = 27],
       [XarOf(XarToc, 5, "") EXCEPT !.tocLen = 0], [XarOf(XarToc, 5, "") EXCEPT !.tocLen = 21],
       [XarOf(XarToc, 5, "") EXCEPT !.len = 30],
       [XarOf(XarToc, 5, "") EXCEPT !.inflates = FALSE],
       [XarOf(XarToc, 5, "") EXCEPT !.parses = FALSE],
       [XarOf(XarToc, 5, "") EXCEPT !.hasToc = FALSE],
       [XarOf(Strange, 5, "") EXCEPT !.fault = <<Strange[1], Strange[1].kids[2]>>]}}

----------------------------------------------------------------------------
\* WIM: chunks of four; a body of ten is two chunks and a half.
Ten == <<3, 3, 3, 3, 1, 2, 3, 4, 7, 7>>
Pieces == <<<<3, 3, 3, 3>>, <<1, 2, 3, 4>>, <<7, 7>>>>
Shrunken(c) == IF Len(c) > 2 /\ \A k \in DOMAIN c : c[k] = c[1] THEN <<c[1], Len(c)>> ELSE c
Chunked(body) ==
  LET n == (Len(body) + 3) \div 4
      part(k) == Shrunken(SubSeq(body, (4 * (k - 1)) + 1, IF k = n THEN Len(body) ELSE 4 * k))
      parts == [k \in 1..n |-> part(k)]
      end(k) == Len(FlattenSeq(SubSeq(parts, 1, k)))
  IN FlattenSeq([k \in 1 .. n - 1 |-> <<end(k), 0>>]) \o FlattenSeq(parts)

Res(at, onDisk, size, packed, meta) ==
  [at |-> at, onDisk |-> onDisk, size |-> size, packed |-> packed, meta |-> meta]
Hashed(hash, resource) == [hash |-> hash, resource |-> resource]
Dentry(name, dir, hash, below, next) ==
  [last |-> FALSE, name |-> name, dir |-> dir, hash |-> hash, below |-> below, next |-> next]
EndOf(next) == [Dentry("", FALSE, "0", 0, next) EXCEPT !.last = TRUE]

WimBodies == Laid(8, Chunked(<<2, 2, 2, 2, 2, 2>>)) @@ Laid(20, HeapBody) @@ Laid(24, Chunked(Ten))
WimOf ==
  [format |-> "wim", stream |-> FALSE, magic |-> TRUE, codecs |-> {"lzx"}, chunk |-> 4,
   spanned |-> FALSE, shrunk |-> FALSE, table |-> Res(4, 2, 2, FALSE, FALSE),
   len |-> 24 + Len(Chunked(Ten)), byte |-> WimBodies,
   lookup |-> [sound |-> TRUE, entries |->
     <<Hashed("t", Res(0, 1, 1, FALSE, FALSE)), Hashed("m", Res(8, 6, 6, TRUE, TRUE)),
       Hashed("s", Res(20, 4, 4, FALSE, FALSE)), Hashed("m", Res(20, 9, 9, FALSE, TRUE)),
       Hashed("t", Res(24, Len(Chunked(Ten)), 10, TRUE, FALSE))>>],
   meta |-> [len |-> 80, root |-> 8, dents |->
     (8 :> Dentry("", TRUE, "0", 24, 16)) @@
     (24 :> Dentry("d", TRUE, "0", 48, 32)) @@ (32 :> Dentry("t", FALSE, "t", 0, 40)) @@
     (40 :> EndOf(48)) @@
     (48 :> Dentry("s", FALSE, "s", 0, 56)) @@ (56 :> Dentry("e", TRUE, "0", 0, 64)) @@
     (64 :> Dentry("z", FALSE, "0", 0, 72)) @@ (72 :> EndOf(80))],
   members |->
     Counting(
       <<DirAt(<<"d">>), FileAt(<<"d", "s">>, HeapBody), DirAt(<<"d", "e">>),
         FileAt(<<"d", "z">>, <<>>), FileAt(<<"t">>, Ten) @@ [pieces |-> Pieces]>>,
       <<<<1, 2, 3, 4>>, <<2>>, <<3>>, <<4>>, <<5>>>>, <<24, 48, 56, 64, 32>>),
   cuts |-> <<0, 4, 5>>, fault |-> <<>>,
   damage |-> "none"]

\* As deep as the stack allows, with a member in d/e, and a directory deeper.
WimDeep ==
  [WimOf EXCEPT !.meta.len = 96, !.meta.dents[56].below = 80,
     !.meta.dents = @ @@ (80 :> Dentry("y", TRUE, "0", 0, 88)) @@ (88 :> EndOf(96)),
     !.members =
       Counting(
         <<DirAt(<<"d">>), FileAt(<<"d", "s">>, HeapBody), DirAt(<<"d", "e">>),
           DirAt(<<"d", "e", "y">>), FileAt(<<"d", "z">>, <<>>),
           FileAt(<<"t">>, Ten) @@ [pieces |-> Pieces]>>,
         <<<<1, 2, 4, 5>>, <<2>>, <<3, 4>>, <<4>>, <<5>>, <<6>>>>, <<24, 48, 56, 80, 64, 32>>),
     !.cuts = <<0, 5, 6>>]
WimDeeper ==
  [WimDeep EXCEPT !.meta.dents[80].below = 96, !.meta.dents = @ @@ (96 :> EndOf(104)),
     !.meta.len = 104]

\* The dentries of a way down, by directory.
Down(rows) ==
  FlattenSeq([k \in DOMAIN rows |-> [i \in DOMAIN rows[k] |-> Hop(rows[k][i], k)]])

WimImages ==
  {WimOf, WimDeep, [WimOf EXCEPT !.meta.dents[8] = EndOf(16), !.members = <<>>, !.cuts = <<0>>],
   [WimOf EXCEPT !.lookup.entries[3].resource.packed = TRUE, !.codecs = {"xpress"}]}
    \union {[x EXCEPT !.damage = "told"] : x \in {
       [WimOf EXCEPT !.stream = TRUE], [WimOf EXCEPT !.magic = FALSE],
       [WimOf EXCEPT !.codecs = {"lzx", "lzms"}], [WimOf EXCEPT !.codecs = {}],
       [WimOf EXCEPT !.spanned = TRUE], [WimOf EXCEPT !.lookup.sound = FALSE],
       [WimOf EXCEPT !.len = 5], [WimOf EXCEPT !.meta.len = 70, !.fault = Down(<<<<24>>, <<48, 56, 64>>>>)],
       [WimOf EXCEPT !.meta.dents[64].hash = "u", !.fault = Down(<<<<24>>, <<48, 56, 64>>>>)],
       [WimOf EXCEPT !.meta.dents[24].below = 52, !.fault = Down(<<<<24>>, <<52>>>>)],
       [WimOf EXCEPT !.byte[8] = 9], [WimOf EXCEPT !.chunk = 0],
       [WimOf EXCEPT !.chunk = 0, !.table.packed = TRUE],
       [WimDeeper EXCEPT !.fault = Down(<<<<24>>, <<48, 56>>, <<80>>, <<96>>>>)],
       [WimOf EXCEPT !.meta.dents[24].below = 24,
          !.fault = Down(<<<<24>>, <<24>>, <<24>>, <<24>>>>)],
       [WimOf EXCEPT !.meta.dents[56].below = 24,
          !.fault = Down(<<<<24>>, <<48, 56>>, <<24>>, <<48>>>>)]}}
    \union {[WimOf EXCEPT !.damage = "body", !.byte = @ @@ (27 :> 1)],
            [WimOf EXCEPT !.damage = "body", !.lookup.entries[5].resource.onDisk = 3],
            [WimOf EXCEPT !.damage = "body", !.chunk = 0,
                          !.lookup.entries[2].resource.packed = FALSE]}

----------------------------------------------------------------------------
\* ISO: directory records; a body lies at its extent.
Rd(name, kind, extent, size) ==
  [name |-> name, kind |-> kind, extent |-> extent, size |-> size, reads |-> "ok",
   target |-> IF kind = "link" THEN <<"d">> ELSE <<>>]
Selves(self, parent) == <<Rd("", "dir", self, 0), Rd("..", "dir", parent, 0)>>

IsoOf ==
  [format |-> "iso", stream |-> FALSE, described |-> TRUE, descriptorEnd |-> 6, opens |-> TRUE,
   shrunk |-> FALSE, len |-> 28, byte |-> Laid(20, BodyB), root |-> 1,
   extents |->
     (1 :> (Selves(1, 1) \o <<Rd("d", "dir", 2, 0), Rd("l", "link", 0, 0)>>)) @@
     (2 :> (Selves(2, 1) \o <<Rd("a", "file", 20, 8), Rd("e", "dir", 3, 0)>>)) @@
     (3 :> Selves(3, 2)) @@ (4 :> Selves(4, 3)),
   members |->
     Counting(
       <<DirAt(<<"d">>), FileAt(<<"d", "a">>, BodyB), DirAt(<<"d", "e">>),
         Node(<<"l">>, "link", <<>>, <<"d">>)>>,
       <<<<1, 1, 1, 2, 3>>, <<2>>, <<3, 3, 3>>, <<4>>>>, <<2, 20, 3, 0>>),
   cuts |-> <<0, 0, 0, 3, 4>>, fault |-> <<>>,
   damage |-> "none"]

\* A record that leads back is listed for its name and ends there.
IsoWith(last, cuts) ==
  [IsoOf EXCEPT !.extents[3] = Append(@, last), !.cuts = <<0, 0, 0, 4, 5>>,
     !.members =
       Counting(
         <<DirAt(<<"d">>), FileAt(<<"d", "a">>, BodyB), DirAt(<<"d", "e">>),
           DirAt(<<"d", "e", last.name>>), Node(<<"l">>, "link", <<>>, <<"d">>)>>,
         <<<<1, 1, 1, 2, 4>>, <<2>>, <<3, 3, 3, 4>>, cuts, <<5>>>>, <<2, 20, 3, last.extent, 0>>)]

Loop == IsoWith(Rd("up", "dir", 2, 0), <<4>>)

\* One directory under two names: what it holds is listed under the first.
Shared ==
  [IsoOf EXCEPT !.extents[3] = Append(@, Rd("b", "file", 20, 8)),
     !.extents[1] = Append(@, Rd("s", "dir", 3, 0)), !.cuts = <<0, 0, 0, 4, 5, 6>>,
     !.members =
       Counting(
         <<DirAt(<<"d">>), FileAt(<<"d", "a">>, BodyB), DirAt(<<"d", "e">>),
           FileAt(<<"d", "e", "b">>, BodyB), Node(<<"l">>, "link", <<>>, <<"d">>), DirAt(<<"s">>)>>,
         <<<<1, 1, 1, 2, 4>>, <<2>>, <<3, 3, 3, 4>>, <<4>>, <<5>>, <<6>>>>, <<2, 20, 3, 20, 0, 3>>)]

MCIsoImages ==
  {IsoOf, Loop, Shared}
    \union {[x EXCEPT !.damage = "told"] : x \in {
       [IsoOf EXCEPT !.stream = TRUE], [IsoOf EXCEPT !.len = 5],
       [IsoOf EXCEPT !.described = FALSE], [IsoOf EXCEPT !.opens = FALSE],
       IsoWith(Rd("f", "dir", 4, 0), <<4, 4, 4>>),
       [IsoOf EXCEPT !.extents[2][4].reads = "panic", !.fault = <<1, 2>>],
       [IsoOf EXCEPT !.extents[2][3].reads = "Io", !.fault = <<1, 2>>]}}

Cut == {3, 9}
===========================================================================
