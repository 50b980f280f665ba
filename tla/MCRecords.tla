----------------------------- MODULE MCRecords -----------------------------
(***************************************************************************)
(* Archives of up to four members for TLC, as their writers make them, and *)
(* what can befall them: cut at every length that matters, a header field  *)
(* or a magic spoiled, a body's byte changed.                              *)
(***************************************************************************)
EXTENDS Records

Field(n, base, width) == [k \in 1..width |-> (n \div base^(width - k)) % base]

\* The bytes of a body that starts at p.
Put(p, body) ==
  [q \in {p + k - 1 : k \in {k \in DOMAIN body : body[k] # 0}} |-> body[q - p + 1]]

----------------------------------------------------------------------------
\* cpio: a source is [name, namesize, type, body].
Src(name, namesize, type, body) ==
  [name |-> name, namesize |-> namesize, type |-> type, body |-> body]

CpioHeader(d, s) ==
  [magic |-> d, type |-> s.type, plain |-> TRUE, name |-> s.name,
   filesize |-> <<Pad>> \o Field(Len(s.body), Base[d], 2),
   namesize |-> Field(s.namesize, Base[d], 2) \o <<Pad>>,
   check |-> Field(IF d = "crc" /\ s.type = "reg" THEN Sum(s.body) ELSE 0, Base[d], 2)]

AddSource(d, w, s) ==
  LET body == Aligned(d, w.len + HeaderLen[d] + s.namesize)
  IN [w EXCEPT !.len = Aligned(d, body + Len(s.body)),
               !.rec = (w.len :> CpioHeader(d, s)) @@ @,
               !.byte = Put(body, s.body) @@ @,
               !.spots = Append(@, [at |-> w.len, body |-> body, size |-> Len(s.body),
                                    before |-> Len(w.members)]),
               !.members =
                 IF s.type = "other" THEN @
                 ELSE Append(@, [path |-> IF Len(s.name) > 1 THEN Tail(s.name) ELSE s.name,
                                 kind |-> IF s.type = "reg" THEN "file" ELSE s.type,
                                 content |-> s.body])]

NoFile == [format |-> "cpio", len |-> 0, rec |-> <<>>, byte |-> <<>>, stream |-> FALSE,
           members |-> <<>>, spots |-> <<>>, damage |-> "none"]
Finis == Src(Trailer, 11, "other", <<>>)

Pack(d, sources) ==
  FoldLeft(LAMBDA w, s : AddSource(d, w, s), NoFile, Append(sources, Finis))

Plain == <<Src(<<".">>, 2, "dir", <<>>), Src(<<".", "a">>, 5, "reg", <<7, 0, 9, 9, 8>>),
           Src(<<".", "l">>, 4, "link", <<3, 4, 5>>), Src(<<".", "b">>, 6, "reg", <<11>>)>>
Odd == <<Src(<<"n">>, 3, "other", <<1>>), Src(<<"h">>, 2, "reg", <<>>),
         Src(<<"h2">>, 9, "reg", <<6, 6>>)>>

CpioWhole == {Pack(d, s) : d \in Dialects, s \in {Plain, Odd, <<>>}}

\* A cut that leaves the trailer's name whole loses nothing.
CutTo(f, n) == [f EXCEPT !.len = n, !.damage = "cut"]
LastRecord(f) == CHOOSE p \in DOMAIN f.rec : \A q \in DOMAIN f.rec : q <= p
CpioCut ==
  UNION {LET f == Pack(d, Plain)
         IN {CutTo(f, n) : n \in {0, 5, 75, 115, 163, 250, 258, 330, 365, 380, LastRecord(f),
                                  LastRecord(f) + HeaderLen[d] + 10}} : d \in Dialects}

Spoilt(f, p, header) == [f EXCEPT !.rec[p] = header, !.damage = "header"]
CpioSpoilt ==
  UNION {LET f == Pack(d, Plain) IN UNION {
    {Spoilt(f, p, [f.rec[p] EXCEPT !.magic = IF d = "odc" THEN "newc" ELSE "odc"]),
     Spoilt(f, p, [f.rec[p] EXCEPT !.plain = FALSE]),
     Spoilt(f, p, [f.rec[p] EXCEPT !.namesize = Field(0, Base[d], 2)]),
     Spoilt(f, p, [f.rec[p] EXCEPT !.filesize = <<1, Base[d]>>]),
     Spoilt(f, p, [f.rec[p] EXCEPT !.filesize = Field(500, Base[d], 3)])}
    : p \in DOMAIN f.rec \ {LastRecord(f)}} : d \in Dialects}

Tampered == {[Pack("crc", Plain) EXCEPT !.byte = [@ EXCEPT ![p] = @ + 1], !.damage = "body"] :
               p \in {p \in DOMAIN Pack("crc", Plain).byte :
                        Pack("crc", Plain).byte[p] # 3 /\ Pack("crc", Plain).byte[p] # 4}}

CpioArchives ==
  CpioWhole \union CpioCut \union CpioSpoilt \union Tampered
    \union {[Pack("newc", Plain) EXCEPT !.stream = TRUE]}

----------------------------------------------------------------------------
\* wpress: a source is [prefix, name, size field, body, path].
A == 97
Rec(prefix, size, body, path) ==
  [block |-> [name |-> <<A, 0>>, size |-> size, mtime |-> <<49, 32>>, prefix |-> prefix],
   body |-> body, path |-> path]

AddBlock(w, r) ==
  [w EXCEPT !.len = @ + BlockLen + Len(r.body),
            !.rec = (w.len :> r.block) @@ @,
            !.byte = Put(w.len + BlockLen, r.body) @@ @,
            !.spots = Append(@, [at |-> w.len, size |-> Len(r.body)]),
            !.members = Append(@, [path |-> r.path, kind |-> "file", content |-> r.body])]

Chain(rs) == FoldLeft(AddBlock, [NoFile EXCEPT !.format = "wpress"], rs)
Tree == <<Rec(<<46, 0, 0>>, <<48 + 2, 32, 0>>, <<0, 5>>, <<A>>),
          Rec(<<46, 47, 46, 47, A, 47>>, <<48, 48, 51>>, <<5, 6, 7>>, <<A, 47, A>>),
          Rec(<<46, 47, 46, 0>>, <<0, 0>>, <<>>, <<A>>)>>
Padded(f, n) == [f EXCEPT !.len = @ + n]

WPressWhole == {Chain(Tree), Padded(Chain(Tree), 3), Padded(Chain(Tree), BlockLen),
                Chain(<<>>), [Chain(Tree) EXCEPT !.stream = TRUE]}
WPressCut == {CutTo(Chain(Tree), n) : n \in (1 .. Chain(Tree).len - 1)
                                            \ {BlockLen + 2, 2 * BlockLen + 5}}
WPressShort == {[Chain(Tree) EXCEPT !.len = n, !.damage = "short"] :
                  n \in {BlockLen + 2, 2 * BlockLen + 5}}
WPressSpoilt ==
  LET f == Chain(Tree) IN UNION {
    {Spoilt(f, p, [f.rec[p] EXCEPT !.name = <<A, 47>>]),
     Spoilt(f, p, [f.rec[p] EXCEPT !.name = <<0, A>>]),
     Spoilt(f, p, [f.rec[p] EXCEPT !.mtime = <<A>>]),
     Spoilt(f, p, [f.rec[p] EXCEPT !.size = <<57, 57>>])} : p \in DOMAIN f.rec}

WPressArchives == WPressWhole \union WPressCut \union WPressShort \union WPressSpoilt

----------------------------------------------------------------------------
Tarred(path, kind, header, content) ==
  [path |-> path, kind |-> kind, header |-> header, at |-> header + 2,
   size |-> IF kind = "file" THEN Len(content) ELSE 0, content |-> content]
TarFile(source) ==
  [format |-> "tar", len |-> 13, source |-> source, damage |-> "none",
   byte |-> Put(4, <<1, 2, 3>>) @@ Put(11, <<4, 5>>),
   members |-> <<Tarred(<<"d">>, "dir", 0, <<>>),
                 Tarred(<<"d", "a">>, "file", 2, <<1, 2, 3>>),
                 Tarred(<<"l">>, "link", 7, <<9>>),
                 Tarred(<<"b">>, "file", 9, <<4, 5>>)>>]
TarArchives ==
  {TarFile(s) : s \in {"path", "pathless", "stream"}}
    \union {CutTo(TarFile("path"), n) : n \in {1, 5, 12}}

----------------------------------------------------------------------------
Zipped(name, kind, content, lock, weak, lzma) ==
  [path |-> <<name>>, kind |-> kind, content |-> content, lock |-> lock, weak |-> weak,
   lzma |-> lzma, props |-> name # "p", sound |-> name # "x"]
ZipOf(members, password) ==
  [format |-> "zip", members |-> members, password |-> password, stream |-> FALSE,
   directory |-> TRUE, damage |-> "none"]
Ends == [ZipOf(<<>>, "none") EXCEPT !.directory = FALSE, !.damage = "cut"]
ZipArchives ==
  {ZipOf(ms, pw) :
     pw \in {"none", "right", "wrong"},
     ms \in {<<Zipped("d", "dir", <<>>, "none", FALSE, FALSE),
               Zipped("z", "file", <<1, 2>>, "none", FALSE, TRUE),
               Zipped("l", "link", <<3>>, "none", FALSE, FALSE)>>,
             <<Zipped("a", "file", <<1>>, "none", FALSE, FALSE),
               Zipped("b", "file", <<2>>, "right", FALSE, FALSE),
               Zipped("l", "link", <<3>>, "right", FALSE, FALSE)>>,
             <<Zipped("a", "file", <<1>>, "right", TRUE, FALSE),
               Zipped("b", "file", <<2>>, "other", FALSE, FALSE)>>,
             <<Zipped("x", "file", <<1>>, "none", FALSE, TRUE),
               Zipped("p", "file", <<1>>, "none", FALSE, TRUE),
               Zipped("z", "file", <<1>>, "right", FALSE, TRUE)>>}}
  \union {Ends, [Ends EXCEPT !.stream = TRUE]}

Rarred(name, content, lock, vague) ==
  [path |-> <<name>>, kind |-> "file", content |-> content, lock |-> lock, vague |-> vague,
   sound |-> name # "x"]
RarArchives ==
  {[format |-> "rar", members |-> ms, password |-> pw, path |-> p, headerLock |-> h,
    volumes |-> v, damage |-> "none"] :
     pw \in {"none", "right", "wrong"}, h \in {"none", "right"}, v \in BOOLEAN, p \in {TRUE},
     ms \in {<<Rarred("a", <<1>>, "none", FALSE), Rarred("b", <<2>>, "right", FALSE)>>,
             <<Rarred("a", <<1>>, "right", TRUE), Rarred("x", <<2>>, "right", FALSE)>>,
             <<Rarred("a", <<1>>, "none", FALSE), Rarred("a", <<2>>, "none", FALSE),
               Rarred("b", <<3>>, "none", FALSE)>>}}
  \union {[format |-> "rar", members |-> <<>>, password |-> "none", path |-> FALSE,
           headerLock |-> "none", volumes |-> FALSE, damage |-> "none"]}

Shortened == {1, 4}
===========================================================================
