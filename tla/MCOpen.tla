------------------------------ MODULE MCOpen ------------------------------
(***************************************************************************)
(* The files opened in the runs: every head under every extension, and      *)
(* every handler that opens what is inside a file, whole and damaged.       *)
(***************************************************************************)
EXTENDS Open

C(head) == [NoContent EXCEPT !.head = head, !.sound = TRUE]
With(head, inner) == [C(head) EXCEPT !.inner = inner]
Deep(head, deep) == [C(head) EXCEPT !.deep = deep]
Damaged(c) == [c EXCEPT !.sound = FALSE]

Name(exts) == [own |-> TRUE, exts |-> exts, caps |-> FALSE]
Capitals(exts) == [Name(exts) EXCEPT !.caps = TRUE]
File(c, exts) == [content |-> c, name |-> Name(exts), set |-> "none"]
Volumes(c, exts) == [File(c, exts) EXCEPT !.set = "raw"]

Tar == C("ustar")
Zip == C("PK34")
Text == C("text")
Gz(c) == With("gz", <<c>>)
Dmg(head, volume) == [With(head, <<volume>>) EXCEPT !.koly = TRUE]
Hfs == Deep("none", "hfs")
IsoImage == Deep("none", "iso")
Image(c) == With("AI", <<c>>)
Cabs == With("CFB", <<C("MSCF"), C("MSCF")>>)
Packages == With("PK34", <<With("zst", <<Tar>>), With("zst", <<Tar>>)>>)
Extractor(c) == With("MZ", <<c>>)

\* What a person would expect to open, whatever the disk does short of failing.
Intact ==
  { File(C(h), e) : h \in {"PK34", "7z", "Rar", "ustar", "MSCF", "sit5", "asingle"},
                    e \in {<<>>, <<"iso">>, <<"hfs">>, <<"wpress">>, <<"txt">>} }
  \union { File(Zip, <<"jar">>), File(Zip, <<"epub">>), File(Packages, <<"conda">>), File(Cabs, <<"msi">>),
           File(IsoImage, <<>>), File(IsoImage, <<"iso">>), File(Hfs, <<"bin">>), File(C("wpress"), <<"wpress">>),
           File(Image(C("hsqs")), <<>>), File(Image(IsoImage), <<"appimage">>), File(Deep("ELF", "iso"), <<"appimage">>),
           File(With("rpm", <<C("cpio")>>), <<"rpm">>), File(With("Cr24", <<Zip>>), <<"crx">>),
           File(C("WARC"), <<"warc">>), File(Gz(C("WARC")), <<"warc", "gz">>),
           File(Dmg("none", Hfs), <<"dmg">>), File(Dmg("bz2", C("NXSB")), <<"iso">>),
           [File(Zip, <<"zip">>) EXCEPT !.set = "stray"], [File(C("span"), <<"zip">>) EXCEPT !.set = "zip"] }
  \union { File(With("deb", <<data>>), <<"deb">>) : data \in {Tar, Gz(Tar), With("lzma", <<Tar>>)} }
  \union { File(Gz(c), e) : c \in {Tar, C("cpio"), Zip, Text, Gz(Tar)}, e \in {<<"txt", "gz">>, <<"txt">>, <<>>} }
  \union { File(With("brotli", <<Text>>), <<"txt", "br">>), File(With("Z", <<Text>>), <<"Z">>),
           [File(Gz(Text), <<"txt", "gz">>) EXCEPT !.name = Capitals(<<"txt", "gz">>)] }
  \union { File(Extractor(c), <<"exe">>) : c \in {Zip, C("7z"), C("MSCF")} }
  \union { File(C("MZnsis"), <<"exe">>), File(With("MachO", <<C("7z")>>), <<>>) }
  \union { File(With(h, payload), <<"hqx">>) : h \in {"hqx", "macbin"},
             payload \in { <<>>, <<C("sit5")>>, <<Text>>, <<Damaged(C("sit"))>>, <<Extractor(Zip)>>,
                           <<With("macbin", <<Gz(Tar)>>)>>, <<Damaged(Gz(Tar))>> } }
  \union { Volumes(c, <<"001">>) : c \in {Zip, Gz(Tar), With("deb", <<Gz(Tar)>>), Gz(Text),
                                          With("macbin", <<Extractor(Zip)>>)} }

\* What cannot be opened, or only in part.
Broken ==
  { File(Damaged(c), e) : c \in {Zip, Gz(Tar), C("hqx"), C("7z"), C("WARC"), Cabs, With("deb", <<Tar>>), Dmg("none", Hfs)},
                          e \in {<<>>, <<"msi">>, <<"conda">>, <<"appimage">>} }
  \union { File(Gz(Damaged(Tar)), <<"tgz">>), File(Extractor(Text), <<"exe">>), File(Damaged(Extractor(Zip)), <<>>),
           File(Extractor(Damaged(Zip)), <<>>), File(With("deb", <<Text>>), <<>>), File(With("deb", <<Damaged(Gz(Tar))>>), <<>>),
           File(Dmg("none", Text), <<>>), File(C("text"), <<"dmg">>), File(Image(Text), <<>>), File(Image(Damaged(C("hsqs"))), <<>>),
           File(With("CFB", <<C("MSCF"), Damaged(C("MSCF"))>>), <<"msi">>), File(Zip, <<"conda">>),
           File(With("PK34", <<With("zst", <<Tar>>), Damaged(With("zst", <<Tar>>))>>), <<"conda">>),
           File(With("PK34", <<With("zst", <<Tar>>), With("zst", <<Text>>)>>), <<"conda">>),
           File(Gz(Text), <<"warc", "gz">>), File(C("WARC"), <<"warc", "gz">>),
           File(With("deb", <<C("WARC")>>), <<"warc", "gz">>), Volumes(Cabs, <<"msi", "001">>), Volumes(Damaged(Zip), <<"001">>),
           [File(Damaged(C("span")), <<"zip">>) EXCEPT !.set = "zip"] }

Heads == UNION {Handlers[i].heads : i \in 1..Len(Handlers)} \union {"gz", "brotli", "text"}
Exts == UNION {Handlers[i].exts : i \in 1..Len(Handlers)} \union {"gz", "br", "txt"}
Flat == { File(C(h), <<e>>) : h \in Heads, e \in Exts }

MCFiles == Intact \union Broken \union Flat

\* They are whole, so the runs open them as such.
ASSUME WholeAssumption == \A f \in Intact : IsWhole(f)
=============================================================================
