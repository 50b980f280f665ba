------------------------------ MODULE Registry ------------------------------
(***************************************************************************)
(* detect.rs and the probes of the handlers: which format a file is taken   *)
(* for, from its first 512 bytes and its name.  What the bytes show is a    *)
(* value of Heads (the magics are disjoint); a name is the sequence of its  *)
(* extensions in lower case, and whether they are written in capitals.      *)
(***************************************************************************)
EXTENDS Naturals, Sequences

\* A row of the registry: the format, the heads its probe knows, the extensions
\* it knows, and how they are weighed.
Row(id, rule, heads, exts) == [id |-> id, rule |-> rule, heads |-> heads, exts |-> exts]

\* Slip: a guess from the name weighs as much as a magic.
GuessAsMagic(id, exts) == Row(id, "either", {}, exts)

\* A handler whose magic lies beyond the bytes peeked (IsoHandler and others).
Guess(id, exts) == Row(id, "guess", {}, exts)

\* Confidence::MAGIC, EXTENSION, NONE; a self-extractor has EXTENSION's number.
MAGIC == 100
EXTENSION == 50
NONE == 0

Has(row, exts) == exts # <<>> /\ exts[Len(exts)] \in row.exts

\* FormatHandler::probe.
Probe(row, head, exts) ==
  LET content == head \in row.heads
      ext == Has(row, exts)
  IN CASE row.rule = "content" -> IF content THEN MAGIC ELSE NONE
       [] row.rule = "both" -> IF content /\ ext THEN MAGIC ELSE NONE
       [] row.rule = "either" -> IF content \/ ext THEN MAGIC ELSE NONE
       [] row.rule = "guess" -> IF ext THEN EXTENSION ELSE NONE
       [] row.rule = "half" -> IF content THEN 50 ELSE NONE

\* bundle::ZIP_BUNDLES
ZipBundle(ext) == Row(ext, "both", {"PK34"}, {ext})
ZipBundles == <<ZipBundle("jar"), ZipBundle("apk"), ZipBundle("ipa"), ZipBundle("epub"),
  ZipBundle("docx"), ZipBundle("xlsx"), ZipBundle("pptx"), ZipBundle("odt"), ZipBundle("ods"),
  ZipBundle("odp"), ZipBundle("war"), ZipBundle("appx"), ZipBundle("xpi")>>

Zips == <<
  Row("Crx", "content", {"Cr24"}, {}),
  Row("Conda", "both", {"PK34"}, {"conda"}),
  Row("Zip", "content", {"PK34", "PK56"}, {}) >>

Modern == <<
  Row("Cpio", "content", {"cpio"}, {}),
  Row("SevenZ", "content", {"7z"}, {}),
  Row("Rar", "content", {"Rar"}, {}),
  Row("Tar", "content", {"ustar"}, {}),
  Row("Cab", "content", {"MSCF"}, {}),
  Row("Deb", "content", {"deb"}, {}),
  Row("Ar", "content", {"ar", "deb"}, {}),
  Row("Rpm", "content", {"rpm"}, {}),
  Row("Xar", "content", {"xar"}, {}),
  Row("Msi", "both", {"CFB"}, {"msi"}),
  Guess("Iso", {"iso"}),
  Row("Squashfs", "either", {"hsqs"}, {"squashfs", "sfs"}),
  Row("AppImage", "either", {"AI"}, {"appimage"}),
  Row("Wim", "either", {"MSWIM"}, {"wim", "esd", "swm"}),
  Row("Sfx", "half", {"MZ", "MZnsis", "MachO"}, {}),
  Row("Warc", "either", {"WARC"}, {"warc"}),
  Guess("HfsPlus", {"hfs", "hfsplus", "hfsx"}),
  Row("Apfs", "either", {"NXSB"}, {"apfs"}),
  Row("Dmg", "either", {}, {"dmg"}),
  Guess("Wpress", {"wpress"}) >>

Legacy == <<
  Row("Arj", "content", {"arj"}, {}),
  Row("Zoo", "content", {"zoo"}, {}),
  Row("Lbr", "content", {"lbr"}, {}),
  Row("Crunch", "content", {"crunch"}, {}),
  Row("Arc", "either", {}, {"arc", "ark", "pak", "spark"}),
  Row("Squeeze", "either", {"squeeze"}, {"sq", "qqq"}),
  Row("BinHex", "content", {"hqx"}, {}),
  Row("MacBinary", "content", {"macbin"}, {}),
  Row("AppleSingle", "content", {"asingle"}, {}),
  Row("CompactPro", "either", {"cpt"}, {"cpt"}),
  Row("PackIt", "either", {"pit"}, {"pit"}),
  Row("StuffIt5", "content", {"sit5"}, {}),
  Row("StuffIt", "content", {"sit"}, {}),
  Row("StuffItX", "content", {"sitx"}, {}),
  Row("Alz", "either", {"alz"}, {"alz"}),
  Row("Nsis", "content", {}, {}),
  Row("PowerPacker", "either", {"PP20"}, {"pp"}),
  Row("Lzx", "either", {"lzx"}, {"lzx"}),
  Row("Dms", "either", {"dms"}, {"dms"}) >>

\* Slip: the zip handler before those that share its magic.
ZipFirst == <<Zips[3]>> \o ZipBundles \o Zips \o Modern \o Legacy

\* registry(): the handlers in order of priority.
Handlers == ZipBundles \o Zips \o Modern \o Legacy

\* The row selected: the first with the highest confidence, or none.
Selected(head, exts) ==
  LET c == [i \in 1..Len(Handlers) |-> Probe(Handlers[i], head, exts)]
  IN { i \in 1..Len(Handlers) :
         c[i] > NONE /\ \A j \in 1..Len(Handlers) : c[j] <= c[i] /\ (j < i => c[j] < c[i]) }

----------------------------------------------------------------------------
\* detect_compressor
Compressed == {"gz", "bz2", "xz", "zst", "Z", "lz4", "sz", "lz"}

\* COMPRESSOR_EXTS: the extensions stripped, and those that name a compressor
\* the content cannot tell.
CompressorExts == {"gz", "bz2", "xz", "zst", "Z", "lz4", "br", "sz", "lzma", "lz"}
NamedOnly == {"br", "lzma"}

EndsWith(exts, tail) ==
  Len(exts) >= Len(tail) /\ SubSeq(exts, Len(exts) - Len(tail) + 1, Len(exts)) = tail

IsCompressed(head, exts) ==
  head \in Compressed \/ (exts # <<>> /\ exts[Len(exts)] \in NamedOnly)

\* Slip: the last extension goes, whatever it is.
StripAny(name) ==
  IF name.exts # <<>> THEN [name EXCEPT !.exts = SubSeq(@, 1, Len(@) - 1)] ELSE name

\* stem_without_compressor_ext: the suffixes are compared as they are written.
Strip(name) ==
  IF name.exts # <<>> /\ name.exts[Len(name.exts)] \in CompressorExts
     /\ (name.caps <=> name.exts[Len(name.exts)] = "Z")
  THEN [name EXCEPT !.exts = SubSeq(@, 1, Len(@) - 1)]
  ELSE name
=============================================================================
