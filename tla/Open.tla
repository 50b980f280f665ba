-------------------------------- MODULE Open --------------------------------
(***************************************************************************)
(* detect::open and the handlers that open something inside the file: they  *)
(* decompress, carve or join it into a temp file, open that in turn and     *)
(* keep the temp file for as long as the reader lives (TempBackedReader).   *)
(* The calls are a stack; a call that returns drops the temp files it does  *)
(* not hand on, as the destructors of NamedTempFile and TempPath do.        *)
(***************************************************************************)
EXTENDS Registry, FiniteSets

CONSTANTS
  Files,      \* the files a user may open: [content, name, set]
  TempIds     \* the temp files there can be at a time

\* What a file holds: what its first bytes and its last 512 bytes show, the
\* signature deep inside, whether it can be decoded, and what is embedded in it:
\* the decompressed stream, the archive appended, the members unpacked.
\* set: "none"; "raw", the first of .001, .002, ...; "zip", the last of .z01, ...;
\* "stray", a zip beside a .z01 that is not a part of it.
NoContent == [head |-> "none", koly |-> FALSE, deep |-> "none", sound |-> FALSE, inner |-> <<>>]
NoName == [own |-> FALSE, exts |-> <<>>, caps |-> FALSE]

ASSUME OpenAssumption == 0 \notin TempIds
ASSUME NameAssumption == \A f \in Files : f.name \in [own : BOOLEAN, exts : Seq(STRING), caps : BOOLEAN]

VARIABLES
  user,       \* the file the user opens
  temps,      \* the temp files, and what each holds
  calls,      \* the calls in progress, the innermost last
  returned,   \* how the call just ended did: "none", "ok", "err"
  result,     \* the reader it returned
  error,      \* the kind of error it returned: "Corrupt" for any that blames the content
  status      \* "opening", "open", "failed" or "closed"

vars == <<user, temps, calls, returned, result, error, status>>

\* A call: what function, on which file, how far it is; the temp files it will
\* hand on and those it will drop; the file it opens next; for a handler with
\* several members, the next one and the files read so far.
Frame(fn, file) ==
  [fn |-> fn, file |-> file, stage |-> "new", own |-> {}, scratch |-> {},
   called |-> file, next |-> 1, reads |-> {}]

\* A reader: the format it reports, the content and the files it reads, the temp
\* files it holds, the name of its entry if it is a plain file.
Reader(format, leaf, reads, holds, entry) ==
  [format |-> format, leaf |-> leaf, reads |-> reads, holds |-> holds, entry |-> entry]

Top == calls[Len(calls)]
ContentOf(file) == IF file = 0 THEN user.content ELSE temps[file]
NameOf(file) == IF file = 0 THEN user.name ELSE NoName
Here == ContentOf(Top.file)

Init ==
  /\ user \in Files
  /\ temps = [t \in {} |-> NoContent]
  /\ calls = <<Frame("open", 0)>>
  /\ returned = "none"
  /\ result = Reader("none", NoContent, {}, {}, NoName)
  /\ error = "none"
  /\ status = "opening"

----------------------------------------------------------------------------
Running(stage) == calls # <<>> /\ returned = "none" /\ Top.stage = stage
Returned(how) == calls # <<>> /\ returned = how

Below == SubSeq(calls, 1, Len(calls) - 1)
WithTop(frame) == Append(Below, frame)

\* Slip: the temp files to be dropped stay.
KeepAll(files) == UNCHANGED temps

Drop(files) == temps' = [t \in DOMAIN temps \ files |-> temps[t]]

\* NamedTempFile::new and a copy into it: the temp file is the next to be opened.
Write(c, stage) ==
  \E t \in TempIds \ DOMAIN temps :
    /\ temps' = [f \in DOMAIN temps \union {t} |-> IF f = t THEN c ELSE temps[f]]
    /\ calls' = WithTop([Top EXCEPT !.own = @ \union {t}, !.called = t, !.stage = stage])
    /\ UNCHANGED <<user, returned, result, error, status>>

\* The same, with the temp files so far to be dropped.
WriteOver(c, stage) ==
  \E t \in TempIds \ DOMAIN temps :
    /\ temps' = [f \in DOMAIN temps \union {t} |-> IF f = t THEN c ELSE temps[f]]
    /\ calls' = WithTop([Top EXCEPT !.scratch = @ \union {Top.called}, !.own = (@ \ {Top.called}) \union {t},
                                    !.called = t, !.stage = stage])
    /\ UNCHANGED <<user, returned, result, error, status>>

Call(fn) ==
  /\ calls' = Append(WithTop([Top EXCEPT !.stage = "called"]), Frame(fn, Top.called))
  /\ UNCHANGED <<user, temps, returned, result, error, status>>

\* The call goes on as another, on the same file.
Become(fn) ==
  /\ calls' = WithTop(Frame(fn, Top.file))
  /\ UNCHANGED <<user, temps, returned, result, error, status>>

\* The reader is returned without the temp files of the call.
ReturnBare(r) ==
  /\ calls' = Below /\ returned' = "ok" /\ result' = r
  /\ Drop(Top.own \union Top.scratch)
  /\ UNCHANGED <<user, error, status>>

\* The reader takes the temp files of the call (TempBackedReader::new).
Return(r) ==
  /\ calls' = Below /\ returned' = "ok"
  /\ result' = [r EXCEPT !.holds = @ \union Top.own]
  /\ Drop(Top.scratch)
  /\ UNCHANGED <<user, error, status>>

ReturnError(e) ==
  /\ calls' = Below /\ returned' = "err" /\ error' = e
  /\ Drop(Top.own \union Top.scratch)
  /\ UNCHANGED <<user, result, status>>

\* The call goes on with the reader that was returned to it.
Resume(frame) ==
  /\ calls' = WithTop([frame EXCEPT !.own = @ \union result.holds, !.reads = @ \union result.reads])
  /\ returned' = "none"
  /\ UNCHANGED <<user, result, error, status>>

Leaf(format) == Reader(format, Here, {Top.file}, {}, NoName)

----------------------------------------------------------------------------
\* detect::open: a set of volumes is joined; a .zip set is known to be one.
\* The names of temp files end in no extension, so only the user's file has one.
Join ==
  /\ Running("new") /\ Top.fn = "open" /\ Top.file = 0 /\ user.set \in {"raw", "zip"}
  /\ Write(user.content, "made")

OpenWhole ==
  /\ Running("new") /\ Top.fn = "open"
  /\ Top.file = 0 => user.set \in {"none", "stray"}
  /\ Become("open_single")

OpenJoined ==
  /\ Running("made") /\ Top.fn = "open"
  /\ Call(IF user.set = "zip" THEN "Zip" ELSE "open_single")

\* open_single: the extension and the trailer first, then a compressor, an
\* installer, the registry, and the signatures beyond the bytes it looks at.
Route(c, name) ==
  LET row == Selected(c.head, name.exts)
  IN IF EndsWith(name.exts, <<"warc">>) \/ EndsWith(name.exts, <<"warc", "gz">>) THEN "Warc"
     ELSE IF EndsWith(name.exts, <<"dmg">>) \/ c.koly THEN "Dmg"
     ELSE IF IsCompressed(c.head, name.exts) THEN "Compressed"
     ELSE IF c.head = "MZnsis" THEN "Nsis"
     ELSE IF row # {} THEN Handlers[CHOOSE i \in row : TRUE].id
     ELSE CASE c.deep = "iso" -> "Iso"
            [] c.deep = "hfs" -> "HfsPlus"
            [] OTHER -> "none"

OpenSingle ==
  /\ Running("new") /\ Top.fn = "open_single"
  /\ LET fn == Route(Here, NameOf(Top.file))
     IN IF fn = "none" THEN ReturnError("UnknownFormat") ELSE Become(fn)

Envelopes == {"BinHex", "MacBinary"}

\* Any step of a call may fail to open, read or write a file.  An envelope swallows
\* it once it has its bytes (PayloadFails); what fails to mount is no volume.
IoFails ==
  /\ calls # <<>> /\ returned = "none"
  /\ Top.fn \in Envelopes => Top.stage = "new"
  /\ \/ ReturnError("Io")
     \/ Top.fn = "Volume" /\ ReturnError("UnknownFormat")

----------------------------------------------------------------------------
\* The formats that read the file as it is.
Wrappers == {"open", "open_single", "Warc", "Dmg", "Compressed", "Sfx", "Crx", "Rpm", "Deb",
             "AppImage", "Conda", "Msi", "BinHex", "MacBinary"}

\* What a handler can open: the content its probe knows, or its signature.
HeadsOf(fn) ==
  UNION {Handlers[i].heads : i \in {j \in 1..Len(Handlers) : Handlers[j].id = fn}}
  \union (CASE fn = "Zip" -> {"span"} [] fn = "Nsis" -> {"MZnsis"} [] fn = "Arc" -> {"arc"}
            [] fn = "Wpress" -> {"wpress"} [] fn = "Volume" -> {"NXSB"} [] OTHER -> {})
Accepts(fn, c) ==
  c.sound /\ (\/ c.head \in HeadsOf(fn)
              \/ fn = "Iso" /\ c.deep = "iso"
              \/ fn \in {"HfsPlus", "Volume"} /\ c.deep = "hfs")

OpenLeaf ==
  /\ Running("new") /\ Top.fn \notin Wrappers
  /\ IF Accepts(Top.fn, Here) THEN Return(Leaf(Top.fn))
     ELSE ReturnError(IF Top.fn = "Volume" THEN "UnknownFormat" ELSE "Corrupt")

----------------------------------------------------------------------------
\* The handlers with one temp file.  A self-extractor looks for one of four magics
\* (find_archive_magic); the others know where the content is.
SfxMagics == {"PK34", "7z", "Rar", "MSCF"}
Decodable == Compressed \union {"brotli", "lzma"}
Carves(fn, c) ==
  /\ c.sound /\ c.inner # <<>>
  /\ CASE fn = "Sfx" -> c.inner[1].head \in SfxMagics
       [] fn = "Dmg" -> c.koly
       [] fn = "AppImage" -> c.head = "AI" /\ c.deep # "iso" /\ c.inner[1].deep = "iso"
       [] fn \in {"Crx", "Rpm"} -> c.head \in HeadsOf(fn)
       [] fn = "Compressed" -> c.head \in Decodable
       [] OTHER -> FALSE

\* Slip: a self-extractor hands on the whole file.
CarvedWhole(fn, c) == IF fn = "Sfx" THEN c ELSE c.inner[1]

Carved(fn, c) == c.inner[1]

Carve ==
  /\ Running("new") /\ Carves(Top.fn, Here)
  /\ Write(Carved(Top.fn, Here), "made")

\* What a handler opens the temp file as.
InnerFn(fn, c) ==
  CASE fn = "Sfx" -> "open_single" [] fn = "Crx" -> "Zip" [] fn = "Rpm" -> "Cpio"
    [] fn = "Dmg" -> "Volume" [] fn = "AppImage" -> "Iso"
    [] fn = "Compressed" -> IF c.head = "ustar" THEN "Tar" ELSE "Cpio"

\* Slip: a cpio is not looked for.
IsPlainButTar(c) == c.head # "ustar"

\* A decompressed stream is a tar, a cpio or one plain file (is_tar, is_cpio).
IsPlain(c) == c.head \notin {"ustar", "cpio"}

OpenCarved ==
  /\ Running("made") /\ Top.fn \in {"Sfx", "Crx", "Rpm", "Dmg", "AppImage", "Compressed"}
  /\ ~(Top.fn = "Compressed" /\ IsPlain(temps[Top.called]))
  /\ Call(InnerFn(Top.fn, temps[Top.called]))

\* Slip: the name loses its last extension, whatever it is.
EntryNameAny(file) == StripAny(NameOf(file))

\* SingleFileReader::new
EntryName(file) == Strip(NameOf(file))

OpenPlain ==
  /\ Running("made") /\ Top.fn = "Compressed" /\ IsPlain(temps[Top.called])
  /\ Return(Reader("Raw", temps[Top.called], {Top.called}, {}, EntryName(Top.file)))

CarveFails ==
  /\ Running("new") /\ ~Carves(Top.fn, Here)
  /\ \/ Top.fn \in {"Sfx", "Dmg", "Crx", "Rpm", "Compressed"}
     \/ Top.fn = "AppImage" /\ ~(Here.sound /\ Here.deep = "iso")
        /\ ~(Here.sound /\ Here.head = "AI" /\ Here.inner # <<>> /\ Here.inner[1].head = "hsqs")
  /\ ReturnError(CASE Top.fn = "Sfx" -> "UnknownFormat"
                   [] Top.fn = "Compressed" -> "Io"
                   [] OTHER -> "Corrupt")

\* AppImageHandler: the image is the file itself, or is read in place.
OpenImage ==
  /\ Running("new") /\ Top.fn = "AppImage" /\ Here.sound /\ Here.deep = "iso"
  /\ Call("Iso")

OpenInPlace ==
  /\ Running("new") /\ Top.fn = "AppImage" /\ Here.sound /\ Here.head = "AI" /\ Here.deep # "iso"
  /\ Here.inner # <<>> /\ Here.inner[1].head = "hsqs"
  /\ IF Here.inner[1].sound THEN Return(Leaf("AppImage")) ELSE ReturnError("Corrupt")

\* The format a wrapper reports: its own, or that of the content.
Reports(fn) ==
  IF fn \in {"Crx", "Rpm", "Deb", "Dmg", "AppImage"} THEN fn ELSE result.format

Merging == {"Conda", "Msi"}

Wrap ==
  /\ Returned("ok") /\ Top.fn \notin Merging
  /\ Return([result EXCEPT !.format = Reports(Top.fn)])

InnerFails ==
  /\ Returned("err") /\ Top.fn \notin Envelopes
  /\ ReturnError(error)

----------------------------------------------------------------------------
\* WarcHandler: the bodies are copied to one temp file, the reader's own.  The name
\* alone decides whether the file is read through a gzip decoder.
OpenWarc ==
  /\ Running("new") /\ Top.fn = "Warc"
  /\ LET packed == EndsWith(NameOf(Top.file).exts, <<"warc", "gz">>)
         c == IF packed THEN Here.inner[1] ELSE Here
     IN IF /\ Here.sound
           /\ packed => Here.head = "gz" /\ Here.inner # <<>>
           /\ c.sound /\ c.head = "WARC"
        THEN Write(c, "made") ELSE ReturnError("Corrupt")

WarcOpened ==
  /\ Running("made") /\ Top.fn = "Warc"
  /\ Return(Reader("Warc", temps[Top.called], {Top.called}, {}, NoName))

\* DebHandler: data.tar is copied out, and decompressed if it has to be.
CopyData ==
  /\ Running("new") /\ Top.fn = "Deb"
  /\ IF Here.sound /\ Here.inner # <<>> THEN Write(Here.inner[1], "copied") ELSE ReturnError("Corrupt")

OpenData ==
  /\ Running("copied") /\ Top.fn = "Deb"
  /\ LET c == temps[Top.called]
     IN CASE c.head \in Decodable /\ c.sound /\ c.inner # <<>> -> WriteOver(c.inner[1], "made")
          [] c.head \in Decodable /\ ~(c.sound /\ c.inner # <<>>) -> ReturnError("Io")
          [] c.head = "ustar" -> Call("Tar")
          [] OTHER -> ReturnError("Unsupported")

OpenTar ==
  /\ Running("made") /\ Top.fn = "Deb"
  /\ Call("Tar")

\* MsiHandler and open_conda: a temp file for every member.
OpenMembers ==
  /\ Running("new") /\ Top.fn \in Merging
  /\ IF Here.sound /\ Here.head \in HeadsOf(Top.fn) /\ (Top.fn = "Conda" => Here.inner # <<>>)
     THEN calls' = WithTop([Top EXCEPT !.stage = "loop"])
          /\ UNCHANGED <<user, temps, returned, result, error, status>>
     ELSE ReturnError(IF Top.fn = "Msi" THEN "UnknownFormat" ELSE "Corrupt")

NextMember ==
  /\ Running("loop") /\ Top.fn \in Merging /\ Top.next <= Len(Here.inner)
  /\ Write(Here.inner[Top.next], IF Top.fn = "Conda" THEN "copied" ELSE "made")

DecodeMember ==
  /\ Running("copied") /\ Top.fn = "Conda"
  /\ LET c == temps[Top.called]
     IN IF c.head = "zst" /\ c.sound /\ c.inner # <<>>
        THEN WriteOver(c.inner[1], "made")
        ELSE ReturnError("Io")

OpenMember ==
  /\ Running("made") /\ Top.fn \in Merging
  /\ Call(IF Top.fn = "Conda" THEN "Tar" ELSE "Cab")

\* The compressed member is dropped, the others stay with the reader.
MemberOpened ==
  /\ Returned("ok") /\ Top.fn \in Merging
  /\ Resume([Top EXCEPT !.stage = "loop", !.next = @ + 1, !.scratch = {}])
  /\ Drop(Top.scratch)

MembersOpened ==
  /\ Running("loop") /\ Top.fn \in Merging /\ Top.next > Len(Here.inner)
  /\ Return(Reader(Top.fn, Here, Top.reads \union {Top.file}, {}, NoName))

\* unwrap_envelope: the payload is opened if its name promises an archive; if that
\* fails for any reason the envelope is what is shown.
OpenEnvelope ==
  /\ Running("new") /\ Top.fn \in Envelopes
  /\ CASE ~Accepts(Top.fn, Here) -> ReturnError("Corrupt")
       [] Accepts(Top.fn, Here) /\ Here.inner = <<>> -> Return(Leaf(Top.fn))
       [] OTHER -> Write(Here.inner[1], "made")

OpenPayload ==
  /\ Running("made") /\ Top.fn \in Envelopes
  /\ Call("open")

\* Slip: the envelope fails with its payload.
FailWithPayload == Returned("err") /\ Top.fn \in Envelopes /\ ReturnError(error)

ShowEnvelope ==
  /\ Returned("err") /\ Top.fn \in Envelopes
  /\ ReturnBare(Leaf(Top.fn))

\* The payload cannot be written or read.
PayloadFails ==
  /\ Running("made") /\ Top.fn \in Envelopes
  /\ ReturnBare(Leaf(Top.fn))

----------------------------------------------------------------------------
Finish ==
  /\ status = "opening" /\ calls = <<>>
  /\ status' = IF returned = "ok" THEN "open" ELSE "failed"
  /\ UNCHANGED <<user, temps, calls, returned, result, error>>

\* The reader is dropped, its temp files with it.
Close ==
  /\ status = "open"
  /\ status' = "closed"
  /\ Drop(result.holds)
  /\ UNCHANGED <<user, calls, returned, result, error>>

Step ==
  Join \/ OpenWhole \/ OpenJoined \/ OpenSingle \/ OpenLeaf \/ Carve \/ OpenCarved \/ OpenPlain
  \/ CarveFails \/ OpenImage \/ OpenInPlace \/ Wrap \/ InnerFails \/ OpenWarc \/ WarcOpened
  \/ CopyData \/ OpenData \/ OpenTar \/ OpenMembers \/ NextMember \/ DecodeMember \/ OpenMember
  \/ MemberOpened \/ MembersOpened \/ OpenEnvelope \/ OpenPayload \/ ShowEnvelope \/ Finish

Next == IoFails \/ PayloadFails \/ Step \/ Close

Spec == Init /\ [][Next]_vars

\* open runs on the caller's thread; the disk has room.
FairSpec == Spec /\ WF_vars(Step)

----------------------------------------------------------------------------
\* However an open ends, no temp file outlives its owner and none is deleted under
\* it: those on disk are those of the calls in progress, or those the reader
\* holds; every file a call works on or the reader reads is there
\* (TempBackedReader, MsiReader, CondaReader, the drops on every error path).
TempsAreHeld ==
  /\ status \in {"failed", "closed"} => DOMAIN temps = {}
  /\ status = "open" =>
       /\ DOMAIN temps = result.holds
       /\ result.reads \subseteq result.holds \union {0}
  /\ \A k \in DOMAIN calls : {calls[k].file} \ {0} \subseteq DOMAIN temps

\* The most specific handler wins whatever shares its magic: a zip bundle, conda
\* or msi package with its extension and a deb are opened as what they are.
MostSpecific ==
  status = "open" /\ user.set = "none" /\ ~user.content.koly =>
    /\ \A i \in 1..Len(Handlers) :
         Handlers[i].rule = "both" /\ Probe(Handlers[i], user.content.head, user.name.exts) > NONE =>
           result.format = Handlers[i].id
    /\ user.content.head = "deb" => result.format = "Deb"

\* What is compressed is unwrapped once: a tar or a cpio is opened, anything else,
\* an archive too, is one entry with the file's name without its compressor
\* extension (the comment in open_single on .zip.gz).
AsOneEntry ==
  LET inner == user.content.inner[1]
  IN status = "open" /\ user.set = "none" /\ Route(user.content, user.name) = "Compressed" =>
       CASE inner.head = "ustar" -> result.format = "Tar"
         [] inner.head = "cpio" -> result.format = "Cpio"
         [] OTHER -> /\ result.format = "Raw" /\ result.leaf = inner
                     /\ ~user.name.caps =>
                          \E tail \in {<<>>} \union {<<e>> : e \in CompressorExts} :
                            result.entry.exts \o tail = user.name.exts

\* What a writer of the format that fn opens leaves, as far in as fn looks.
Made(fn, c, exts) ==
  /\ c.sound
  /\ CASE fn = "Warc" ->
            LET packed == EndsWith(exts, <<"warc", "gz">>)
                w == IF packed THEN c.inner[1] ELSE c
            IN (packed => c.head = "gz" /\ c.inner # <<>>) /\ w.sound /\ w.head = "WARC"
       [] fn = "Compressed" ->
            c.head \in Decodable /\ c.inner # <<>> /\ (IsPlain(c.inner[1]) \/ c.inner[1].sound)
       [] fn = "Dmg" -> c.koly /\ c.inner # <<>> /\ Accepts("Volume", c.inner[1])
       [] fn = "Sfx" ->
            c.inner # <<>> /\ c.inner[1].head \in SfxMagics /\ c.inner[1].sound /\ ~c.inner[1].koly
       [] fn = "Crx" -> c.head = "Cr24" /\ c.inner # <<>> /\ Accepts("Zip", c.inner[1])
       [] fn = "Rpm" -> c.head = "rpm" /\ c.inner # <<>> /\ Accepts("Cpio", c.inner[1])
       [] fn = "Deb" ->
            /\ c.inner # <<>> /\ c.inner[1].sound
            /\ \/ c.inner[1].head = "ustar"
               \/ /\ c.inner[1].head \in Decodable /\ c.inner[1].inner # <<>>
                  /\ Accepts("Tar", c.inner[1].inner[1])
       [] fn = "AppImage" ->
            \/ c.deep = "iso"
            \/ /\ c.head = "AI" /\ c.inner # <<>> /\ c.inner[1].sound
               /\ c.inner[1].deep = "iso" \/ c.inner[1].head = "hsqs"
       [] fn = "Conda" ->
            /\ c.head = "PK34" /\ c.inner # <<>>
            /\ \A i \in 1..Len(c.inner) :
                 LET m == c.inner[i]
                 IN m.sound /\ m.head = "zst" /\ m.inner # <<>> /\ Accepts("Tar", m.inner[1])
       [] fn = "Msi" -> c.head = "CFB" /\ \A i \in 1..Len(c.inner) : Accepts("Cab", c.inner[i])
       [] OTHER -> Accepts(fn, c)

\* The content alone says what the file is: a name that is a guess has no say.
Telling ==
  Compressed \union UNION {Handlers[i].heads :
                            i \in {j \in 1..Len(Handlers) : Handlers[j].rule \notin {"both", "half"}}}

\* The formats whose magic lies beyond the bytes peeked, so that the name is all one has.
LaterMagic == {"Iso", "HfsPlus", "Wpress"}

\* What the file gives itself out for, by its bytes and by its name.
Claims(row, c, exts) ==
  CASE row.id \in LaterMagic -> Has(row, exts) /\ c.head \notin Telling
    [] row.rule = "both" -> c.head \in row.heads /\ Has(row, exts)
    [] row.rule = "half" -> c.head \in row.heads \ {"MZnsis"}
    [] row.rule = "content" -> c.head \in row.heads
    [] OTHER -> c.head \in row.heads \/ Has(row, exts)

Shown(c, exts) ==
  {fn \in {"Warc"} : EndsWith(exts, <<"warc">>) \/ EndsWith(exts, <<"warc", "gz">>)}
  \union IF c.koly THEN {"Dmg"}
         ELSE {fn \in {"Compressed"} : IsCompressed(c.head, exts)}
              \union {fn \in {"Nsis"} : c.head = "MZnsis"}
              \union {Handlers[i].id : i \in {j \in 1..Len(Handlers) : Claims(Handlers[j], c, exts)}}
              \union {fn \in {"Iso"} : c.deep = "iso"} \union {fn \in {"HfsPlus"} : c.deep = "hfs"}

\* It is that, whatever of it one goes by.
Whole(c, exts) == Shown(c, exts) # {} /\ \A fn \in Shown(c, exts) : Made(fn, c, exts)

IsWhole(file) ==
  CASE file.set = "zip" -> Made("Zip", file.content, <<>>)
    [] file.set = "raw" -> Whole(file.content, <<>>)
    [] OTHER -> Whole(file.content, file.name.exts)

\* A file that is whole opens, or fails for the disk: whatever guess its name
\* suggests (the registry's confidences), whatever an installer's handler makes of
\* another self-extractor, and whatever an envelope's payload is.  The failing disk
\* is not told from an unknown volume where a disk image is mounted.
WholeOpens ==
  status = "failed" /\ IsWhole(user) =>
    error = "Io" \/ (user.content.koly /\ error = "UnknownFormat")

\* An open ends, however deep the nesting.
OpenEnds == <>(status # "opening")

\* "an extension guess never shadows it" (archive.rs): a file whose first bytes show
\* a format goes to a handler that knows those bytes, not to one that only knows
\* its extension and then fails.
NameNeverShadows ==
  LET head == user.content.head
      chosen == Selected(head, user.name.exts)
  IN status = "failed" /\ error # "Io" /\ user.set = "none" /\ user.content.sound
     /\ (\E i \in 1..Len(Handlers) : Handlers[i].rule # "both" /\ head \in Handlers[i].heads)
     /\ Route(user.content, user.name) \in {Handlers[i].id : i \in chosen} =>
       \E i \in chosen : head \in Handlers[i].heads
=============================================================================
