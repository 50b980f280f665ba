# newtua-core: a verification development

`newtua-core` lists and extracts archives of more than fifty formats in one
process. Most containers are decoded by libraries; what the crate adds is the
engine that turns any reader into files on disk, the machinery that finds out
what a file is and opens containers inside containers, and a number of readers
and joiners of its own. This directory holds TLA+ models of that part, the
configurations under which TLC checks them, and proofs that TLAPS checks.

Paths below are relative to the repository (`src/extract.rs` is the crate's own
`src` directory); line numbers are those of the commit that was modelled.
`PROJECT.json` maps every definition to the lines it stands for.

## 1. Inventory

### How the parts call each other

```
caller ── detect::open ──► volume sets (volume.rs) ──► one temp file
              │                                            │
              ▼                                            ▼
         open_single ──► compressor? ──► temp file ──► tar / cpio / one entry
              │
              ├──► registry: probe of ~60 handlers, highest confidence wins
              │        │
              │        └──► wrappers (sfx deb rpm crx conda msi appimage dmg
              │             warc hqx macbin) ──► temp files ──► another open
              ▼
         Box<dyn ArchiveReader>  (TempBackedReader keeps the temp files)
              │
caller ── extract_all ──► entries, verify_password, read_entry ──► the disk
                    ◄── ProgressFn (may answer Abort) ──
```

Everything runs on the caller's thread. The crate has no threads, no locks and
no persistent state, so nothing interleaves inside it; what is hard comes from
outside, at each step: a reader that fails half way through a body, a callback that
says stop, a disk that is full, a directory that is not writable, a read that
returns less than was asked for, a volume that has disappeared, an archive that
names one place twice. Destructors matter as much as code does: temp files are
deleted by `NamedTempFile` and `TempPath` going out of scope.

### Components

| component | state | operations | what makes it hard | what makes it correct |
|---|---|---|---|---|
| extraction engine (`extract.rs`, `path_safety.rs`, `macos.rs`) | the report, the list of directory times, the file being written, the disk | `extract_all`, `extract_one`, `write_resource_fork`, `common_root` | partial failure of any step, cancellation between any two writes, entries that share a place, modes and times that later entries spoil | the report is complete; what is counted stands on disk; what is unfinished goes; nothing happens before the password is known or after an abort |
| lzip reader (`decompress.rs`) | a buffer, a five-state machine, a decoder, the trailer being collected | `read` | input in pieces of any length, members back to back with read-ahead, truncation anywhere | exactly the members' bytes; a clean end only for a whole file; errors are latched; every call returns |
| other decompressors (`decompress.rs`) | the library's stream | `decompressor` | – | (library code) |
| raw volume sets (`volume.rs` 1–80) | the index and the open volume | `volume_members`, `ConcatReader::read` | empty volumes, empty slices, volumes that vanish, reads that fail | the bytes in order without a gap, the end only at the end |
| split zip joiner (`volume.rs` 130–600) | the volumes' start offsets, the rebuilt directory | `split_zip_members`, `join_split_zip` | sentinels of 16 and 32 bit, optional zip64 records, lost and stray volumes | every entry points where it did in the unsplit file, or the set is refused |
| 7z (`sevenz.rs`) | entries and keys; during a call the walk | `open`, `read_entry`, `verify_password` | repeated names, a walk in another order than the listing, link targets that are bodies, wrong passwords that decode | each entry gives its own bytes; verification judges by the whole of the first encrypted body |
| registry and open pipeline (`detect.rs`, `format/bundle.rs`, probes) | the chain of calls, the temp files, who owns which | `open`, `open_single`, `probe`, `TempBackedReader` | nested opens, partial failure with temp files in hand, ties between confidences | no temp file outlives its owner or is deleted under it; the most specific handler wins; a whole file opens |
| wrappers (`sfx deb rpm crx conda msi appimage dmg warc`, `legacy/mac`, `legacy/nsis`) | temp files, inner readers | `open` | several inner members of which one fails; an envelope whose payload fails | as above; merged listings read from the right member |
| tar, zip, rar (`tar.rs`, `zip.rs`, `rar.rs`) | entries; the open file, a copy of it, or its path | `open`, `read_entry`, `verify_password` | a file that becomes shorter (tar), one verification for many entries and weak password checks (zip), lookup by name and a temp file for volumes (rar) | each entry gives its own bytes, whole or with an error; the password contract of `archive.rs` 257–264 |
| cpio, wpress (`cpio.rs`, `wpress.rs`) | while opening, the position in the chain of records; then entries with extents | `open`, `read_entry` | lengths that lead from record to record, padding, two counts of one position, an end that looks like a cut | the listing is what was written; no body overlaps another; what is cut is refused; a read is whole, and adds up, or says so |
| xar, iso, hfs+, apfs, wim (`xar.rs`, `iso.rs`, `hfsplus.rs`, `apfs.rs`, `wim.rs`) | while opening, the walk; then entries with extents | `open`, `read_entry` | trees of any depth and width, directories inside themselves, libraries that panic, chunks, a heap that shrank | the listing is the tree, each directory before what is in it; what is damaged never comes open; the walk ends, in wim only if the tree fits the stack |
| disk images (`dmg.rs`) | the chunks to decode, the raw image, the places left to try | `open` | chunks out of order, runs that copy from themselves, signatures that stand somewhere by chance | the volume inside is the one that was packed, wherever it begins |
| ar, cab, squashfs | a copy of a library's listing | `open`, `read_entry` | – | (library code) |
| legacy (`format/legacy`) | a library's listing | `open`, `read_entry` | dates and forks of a dozen formats | fork pairs follow their file |
| dates (`datetime.rs`) | – | pure functions | ranges, leap years, overflow | agrees with the calendar |
| encoding, errors, public surface | – | pure functions, types | – | – |

## 2. Modules

| module | models | notes |
|---|---|---|
| `EntryPaths` | `path_safety.rs`, `macos.rs`, `common_root` | a path is a sequence of component names |
| `FileTree` | the file system calls of `std::fs` and `filetime` (external) | a node says which entry wrote it, whether it is whole, whose time it bears |
| `Extract` | `extract.rs` | one action per stretch of code between two outside decisions |
| `ExtractPromise` | what `extract_all` promises | abstract specification, refined by `Extract` |
| `ByteStream` | what `Read` promises for a decompressed file | abstract specification, refined by `Lzip` |
| `Lzip` | `LzipReader` | the LZMA decoder is external |
| `Volumes` | `volume_members`, `ConcatReader` | |
| `SplitZip` | `split_zip_members`, `join_split_zip` | byte fields are numbers, volumes are lengths |
| `SevenZip` | `SevenZReader` | the library's walk is external |
| `Registry` | `registry()`, every `probe`, compressor detection | pure operators |
| `Open` | `open`, `open_single`, all wrappers, the ownership of temp files | a stack of calls; EXTENDS `Registry` |
| `StoredFile` | the file a reader holds open; seek and capped copy | pure operators, used by all the readers below |
| `Cpio`, `WPress`, `Tar`, `Zip`, `Rar` | `cpio.rs`, `wpress.rs`, `tar.rs`, `zip.rs`, `rar.rs` | one reader each |
| `RecordFiles` | the archives themselves: what their writers make, what befalls them | what the properties of `Records` take a file to be; extends `Cpio`, instantiates the other four |
| `Records` | the five of them side by side | composition, and what is asked of each |
| `Apfs`, `HfsPlus`, `Xar`, `Wim`, `Iso` | `apfs.rs`, `hfsplus.rs`, `xar.rs`, `wim.rs`, `iso.rs` | one reader each |
| `Dmg` | `dmg.rs` | makes a raw image and tries `HfsPlus` and `Apfs` on it |
| `TreeFiles` | the volumes, images and archives themselves: what their writers make, what befalls them | what the properties of `Trees` take a file to be; extends `Apfs`, instantiates the other five |
| `Trees` | the six of them side by side | composition, and what is asked of each |
| `ExtractProofs`, `SevenZipProofs`, `SplitZipProofs`, `VolumesProofs`, `OpenProofs`, `RecordsProofs`, `TreeReadersProofs`, `TreesProofs` | – | the theorems |
| `MCExtract`, `MCLzip`, `MCVolumes`, `MCSplitZip`, `MCSevenZip`, `MCOpen`, `MCRecords`, `MCTrees` | – | the instances TLC runs |

`Extract` is composed of `EntryPaths` and `FileTree` (EXTENDS) and implements
`ExtractPromise`; `Lzip` implements `ByteStream`; `Open` is built on `Registry`.
`Records`, through `RecordFiles`, extends `Cpio` and instantiates the other four over the
same five variables; `Trees`, through `TreeFiles`, does the same from `Apfs`. In `Trees` a disk image is handed
from module to module: `Dmg` makes it a raw image, `HfsPlus` or `Apfs` tries to
open that at some offset, and when the try fails `Dmg` takes it back.

Definitions commented "Slip" are no part of a specification: each is a plausible
mistake in the definition it stands before, kept so that every property can be shown
to notice one.

### Extract

| code | model |
|---|---|
| `entries`, `opts`, locals `idx`, `report`, `aborted`, `dir_mtimes` | `entries`, `opts`, `idx`, `done`/`failed`, `aborted`, `dirTimes` |
| the disk under `dest` | `fs`, a tree of `FileTree` nodes |
| what the callback was last told and what it answered | `event` |
| where in `extract_one` the call is | `pc`, `got` (writes so far) |
| `ar.verify_password()?` | `VerifyPassword` |
| the wrapper, `continue`s, `EntryStart` | `MakeWrapper`, `SkipEntry`, `StartEntry` |
| the three kinds of entry | `MakeDir`, `MakeLink`, `CreateFile` then `WriteChunk`/`ReadFails`/`ReadDone` |
| `write_resource_fork`, both variants | `StartFork`, `ReadFork`, `ForkFails`, `MacForkDone`, `ForkTooLong`, `WriteSidecar` |
| `Ok(())` / `Err(e)` of `extract_one` | `Succeed`, `Fail`, `Abort` |
| the loop over `dir_mtimes` | `EndLoop`, `ApplyDirTime` |

The environment decides what the reader delivers (`ReadFails`, `ForkFails`), what
the callback answers (`Flows`) and, with `DiskFaults`, whether the disk takes the
bytes. A body is its number of writes; a file is "written by entry i, whole or
not". `MacOS` says which of the two variants of `write_resource_fork` was built;
it is chosen in the initial state from `Platforms`. Paths that run through a link made by the same archive are left out
(`LinksAreLeaves`), and a fork belongs to a named file (`ForksAreNamed`); the
process is not root, and the system is Unix. `PlaceAssumption` says that the places of
the tree reach as far as the archives do (an entry, its parents, its sidecar, what its
link leads to), and `SoundTrees` that the tree a call finds is one a file system can
hold: what lies in a directory lies in one that exists, its files are whole and
none is an entry's yet.

### Lzip

`read` is one call over several steps: `Read(n)` begins it, `StartMember`,
`FeedPending`, `DecodeBody`, `AdvanceTrailer` and their refusals are the turns of
`read_member_loop`, and a step that sets `call` to 0 returns. `fill_at_least` is
`Filled`: the file answers with any number of units, with none only at its end,
or fails (`SourceFails`). A unit is a piece of header, body or trailer; a body
unit yields some bytes, and the decoder hands out any part of what it owes.

### Volumes, SplitZip

`Volumes` keeps the index, whether the volume is open and the position in it; the disk
may take a volume away and put it back between any two steps. `SplitZip` is the
joiner as three phases, the end record, the reading of the directory entry by entry,
and the writing of the joined file. A central record is a record of numbers with
its zip64 values as a sequence (`wide`), so that their order and their presence are
kept and their bytes are not. `Max16` and `Max32` are the sentinels.

### SevenZip

`at` and `class` are the library's walk, bodies first; `seen` counts equal names,
as `EntryKey` does; `got` is what has been written, each part with the file it came
from. One walk serves `open` (link targets), `verify_password` and `read_entry`,
told apart by `purpose`. A wrong password gives an error or garbage, at the
library's choice; the file may be taken away between two calls, never in the middle of one.

### Open

`calls` is the stack of function calls. A frame owns the temp files it will hand
on (`own`) and those it will drop (`scratch`); `Return` gives the first to the
reader and drops the second, `ReturnError` drops both: what the destructors do.
A content is what a handler can tell of it: its first bytes, its trailer, a
signature deep inside, whether it decodes, and what it contains. Any step may
fail to reach the disk (`IoFails`).

### Records: Cpio, WPress, Tar, Zip, Rar

All readers have the shape of `ArchiveReader`: `file` is what is opened (with what
its writer put in it, `members`, and what befell it, `damage`, which only properties
look at), `status` is where `open` is or what it answered, `listing` are the entries,
`answers` what the last `read_entry` of each gave and said. Entries are read in
any order and as often as one likes, and where the code holds a file open,
`Shrink` lets somebody else cut it short under the reader.

`RecordFiles` says what an archive is to the properties, one predicate for each format, of
the file alone and without the reader: `WrittenCpio` and `WrittenWPress` follow the chain
along the places where the writer put the records (`spots`, which no reader looks at), up to
where it ends whole, is cut or is spoiled; the others need only the members, whose
containers are the libraries' affair.

| code | model |
|---|---|
| `scan_newc_seekable`, `scan_odc_seekable` | `Record`, `MeetTrailer`, `BadRecord`; `scan.pos` is the code's `pos`, `scan.at` where its reader is after its relative seeks |
| `parse_hex`, `parse_octal`, `pad4`, `advance` | `Number`, `Pad4`, `Fits`, by what they do to a field of cells |
| cpio `read_entry`, `verify_checksum` | `ReadBody`, `SumHolds` |
| `spill_to_temp` | `SpillFails`, and a spilled stream that nobody can shorten |
| wpress `scan`, `parse_header`, `text_field`, `decimal_field`, `join_raw` | `Record`/`BadRecord`/`End`, `SoundBlock`, `Text`, `Decimal`, `Join` |
| tar `open`, `index_from_reader`, `read_entry` | `Open`/`Refuse`, `backing` = "file" or "buffer", `ReadBody` |
| zip `open_zip`, `verify_password`, `read_entry`, `decode_zip_lzma` | `Open`/`Refuse`, `Verdicts`, `ReadMember`, `DecodeLzma` |
| rar `open`, `read_entry`, `read_entry_via_extract`, `verify_password` | `Open`/`Refuse`, `Read` and `Found`, `LeftBehind`, `VerdictOf` |

A file keeps only the bytes that are not zero, so the models use the formats' own
header lengths where these matter to the code (cpio) and a constant where one is
as good as another (`BlockLen`). The libraries' part is small and marked external:
which members a tar or zip crate finds, whether a password is taken, what
libunrar says of a wrong one.

### Trees: Apfs, HfsPlus, Dmg, Xar, Wim, Iso

| code | model |
|---|---|
| apfs `open_apfs`, `mount_first_volume`, `walk_tree` | `Mount`, then `Enter`, `Visit`, `Leave` on a stack of frames: the recursion step by step, with `TooDeep` and `TooMany` |
| hfs+ `open_hfsplus`, `is_hfs_private`, `build_entries` | `Open`, `IsHfsPrivate`, `EntryOf` |
| dmg `read_koly`, tables, `build_raw_image`, `decode_chunk`, `adc_decode` | `Trailed`, `SoundList`, `Begin`/`WriteChunk`/`SkipChunk`/`BadChunk`, `DecodeChunk`, `AdcDecode` |
| dmg `locate_volume`, `sweep_for_volume` | `Candidates`, `Sweep`; `Locate`, `TryNext`, `NoVolume` |
| xar `exceeds_nesting_depth`, `collect`, `codec_from_style` | `ExceedsNestingDepth`, `TagEnd`, `Collect`/`Skip`/`RefuseStyle` over `walk`, the code's stack |
| wim `WimHeader::parse`, `parse_lookup_table`, `walk_children`, `decode_chunked_resource` | `SoundHeader`, `Bodies`, `Visit`/`Leave` and `Overflow` where the stack has no `Room`, `DecodeChunked` and `Panic` where it divides by 0 |
| iso `cd001_matches`, `walk_dir`, `catch_iso_panic` | `NoDescriptor`, `Visit`/`PassSelf`/`Leave`, `CannotRead` |

Positions, lengths, offsets and limits are the code's; what the libraries give (the
records of a directory, the mounting of a volume, the parsed XML) is part of `file`,
and so is whether they fail. In `Apfs`, `HfsPlus` and `Dmg` one byte of the image
stands for the signature and says, through `Volumes`, which volume is behind it: so
a signature can stand anywhere by chance, and an image can hold several.

## 3. Runs

| run | distinct states | question |
|---|---|---|
| `extract` | 201,236 | Whether forks become sidecars or go into the file, and with a disk that may fail: is the report complete, does finished work stay and unfinished work go, do times survive, is an abort final, is the promise kept? |
| `unfinished_fork` | violation | Does a fork that cannot be read leave nothing behind? |
| `dotted_root` | violation | Is an archive of `./` names kept under one name? |
| `lzip` | 5,571 | Does the reader deliver exactly the members, end only at the end, and end every call? |
| `lzip_checksum` | violation | Is a spoiled member noticed? |
| `volumes` | 9,426 | Are the volumes read without a gap, to the end, whatever disappears meanwhile? |
| `split_zip` | 17,467 | Does every entry point where it did before the split, or is the set refused? |
| `sevenzip` | 522,651 | Does every entry give its own bytes, whatever repeats and whatever is damaged? |
| `open` | 18,137 | Are temp files held by who uses them, does the right handler win, does every whole file open? |
| `shadowed_content` | violation | Does a known content ever lose against a mere extension? |
| `records` | 2,197 | Is a chain of members listed as it was written, read whole or with an error, and refused when it is cut; does verification keep its word? |
| `trees` | 2,588 | Is a tree listed as it is, through every layer it is packed in, never opened when it is damaged, and does opening end? |

### Bounds, and why they are enough

- **Extract.** Listings of up to two entries out of sixteen (files whole and
  read-only, directories with every mode, links inside and out, forks, a metadata
  file, a path that is refused, an empty path), and triples chosen for what only
  three can do: a directory before or between two claims on its contents, a link
  before two files at its place; and one listing of four, a directory, a file in it, a
  second claim on that file that fails and goes, and a link to the directory, which
  is what it takes for a link to stand where a file was meant to. Bodies of 0, 1 and 2 writes: none, a last one, one
  that is not the last. Trees: empty, the user's own files in the way under a
  read-only directory, a link left by an earlier call. Every hazard needs at most
  two entries that claim one place and one step that fails, a third only to change
  the directory they are in, and a fourth only for a link to take the place that a failure left. `ForkLimit = 1` stands for the 32-bit length of a
  sidecar, so that a fork of size 2 meets it.
- **Lzip.** Files of at most two members, whole, cut at every unit, spoiled at
  every part, followed by junk, with a decoder that stalls at once or after some output. The
  buffer holds 4 units, a header 2: so a header may arrive in pieces, the read-ahead may hold a whole trailer with the next
  member's first unit, and a body fills the buffer. Slices of 0 to 3.
- **Volumes.** Four volumes, one of them empty, and three removals or returns: one
  more than it takes to lose a volume, get it back and lose another. Slices of 1
  and 3: within a volume and beyond it.
- **SplitZip.** Six layouts of up to two entries, cut at one to three of five places;
  then a lost volume, a stray one, or one of nine damages. `Max16 = 60` and
  `Max32 = 180` are met exactly, passed, and passed only by the joining.
- **SevenZip.** Three files under at most two names, each of six kinds, one or none
  of them damaged, under no password, the right one or a wrong one: three is what it
  takes for a name to repeat on both sides of another class.
- **Records.** cpio: in each dialect an archive with a directory, a link, a node that is not
  listed and bodies of every length modulo four, so that both paddings take all their
  values; the same cut at every length that leaves another state, each header field
  spoiled, each body byte changed; and a stream. wpress: three records with every kind of prefix,
  every kind of end, cut at every length. tar: a file, a file without a name and a stream,
  cut in a header, in a body and between members. zip and rar: members under no,
  the right and another password, weak and vague locks, LZMA, damaged, and a
  name that repeats, under every password a caller may give. Each file may lose
  bytes once while it is open: after that a second loss is no other case.
- **Trees.** For each format one tree three directories deep, which with
  `MaxDepth = MaxIsoDepth = 2` is the deepest that is allowed, with one more directory,
  one more entry, or a directory inside itself as the cases beyond; a packed body, a private
  directory, a link, an empty directory. Disk images: every order of the three kinds
  of chunks, the volume at the start, after a partition table and behind a signature that stands
  there by chance, of the same and of the other kind; each table, list and
  chunk spoiled in turn. `SectorSize = 8` is longer than any match, so that a
  run copies from itself. Xar: the measuring of the nesting is met by quoted brackets,
  comments, CDATA, declarations, and a nesting just at the limit and one beyond.
  Wim: two chunks and a half, a chunk that did not shrink, equal hashes; `StackFrames = 3`
  stands for the thread's stack, and there are a tree just as deep, one a directory deeper, two that
  lead back into themselves (to the directory itself and to one above it), and chunks of
  size 0 where `open` meets them and where only `read_entry` does. Iso: a directory that leads back,
  and one under two names.
- **Open.** Every first-bytes value of the registry under every extension it knows, and
  every wrapper around what it may hold, whole and damaged, up to an envelope in a
  volume set around a self-extractor around a zip. Four temp files are the most that
  such nesting needs: with fewer `OpenEnds` would fail.

`CHECK_DEADLOCK FALSE` stands in the runs of the calls that end: a call that has
returned does nothing more, and an archive without entries has nothing to read.
`Lzip` never ends, a caller may always read.

### Fairness

Everything runs on the caller's thread, and a call in progress is never waiting for
another: weak fairness of the code's own steps (`WF_vars(Step)`) says that the
thread is scheduled and that reads and writes return. Nothing is assumed of the
callers (`Read`, `VerifyPassword`, `Close` are not in `Step`) nor of the
failures (`Move`, `TakeAway`, `IoFails`, `ReadFails`, `SourceFails`): a loop does not end because
the file may fail. `TreesSpec` has fairness of `TreesNext` as a
whole, which is enough: until `open` has answered, only its own steps are enabled.
In `Extract` one call is the whole
behaviour, so fairness is that of `Next`; the callback and the reader are taken to return.

### What the properties say

- **Extract.** `FailsCleanly`: a refused call leaves the tree untouched.
  `AllAccounted`: each wanted entry passed is in the report once. `FinishedStays`:
  what was counted stands whole where it belongs unless another entry claims its
  place. `UnfinishedIsRemoved`: what was not finished is gone; the
  exceptions are named (a directory that is not writable, a link, a sidecar on a
  full disk). `TimesSurvive`: a directory carries the time of the last of its directory
  entries although files were created in it since, and a whole file that of an entry
  that wrote it. `OneNewTop`: with the wrapper on a call adds one name at the top; excepted are
  dotted paths, a link that leads to another top, and a fork laid beside a top.
  `CleanIsExtracted`: of an archive without a conflict only what reader or disk could not
  deliver is reported, in whatever order it lists. `AbortIsFinal`, `EventOrder`: the callback's view.
  `KeepsPromise`: `Extract` implements `ExtractPromise`: entries are
  decided in order, each kept or reported, the call ends once, and only
  as it may; between entries without conflict "kept" is what stands on the disk.
- **Lzip.** `ReadsTheFile` is the refinement of `ByteStream`; `WellFormedIsRead`
  says that only reading the file can fail on a whole one; `CallsReturn`.
- **Volumes.** `NothingIsSkipped`, `EndIsTheEnd`, `ReadsReturn`.
- **SplitZip.** `ReadsAsUnsplit`: in a set as it was written every entry points to its
  header and the end record to the directory; `PointsIntoData`: in any set no
  entry points beyond the data; `MissingIsTold`; `RefusesOnlyForRoom`: a whole set is
  refused only when a number does not fit where it must stand.
- **SevenZip.** `OnlyOwnBytes`, `OkIsWhole`, `LinksHaveTargets`, `ReadableLinksStay`,
  `VerifyJudges`.
- **Open.** `TempsAreHeld`, `MostSpecific`, `AsOneEntry`, `OpenEnds`; `WholeOpens`: a file
  that is what it shows itself as, by bytes and name, opens unless the disk fails.
- **Records.** `ReadsAsWritten`: the listing of an archive nothing happened to is its
  members, in order, with paths, lengths and targets. `OkIsContent`: a read that says ok gave
  the member's own bytes, all of them, whoever shortened the file meanwhile; and a locked
  member never without its password. `CutIsTold`: what is cut inside a record or has a
  spoiled header does not open. `BodiesApart`: no two cpio bodies share a byte and none reaches
  past the end. `VerifyKeepsItsContract`: `verify_password` answers as `archive.rs` says,
  and after its ok no entry is refused for its password.
- **Trees.** `ListsTheTree`, `TreeOkIsContent` as above, through chunks, resources and
  volumes in volumes; `DamageIsTold`: what cannot be walked to its end never comes
  open; `ParentsFirst`: a directory is listed before what is in it; `OpenAnswers`: `open` ends with an
  answer, except that a wim whose directories are more, one in another, than the stack has room
  for (`DeeperThanStack`) may overflow it and one cut into chunks of size 0
  (`ChunksOfNothing`) may panic.

## 4. Where the code and its documents disagree

Each is a run whose property states what is written and which TLC violates;
`PROJECT.json` quotes the lines.

1. `extract.rs:387`: a macOS fork that cannot be read leaves an empty file with a partial
   fork; the changelog says unfinished files go on both ways out.
2. `extract.rs:120`: the first component of `./a` is `.`, so `tar c .` archives count as
   having one root and are never wrapped.
3. `decompress.rs:250`: the checksum of an lzip member is never compared; the comment
   leaves it to a decoder that is not given it.
4. `squashfs.rs:37` and others: an extension weighs as much as a magic, so a
   7z called `x.sfs` goes to squashfs and fails.

Met on the way, and without a run of their own:

- the answer to `EntryDone` is dropped (`extract.rs:228`); a second entry of the same
  name, cancelled half way, takes the first one with it (`extract.rs:317`, against the
  comment at 322; `FinishedStays` excepts it); on macOS the two forks of one file are
  two entries that date and unlock the same file, in either order;
- what is written through a link of the archive's own lands where the link leads, which may be
  a second name at the top in spite of the wrapper (`OneNewTop` excepts `ThroughLinks`);
- a read into an empty slice in the middle of a volume skips the rest of it
  (`volume.rs:64`); `io::copy` never makes one, and the run and the theorems leave it out;
- a damaged 7z body is called a wrong password (`sevenz.rs:448`, against `archive.rs:263`);
- a compressor suffix in capitals is not stripped (`detect.rs:422`), and a
  compressed file in volumes is named after the temp file (`detect.rs:664`);
- of two rar entries of one name the second reads the first one's bytes
  (`rar.rs:286`; `OkIsContent` excepts it by name, `Shadowed`), and a multi-volume read that
  fails may leave its temp file behind (`rar.rs:318`; `keeps.temps` counts them);
- a stored xar member of which the heap has lost something is copied as far as it goes and said
  to be ok (`xar.rs:540`; `TreeOkIsContent` excepts it by name, `LeftToTheHeap`);
- of two iso records that lead to one extent without a loop, only the first is entered and the
  other is listed as an empty directory (`iso.rs:196`);
- the walk over a wim has neither a limit on depth nor a set of what it has visited
  (`wim.rs:554`): directories that lead back into themselves overflow the stack, which ends the
  program; and a compressed resource with a chunk size of 0 divides by it (`wim.rs:223`), a panic.
  Both are in the model and in the images of the run, and `OpenAnswers` excepts them by name. No
  comment, document or test says otherwise of wim (the limits of apfs, xar and iso are each their own),
  so there is no claim for a run to violate.

## 5. Proofs

`tlapm` checks every module ending in `Proofs`. The theorems hold for every value of
the constants that meets the stated assumptions.

| theorem | says | rests on |
|---|---|---|
| `Extract`: `TypeCorrect`, `RefusalIsClean`, `NothingIsLost`, `StrictMeansAll`, `AbortStops`, `EventsInOrder` | `TypeOK`, `FailsCleanly`, `AllAccounted`, `StrictIsComplete` (not in a run: it follows from `AllAccounted`), `AbortIsFinal`, `EventOrder` | `IndInv` = `TypeOK`, `LoopInv`, `ReportInv`, `EventInv`, `TreeInv` |
| `Extract`: `UnfinishedGoes` | `UnfinishedIsRemoved` | `DiskInv` |
| `Extract`: `FinishedRemain` | `FinishedStays` | `StandInv` over `DiskInv` |
| `Extract`: `OneTopIsNew` | `OneNewTop` | `NameInv` |
| `Extract`: `CleanArchivesExtract` | `CleanIsExtracted` | `CleanInv` over `StandInv` |
| `Extract`: `PromiseIsKept` | the safety half of `KeepsPromise` (`Promise!Safe`): the refinement, step by step | `CleanStands` over `CleanInv` |
| `Extract`: `TimesRemain` | `TimesSurvive` | `TimesInv` = `StampInv`, `DirsStay`, `DatesInv` |
| `SevenZip`: `TypeCorrect`, `RightEntry`, `WholeOrError`, `LinksOwnTargets`, `LinksStay`, `VerdictIsRight` | `TypeOK` and all that the run `sevenzip` checks | `IndInv` = `TypeOK`, `WalkInv`, `OnlyOwnBytes`; then `WholeInv` = `AheadInv`, `AnswerInv`, `LinkInv` |
| `SplitZip`: `TypeCorrect`, `PointsInside`, `JoinedAsUnsplit` | `TypeOK`, `PointsIntoData`, `ReadsAsUnsplit` | `IndInv` = `TypeOK`, `PlaceInv`, `RecordsInv`; then `WholeInv` |
| `SplitZip`: `IncompleteIsTold`, `OnlyForRoom` | `MissingIsTold`, `RefusesOnlyForRoom` | `CountInv`; `RoomInv` over `WholeInv` |
| `Volumes`: `TypeCorrect`, `NoGap`, `EndMeansAll` | `TypeOK`, `NothingIsSkipped`, `EndIsTheEnd` | `IndInv` = `TypeOK`, `ListInv`, `NothingIsSkipped`, `StandsAfter`; then `EndInv` |
| `Open`: `TempsHeld` | `TempsAreHeld` | `IndInv` = `Owned`, `ReadInv`, `StatusInv` |
| `Open`: `SpecificWins`, `OneEntry` | `MostSpecific`, `AsOneEntry` | `FirstInv` over `IndInv`, and the table: `BothWins`, `DebWins` |
| `Open`: `IntactOpens` | `WholeOpens` | `WholeInv` = `Sane`, `WholeCalls` over `IndInv`, and the table: `WholeRoute` |
| `Cpio` (in `RecordsProofs`): `TypeCorrect`, `ReaderIsInStep` | `TypeOK`, `InStep` | `IndInv` = `TypeOK`, `InStep`, `Behind`, `BodiesApart` |
| `Records`: `RecordsReadAsWritten`, `RecordsGiveContent`, `RecordsTellCuts`, `BodiesLieApart`, `RecordsVerify` | all that the run `records` checks: `ReadsAsWritten`, `OkIsContent`, `CutIsTold`, `BodiesApart`, `VerifyKeepsItsContract` | `RecordsInv` = `CpioInv` (over `IndInv`), `WPressInv`, `TarInv`, `ZipInv` or `RarInv` |
| `Apfs`: `TypeCorrect`, `WalkStaysBounded`, `DirectoriesComeFirst` | `TypeOK`, `WalkIsBounded`, `ParentsFirst` | `IndInv` = `TypeOK`, `PrefixInv`, `ListedInv`, `DepthInv`, the two bounds, `ParentsFirst` |
| `Iso`: `IsoWalkNeverTurnsBack`, `IsoDirectoriesComeFirst` | `NeverInsideItself`, `ParentsFirst` | `IsoInd` = `IsoShape`, `IsoOnMap`, `IsoPrefixInv`, `NeverInsideItself`, `ParentsFirst` |
| `Trees`: `TreesListTheTree`, `TreesTellDamage`, `TreesGiveContent` | `ListsTheTree`, `DamageIsTold`, `TreeOkIsContent` | `TreesInv` = `VolInv` (`ApfsInv` over `IndInv`, or `HfsInv`), `Gone`, `DmgInv`, `XarInv`, `WimInv` or `IsoInv` (over `IsoInd`) |
| `Trees`: `TreesParentsFirst` | `ParentsFirst` | `TreesNested` (`XarNested`, `WimNested`) over `TreesInv` |

`TypeOK` is stated where it is proved; no run spends a property on one.
Why the invariants are what they are:

- **Extract.** The report is complete only relative to the loop: `ReportInv` says that
  decided entries are exactly the wanted ones below `idx`, and `LoopInv` that an
  entry in progress is wanted and that a call which got to the end passed them
  all. `AbortIsFinal` and `EventOrder` are step properties, and need to know that the
  last event is of the entry in progress (`EventInv`). `TreeInv` keeps the tree
  as it was until the loop begins.
  What is said of the disk rests on descriptions of a step, each shown once of every file
  system call and then used by all invariants: which names may come and go (`Moves`),
  which nodes change hands (`Sound`), what a step does that fails nowhere (`Smooth`), whose
  time it sets (`Timed`). `DiskInv` says of every node who made it and how far it got, so a
  file that is not whole is one in progress or one of the exceptions. `FinishedStays` is not
  inductive: it speaks of entries that disturb, while a step is taken by one that may or
  may not get that far; `StandInv` says which steps undo what (`Undoes`) and which of the
  entries passed could have (`Passed`). `CleanInv` carries the absence of every obstacle
  (`LeavesInv`: nothing but directories lies above a place still to be taken), and `CleanStands`
  that each entry counted still stands, which is what the refinement maps to "kept".
  `StampInv`: the time of a whole file is that of one of its entries, the last that
  wrote it. `DatesInv`: until the loop ends every directory to be dated is pending, and the
  pending list is worked off in increasing order, so that the last one set is the last entry's.
- **SevenZip.** While it seeks, the walk has counted exactly the files like the wanted
  one that it has passed; two files like it have different counts, so the one
  at which the count is right is the wanted one (`WantedIsFound`). `AheadInv` is the other
  half: until it is found the entry is still ahead, in this class or the next, so no
  walk ends without it (`NeverMissed`). `EndsHow` collects the five ways a walk may end and what
  each allows to be answered; links and verification follow from it.
- **SplitZip.** `RecordsInv` carries the room for a local header before the
  directory from record to record; `WholeInv` says of a set as it was written that the
  start of each volume is the sum of the lengths before it, that the
  directory's place in the joined file is that in the unsplit one, and that a rebuilt
  record names the place it was written for. The lemma that reading a rebuilt record gives
  back the place written to it is `RebuiltFinds`.
  `CountInv` says which of the two numbers of volumes stops a set that is not complete, and
  where. `RoomInv` keeps the loop at each record where the writer put it, so that on an intact
  set each comparison of `join_split_zip` is one of equal numbers; `NoMoreRoom` shows that a
  rebuilt record is longer than it was only if its place needs a zip64 value.
- **Volumes.** `NothingIsSkipped` chains what was delivered; `StandsAfter` says that the
  reader's place is where the chain ends, across empty volumes. `EndInv` adds that what the
  reader has passed was given to its last byte, which `StandsAfter` shows whenever a
  volume is dropped.
- **Open.** `Owned` gives each temp file on disk one owner, a call in progress or the
  reader being handed on, and every call a file that a call below it owns: what
  makes a drop harmless to everyone else. `ReadInv` ties what a handed-on reader reads to
  what it holds or the call above it opened. Three lemmas without state (the top of the stack
  changes, calls another, returns) carry `Owned` through every action.
  `FirstInv` follows the one call on the user's file from the openers to the handler
  that `Route` chooses: `Asked` says what that handler must have seen in the file once it is past
  its first step, `Unpacked` where a compressed stream is kept and who reads it, `Waits` that
  a call with another above it has called it, so that nothing above can change what it is.
  Which handler is chosen is a lemma about the table alone: a row that needs content and name
  and has both is the first that is certain (`BothWins`).
  `WholeInv` says that a call below which no envelope stands was made on something its handler can
  open (`Made`), and that what a handler has just written is what the next one takes
  (`Ready`); an envelope may call anything, as it shows itself when that fails. `WholeRoute`
  brings a whole file to a handler of what it is: a guess weighs 50 and a magic 100, so no
  name shadows bytes that tell what the file is (`SelectedIsClaimed`).
- **Cpio.** The walk counts a position and its reader makes relative seeks, along another path for
  links: `InStep` says that they agree, which takes the arithmetic of both paddings.
  `Behind` says that all bodies so far end before the record at hand; with it each new body lies
  behind all others.
- **Records.** Each reader has an invariant that ties it to the file as it was written, and the
  formats exclude each other, so their disjunction is inductive. `CpioInv` keeps the walk at a
  spot (`AtSpot`), with the members before that spot listed faithfully, or past the last of a damaged
  archive, where nothing is any more and it can only refuse (`Lost`). The writer pads every
  position, the code the name and the body each by its own length: `AlignsAlike` is that this
  comes to the same. On a whole archive every record passes (`WholePasses`), so that a refusal tells
  of damage. `WPressInv` is the same for a chain, where `NextBlock` and `LastBlock` say that the walk
  takes no block for the end and the end for no block. `TarInv` has to outlast a file that
  shrinks: the buffer has the old length, and of the file a shorter read is told. For zip and rar
  `AnswerFits` and `VerdictFits` say what a lock makes of an answer and of a verdict; the
  contract follows from them alone (`ContractHolds`), and rar adds that what is found under
  a name is the first member of that name (`FirstNamed`).
- **Apfs, Iso.** `PrefixInv`: every directory on the stack but the root is listed, so what is below
  it comes after it. `DepthInv` keeps the frame that is beyond the limit from being entered; for
  iso every extent on the stack is in `visited`, which keeps it from being entered twice.
- **Trees.** Readers of two kinds meet one notion of a tree. `TreeFiles` counts it: of each node,
  how many members come before each record below it. A walk is then a chain of nodes with the
  record that is next in each, and `On` says that the count at that record is the number of members
  listed; three lemmas without state (`GoesPast`, `Descends`, `Leaves`) carry it through every
  step of every walk, whether the code keeps frames (apfs, wim, iso) or a list of work (xar, where
  `Queued` says of each node on the list which members it will become). `ListsTheTree` follows
  when the chain is empty. Of a file that cannot be walked the invariants say that the walk is
  not past the place where it must fail (`ApfsLost`, `XarLost`, `WimLost`, `IsoLost`): that place is
  ahead of some frame until it is reached, so no such walk comes to its end. A fault of a wim has
  its depth beside it (`Onward`), so that a frame below which the stack ends is such a place too
  (`OnTheWay`, `WimOverflows`), as it is for every wim that leads back into itself; of a whole one
  the path of a frame is no longer than the stack (`WimPathLen`). What an iso walk has entered
  is which directories it has met (`Met`), so a directory met twice has its records listed once.
  A disk image passes through three invariants. While chunks are written, `Agrees` says that the raw
  image is the one that was packed, but for the parts of the chunks to come, in whatever order they
  are, and that a chunk that cannot be decoded is still to come. Then `CandidatesAre`: whatever place
  the volume begins at, its mark is there, so it is among those tried; and `Hopes`, which every try
  that fails keeps for the tries left, says that one of them opens and no other does, or that none
  does. That a raw image has no volume (`Gone`) is reached from a damaged image only.
  That a directory comes before what is in it needs its own part for xar and wim (`TreesNested`):
  each node on the list of work, each frame of a walk, is the root or lies at the path of a
  directory that is listed (`Inside`), so what is listed next is in its place (`Placed`); apfs and iso
  have `ParentsFirst` in `IndInv` and `IsoInd`, and for HFS+ it is the order in which the crate walks.

Assumptions: the named `ASSUME`s of the modules, which TLC evaluates on every run.
`VolumesProofs` assumes in its theorems that no caller reads into an empty slice (see
section 4), and the theorems about `Iso` that `IsoAssumption` holds, which `TreesAssumption`
has TLC evaluate.

`WrittenAssumption` says of the archives of `Records` that a writer made them and what may have
befallen them since (section 2); it leaves open how many members there are, of what
names and lengths, in which dialect, and where a cut or a spoiled header is. The path and the
length of a wpress member are what `parse_header` reads in its block, and so are the path and the
lengths of a cpio member what the header's fields denote: that these readings are those the
writer meant is compared in the run.

`TreesAssumption` does the same for the files of `Trees`, by fields that no reader looks at:
`members`, `cuts`, `damage`, for a broken tree the way to what cannot be walked (`fault`), for a disk
image the raw image that was packed and the place of its volume. It leaves open how large and how
deep a tree is, how bodies are stored and where they lie, how a disk image is cut into
chunks and in what order they come, where in it a volume begins and where else a signature stands.
That a file is damaged means that one of the conditions under which its reader opens does not
hold, or that the way to a fault is there. A whole wim fits the stack (`StackFrames`, of
which nothing is assumed but that it is not 0). Only directories have something below them: the readers of
xar and wim would list what is below a file as they list what is below a directory. The crate of HFS+ is
taken to come by a directory before its contents (`HfsDescends`). What the decoders (`DecodeChunk`, `DecodeOneChunk`,
`Unpack`) and `ExceedsNestingDepth` compute of their input is taken as they compute it: the assumption says
that a writer's chunk decodes to the part of the image it stands for, and TLC
evaluates that for every chunk of every file of the run.

In `Open` nothing is assumed of the files but the form of their names. That a file is whole is
said in the property (`IsWhole`): whatever it gives itself out for, by its bytes or by its name (`Shown`),
it is what a writer of that format leaves (`Made`). TLC evaluates that the files which the
run `open` builds as intact ones are whole in this sense (`WholeAssumption` of `MCOpen`).

In `SplitZip` `IntactAssumption` is what a writer of split archives leaves (`WrittenVolumes`,
`WrittenDirectory`, `WrittenRecords`), `CountAssumption` that the last volume of an incomplete set is
as it was written.

Three statements turned out false when they were to be proved, and TLC then found the case.
`TimesSurvive` used to let a directory's time be that of any entry of its place, and a
file's that of its own entry only: a link that takes the place of a file which a second
claim had removed breaks it, with four entries; so the listing of four is in the run now.
`OneNewTop` used to have no exception for links. And `SpecificWins` could not be proved of an
`OpenWarc` that asked only what is in the file: the name alone makes the handler decompress it,
and so a deb named `.warc.gz` is refused; the model does that now and the run has the file.

**Only model-checked.** Of `Extract` the fairness of `KeepsPromise` (that the call ends); everything about `Lzip`;
of `Open`
`OpenEnds`; of `Trees` `OpenAnswers`. Liveness and
`ENABLED` are out of the prover's reach, and so is induction over data: what `Number`,
`Sum`, `AdcDecode` or `ExceedsNestingDepth` compute is compared with the writers' layouts in the runs only.
They are recursive functions: about a module that declares a recursive operator nothing can be proved.

## 6. What is left out

- Libraries: the containers and codecs of zip, rar, tar, cab, 7z and the rest;
  `FileTree` and the operators marked external say what the crate relies on.
- Windows: names, attributes and the split at a backslash.
- Racing writers: the archive does not change while it is read, except that volumes
  and the 7z file may disappear.
- In `SplitZip` malformed or repeated zip64 extras and sums beyond 64 bits; in
  `SevenZip` the decoding of names and a file that is replaced by another archive; in
  `Open` the magics of different formats are disjoint, an extension is the last one,
  the read probes for a disk image trailer and an ISO signature do not fail, and
  a self-extractor whose stub does not parse is not told from one without an archive.
- In `Records` dates, owners, modes and device numbers; header fields that only they use are one
  flag (`plain`) in `Cpio`. The members a library finds in a damaged container. In `Rar` a set of volumes
  of which one is lost: libunrar answers for it.
- In `Trees` the property list and the XML as text (except for the nesting), base64, UTF-16
  names, joliet and rock ridge, which the libraries decode.

**Not modelled.** `ar.rs` and `cab.rs` copy a library's table of members and walk to the
wanted one; between those calls the code holds no state and decides nothing that `Tar` does not
show. `squashfs.rs` copies a flat list of full paths that the library gives, without a walk,
a limit or a position. The adapters in `format/legacy` copy a backend's listing and pass
a read on; their probes are in `Registry`, the envelopes and the installer in `Open`. The directories
of an msi and the names of warc records are decided in one pass that keeps nothing (which
readers and temp files they open is in `Open`). `datetime.rs` is arithmetic without state, whose
tests compare it with known instants; `encoding.rs` is a call to a detector; `error.rs`
and `lib.rs` hold types. Of `decompress.rs` the decoders other than lzip are streams of their libraries.
