------------------------------ MODULE Extract ------------------------------
(***************************************************************************)
(* extract_all and extract_one of extract.rs: one call of the engine, from *)
(* the password pre-flight to the directory times, over any archive reader *)
(* and any file system.                                                    *)
(*                                                                         *)
(* One action is one stretch of the code between two things the outside    *)
(* decides: whether the reader delivers, what the progress callback        *)
(* answers, whether the disk takes the bytes.  The environment chooses     *)
(* those; everything else is the code's.                                   *)
(***************************************************************************)
EXTENDS FileTree, FiniteSets

CONSTANTS
  Path,       \* the places under the destination
  Archives,   \* the listings: sequences of entries, as entries() returns them
  Options,    \* the ExtractOptions
  Trees,      \* what may lie under the destination before the call
  Wrapper,    \* the name wrapper_name() computed
  Outside,    \* a link target safe_symlink_target refuses
  Platforms,  \* the builds: TRUE: forks go into the file (macOS), FALSE: into
              \* an AppleDouble file beside it
  ForkLimit,  \* the longest fork an AppleDouble file can hold, in chunks
  DiskFaults  \* TRUE: fs::write may stop half way

Modes == {"none", "rw", "ro"}
EntryKinds == {"file", "dir", "link"}

\* archive::Entry; size is the number of writes read_entry makes, dated says
\* whether modified is Some, to is a link's target counted from the destination.
EntryRecord ==
  [path : Seq(STRING), kind : EntryKinds, fork : BOOLEAN, size : Nat,
   mode : Modes, dated : BOOLEAN, to : Path \cup {Outside}]

Node == [kind : Kinds, src : Nat, full : BOOLEAN, fork : Nat,
         forkFull : BOOLEAN, writable : BOOLEAN, stamp : Nat, to : Path]

OptionRecord ==
  [strict : BOOLEAN, preserve : BOOLEAN, selection : SUBSET Nat,
   wrapper : BOOLEAN, progress : BOOLEAN, keepMac : BOOLEAN]

ASSUME PathAssumption == /\ <<>> \in Path
                         /\ Path \subseteq Seq(STRING)
                         /\ Outside \notin Path
ASSUME ArchiveAssumption == Archives \subseteq Seq(EntryRecord)
\* The file system model does not walk through links, and a fork belongs to a name.
ASSUME LinksAreLeaves ==
  \A es \in Archives : \A i, j \in DOMAIN es :
    es[i].kind = "link" /\ i # j =>
      Normal(es[i].path) \notin WithAncestors(Parent(Normal(es[j].path)))
ASSUME ForksAreNamed ==
  \A es \in Archives : \A i \in DOMAIN es : es[i].fork => Normal(es[i].path) # <<>>
ASSUME LinkAssumption ==
  \A es \in Archives : \A i \in DOMAIN es :
    es[i].to \in Path => <<Wrapper>> \o es[i].to \in Path
ASSUME OptionAssumption == Options \subseteq OptionRecord
ASSUME TreeAssumption == Trees \subseteq [Path -> Node]
\* The places reach as far as the archives do, and a directory of one is one.
ASSUME PlaceAssumption ==
  /\ <<Wrapper>> \in Path
  /\ \A p \in Path : WithAncestors(p) \subseteq Path
  /\ \A es \in Archives : \A i \in DOMAIN es :
       LET places == {Normal(es[i].path), <<Wrapper>> \o Normal(es[i].path)}
       IN ~Escapes(es[i].path) =>
            /\ places \subseteq Path
            /\ es[i].fork => \A p \in places : SidecarPath(p) \in Path
\* A tree as a file system has it: names stand in directories, and what was
\* there before the call is whole and no entry's.
ASSUME SoundTrees ==
  \A t \in Trees :
    /\ t[<<>>].kind = "dir"
    /\ \A p \in Path :
         /\ t[p].full /\ t[p].forkFull /\ t[p].src = 0 /\ t[p].fork = 0
         /\ t[p].kind = "none" => t[p] = Absent
         /\ p # <<>> /\ t[p].kind # "none" => t[Parent(p)].kind = "dir"
ASSUME FlagAssumption == /\ Platforms \subseteq BOOLEAN
                         /\ DiskFaults \in BOOLEAN
                         /\ ForkLimit \in Nat

VARIABLES
  job,       \* the call: its archive, its options, the tree it found, the build
  pc,        \* where extract_all stands
  idx,       \* the loop's entry
  got,       \* chunks of that entry delivered by read_entry
  fs,        \* the tree under the destination
  done,      \* indices counted in report.extracted
  failed,    \* report.failed: [index, why]
  aborted,   \* report.aborted
  dirTimes,  \* dir_mtimes, as entry indices; at the end those still to apply
  event,     \* the last progress event and the callback's answer to it
  result     \* "none" until extract_all returns "ok" or "err"

vars == <<job, pc, idx, got, fs, done, failed, aborted, dirTimes, event, result>>

entries == job.entries
opts == job.opts
MacOS == job.mac
entry == entries[idx]

Index == 1..Len(entries)

NoEvent == [type |-> "none", index |-> 0, flow |-> "continue"]
Flows == {"continue", "abort"}

\* The two `continue`s of the loop, and the subset the wrapper is computed on.
Wanted(i) ==
  /\ i \in opts.selection
  /\ opts.keepMac \/ ~IsMacosMetadata(entries[i].path)

Subset == {i \in Index : Wanted(i)}

Wrapped == opts.wrapper /\ ~HasCommonRoot(entries, Subset)

Dest == IF Wrapped THEN <<Wrapper>> ELSE <<>>

Target(i) == SafeJoin(Dest, entries[i].path)

Init ==
  /\ job \in [entries : Archives, opts : Options, tree : Trees, mac : Platforms]
  /\ pc = "preflight"
  /\ idx = 1
  /\ got = 0
  /\ fs = job.tree
  /\ done = {}
  /\ failed = {}
  /\ aborted = FALSE
  /\ dirTimes = <<>>
  /\ event = NoEvent
  /\ result = "none"

----------------------------------------------------------------------------
\* The ways an entry, and the call, can end.

Return(r) == pc' = "returned" /\ result' = r

NextEntry == pc' = "entry" /\ idx' = idx + 1

\* Ok(()) of extract_one: counted, then EntryDone, whose answer is dropped.
Succeed ==
  /\ done' = done \cup {idx}
  /\ NextEntry
  /\ IF opts.progress
     THEN \E flow \in Flows :
            event' = [type |-> "done", index |-> idx, flow |-> flow]
     ELSE UNCHANGED event
  /\ UNCHANGED <<failed, aborted, result>>

\* Slips in handling Err(e): a refused path is passed over in silence;
\* EntryDone is sent all the same; an io error ends every call.
FailSilently(why) ==
  /\ IF opts.strict
     THEN Return("err") /\ UNCHANGED <<idx, failed>>
     ELSE /\ failed' = IF why = "path" THEN failed
                       ELSE failed \cup {[index |-> idx, why |-> why]}
          /\ NextEntry
          /\ UNCHANGED result
  /\ UNCHANGED <<done, aborted, event>>

FailAnnounced(why) ==
  /\ IF opts.strict
     THEN Return("err") /\ UNCHANGED <<idx, failed>>
     ELSE /\ failed' = failed \cup {[index |-> idx, why |-> why]}
          /\ NextEntry
          /\ UNCHANGED result
  /\ event' = IF opts.progress
              THEN [type |-> "done", index |-> idx, flow |-> "continue"]
              ELSE event
  /\ UNCHANGED <<done, aborted>>

FailAtOnce(why) ==
  /\ IF opts.strict \/ why = "io"
     THEN Return("err") /\ UNCHANGED <<idx, failed>>
     ELSE /\ failed' = failed \cup {[index |-> idx, why |-> why]}
          /\ NextEntry
          /\ UNCHANGED result
  /\ UNCHANGED <<done, aborted, event>>

\* Err(e) of extract_one: returned when strict, reported otherwise.
Fail(why) ==
  /\ IF opts.strict
     THEN Return("err") /\ UNCHANGED <<idx, failed>>
     ELSE /\ failed' = failed \cup {[index |-> idx, why |-> why]}
          /\ NextEntry
          /\ UNCHANGED result
  /\ UNCHANGED <<done, aborted, event>>

\* Slip: the flag is set but the loop goes on.
AbortAndContinue ==
  /\ aborted' = TRUE
  /\ NextEntry
  /\ UNCHANGED <<done, failed, result>>

\* break: the rest of the entries is given up, the report is still Ok.
Abort ==
  /\ aborted' = TRUE
  /\ pc' = "stamp"
  /\ UNCHANGED <<idx, done, failed, result>>

----------------------------------------------------------------------------
\* extract_all up to the loop.

\* Slip: the wrapper is there before the password is known to be right.
VerifyLate ==
  /\ pc = "preflight"
  /\ fs' = IF Wrapped /\ CanMakeDirs(fs, Dest) THEN MakeDirs(fs, Dest) ELSE fs
  /\ \/ pc' = "wrap" /\ UNCHANGED result
     \/ Return("err")
  /\ UNCHANGED <<job, idx, got, done, failed, aborted, dirTimes, event>>

VerifyPassword ==
  /\ pc = "preflight"
  /\ \/ pc' = "wrap" /\ UNCHANGED result
     \/ Return("err")
  /\ UNCHANGED <<job, idx, got, fs, done, failed, aborted, dirTimes, event>>

MakeWrapper ==
  /\ pc = "wrap"
  /\ IF ~Wrapped
     THEN pc' = "entry" /\ UNCHANGED <<fs, result>>
     ELSE IF CanMakeDirs(fs, Dest)
          THEN pc' = "entry" /\ fs' = MakeDirs(fs, Dest) /\ UNCHANGED result
          ELSE Return("err") /\ UNCHANGED fs
  /\ UNCHANGED <<job, idx, got, done, failed, aborted, dirTimes, event>>

\* The head of the loop: an entry left out, or announced and maybe stopped at.
SkipEntry ==
  /\ pc = "entry" /\ idx \in Index
  /\ ~Wanted(idx)
  /\ NextEntry
  /\ UNCHANGED <<job, got, fs, done, failed, aborted, dirTimes, event, result>>

StartEntry ==
  /\ pc = "entry" /\ idx \in Index
  /\ Wanted(idx)
  /\ got' = 0
  /\ \E flow \in IF opts.progress THEN Flows ELSE {"continue"} :
       /\ event' = IF opts.progress
                   THEN [type |-> "start", index |-> idx, flow |-> flow]
                   ELSE event
       /\ IF flow = "abort"
          THEN Abort
          ELSE pc' = "work" /\ UNCHANGED <<idx, done, failed, aborted, result>>
  /\ UNCHANGED <<job, fs, dirTimes>>

EndLoop ==
  /\ pc = "entry" /\ idx \notin Index
  /\ pc' = "stamp"
  /\ UNCHANGED <<job, idx, got, fs, done, failed, aborted, dirTimes, event, result>>

----------------------------------------------------------------------------
\* extract_one, by the entry's kind.

Place == Target(idx)
\* Slip: the archive is trusted to list a directory before what is in it.
ParentTaken == fs

WithParent == MakeDirs(fs, Parent(Place))
ParentFails == ~CanMakeDirs(fs, Parent(Place))

RefusePath ==
  /\ pc = "work"
  /\ Escapes(entry.path)
  /\ Fail("path")
  /\ UNCHANGED <<job, got, fs, dirTimes>>

\* What extract_one is about to do, once safe_join has let the path through.
Working(what) ==
  /\ pc = "work"
  /\ ~Escapes(entry.path)
  /\ what = IF entry.fork THEN "fork" ELSE entry.kind

SetMode(t, p, m) ==
  IF opts.preserve /\ m # "none" THEN SetWritable(t, p, m = "rw") ELSE t

SetTime(t, p, i) ==
  IF opts.preserve /\ entries[i].dated THEN SetStamp(t, p, i) ELSE t

\* Slip: a directory that is there already is started afresh.
MakeDirAfresh ==
  /\ Working("dir")
  /\ IF CanMakeDirs(fs, Place)
     THEN /\ fs' = [p \in DOMAIN fs |->
                      IF p # Place /\ Place \in WithAncestors(p) /\ Place # <<>>
                      THEN Absent
                      ELSE SetMode(MakeDirs(fs, Place), Place, entry.mode)[p]]
          /\ dirTimes' = Append(dirTimes, idx)
          /\ Succeed
     ELSE Fail("io") /\ UNCHANGED <<fs, dirTimes>>
  /\ UNCHANGED <<job, got>>

MakeDir ==
  /\ Working("dir")
  /\ IF CanMakeDirs(fs, Place)
     THEN /\ fs' = SetMode(MakeDirs(fs, Place), Place, entry.mode)
          /\ dirTimes' = Append(dirTimes, idx)
          /\ Succeed
     ELSE Fail("io") /\ UNCHANGED <<fs, dirTimes>>
  /\ UNCHANGED <<job, got>>

MakeLink ==
  /\ Working("link")
  /\ \/ entry.to = Outside /\ Fail("link") /\ UNCHANGED fs
     \/ entry.to # Outside /\ ParentFails /\ Fail("io") /\ UNCHANGED fs
     \/ /\ entry.to # Outside /\ ~ParentFails
        /\ IF CanLink(WithParent, Place)
           THEN /\ fs' = LET t == Link(WithParent, Place, idx, Dest \o entry.to)
                         IN IF opts.preserve /\ entry.dated
                            THEN [t EXCEPT ![Place].stamp = idx] ELSE t
                /\ Succeed
           ELSE fs' = WithParent /\ Fail("io")
  /\ UNCHANGED <<job, got, dirTimes>>

CreateFile ==
  /\ Working("file")
  /\ \/ ParentFails /\ Fail("io") /\ UNCHANGED fs
     \/ /\ ~ParentFails
        /\ IF CanCreate(WithParent, Place)
           THEN /\ fs' = Create(WithParent, Place, idx)
                /\ pc' = "reading"
                /\ UNCHANGED <<idx, done, failed, aborted, event, result>>
           ELSE fs' = WithParent /\ Fail("io")
  /\ UNCHANGED <<job, got, dirTimes>>

\* Slip: the unfinished file is left behind.
FailAndLeave ==
  /\ pc = "reading"
  /\ Fail("reader")
  /\ UNCHANGED <<job, got, fs, dirTimes>>

\* ProgressWriter::write, or the bare file when there is no callback: the chunk
\* is in the file before the callback is asked; Abort makes it an error, and
\* extract_one removes the file and extract_all leaves the loop.
WriteChunk ==
  /\ pc = "reading" /\ got < entry.size
  /\ got' = got + 1
  /\ \E flow \in IF opts.progress THEN Flows ELSE {"continue"} :
       /\ event' = IF opts.progress
                   THEN [type |-> "bytes", index |-> idx, flow |-> flow]
                   ELSE event
       /\ IF flow = "abort"
          THEN Abort /\ fs' = RemoveFile(fs, Place)
          ELSE /\ fs' = Touch(fs, Resolve(fs, Place))
               /\ UNCHANGED <<pc, idx, done, failed, aborted, result>>
  /\ UNCHANGED <<job, dirTimes>>

\* read_entry fails, in the reader or in the write: the file goes too.
ReadFails ==
  /\ pc = "reading"
  /\ fs' = RemoveFile(fs, Place)
  /\ Fail("reader")
  /\ UNCHANGED <<job, got, dirTimes>>

ReadDone ==
  /\ pc = "reading" /\ got = entry.size
  /\ fs' = LET whole == [fs EXCEPT ![Resolve(fs, Place)].full = TRUE]
           IN SetTime(SetMode(whole, Place, entry.mode), Place, idx)
  /\ Succeed
  /\ UNCHANGED <<job, got, dirTimes>>

----------------------------------------------------------------------------
\* write_resource_fork.

\* On macOS the base file is made, empty, when there is none.
MacBase(t) ==
  IF Exists(t, Place) THEN t
  ELSE [Create(t, Place, 0) EXCEPT ![Resolve(t, Place)].full = TRUE]

MacBaseFails(t) == ~Exists(t, Place) /\ ~CanCreate(t, Place)

\* The fork opens in a regular file that may be written to.
CanOpenFork(t) ==
  LET n == t[Resolve(t, Place)] IN n.kind = "file" /\ n.writable

OpenFork(t) ==
  LET r == Resolve(t, Place)
  IN [t EXCEPT ![r].fork = idx, ![r].forkFull = FALSE, ![r].stamp = 0]

StartFork ==
  /\ Working("fork")
  /\ \/ ParentFails /\ Fail("io") /\ UNCHANGED fs
     \/ /\ ~ParentFails /\ ~MacOS
        /\ fs' = WithParent
        /\ pc' = "forking"
        /\ UNCHANGED <<idx, done, failed, aborted, event, result>>
     \/ /\ ~ParentFails /\ MacOS
        /\ IF MacBaseFails(WithParent)
           THEN fs' = WithParent /\ Fail("io")
           ELSE IF ~CanOpenFork(MacBase(WithParent))
           THEN fs' = MacBase(WithParent) /\ Fail("io")
           ELSE /\ fs' = OpenFork(MacBase(WithParent))
                /\ pc' = "forking"
                /\ UNCHANGED <<idx, done, failed, aborted, event, result>>
  /\ UNCHANGED <<job, got, dirTimes>>

ReadFork ==
  /\ pc = "forking" /\ got < entry.size
  /\ got' = got + 1
  /\ UNCHANGED <<job, pc, idx, fs, done, failed, aborted, dirTimes, event, result>>

\* read_entry(..)?: nothing of the fork is taken back.
ForkFails ==
  /\ pc = "forking"
  /\ Fail("reader")
  /\ UNCHANGED <<job, got, fs, dirTimes>>

MacForkDone ==
  /\ MacOS
  /\ pc = "forking" /\ got = entry.size
  /\ fs' = SetTime([fs EXCEPT ![Resolve(fs, Place)].forkFull = TRUE], Place, idx)
  /\ Succeed
  /\ UNCHANGED <<job, got, dirTimes>>

\* u32::try_from(fork.len())
ForkTooLong ==
  /\ ~MacOS
  /\ pc = "forking" /\ got = entry.size
  /\ got > ForkLimit
  /\ Fail("unsupported")
  /\ UNCHANGED <<job, got, fs, dirTimes>>

\* std::fs::write(sidecar): create, then write; a full disk stops it half way.
WriteSidecar ==
  /\ ~MacOS
  /\ pc = "forking" /\ got = entry.size
  /\ got <= ForkLimit
  /\ LET side == SidecarPath(Place)
         begun == Create(fs, side, idx)
         whole == [begun EXCEPT ![Resolve(fs, side)].full = TRUE]
     IN \/ ~CanCreate(fs, side) /\ Fail("io") /\ UNCHANGED fs
        \/ DiskFaults /\ CanCreate(fs, side) /\ fs' = begun /\ Fail("io")
        \/ CanCreate(fs, side) /\ fs' = SetTime(whole, side, idx) /\ Succeed
  /\ UNCHANGED <<job, got, dirTimes>>

----------------------------------------------------------------------------
\* After the loop, broken off or not.

\* Slip: a cancelled call returns without the directory times.
StampUnlessAborted ==
  /\ pc = "stamp"
  /\ IF aborted \/ dirTimes = <<>>
     THEN Return("ok") /\ UNCHANGED <<fs, dirTimes>>
     ELSE /\ fs' = SetTime(fs, Target(Head(dirTimes)), Head(dirTimes))
          /\ dirTimes' = Tail(dirTimes)
          /\ UNCHANGED <<pc, result>>
  /\ UNCHANGED <<job, idx, got, done, failed, aborted, event>>

\* apply_mtime over dir_mtimes, in the order the entries were taken.
ApplyDirTime ==
  /\ pc = "stamp"
  /\ IF dirTimes = <<>>
     THEN Return("ok") /\ UNCHANGED <<fs, dirTimes>>
     ELSE /\ fs' = SetTime(fs, Target(Head(dirTimes)), Head(dirTimes))
          /\ dirTimes' = Tail(dirTimes)
          /\ UNCHANGED <<pc, result>>
  /\ UNCHANGED <<job, idx, got, done, failed, aborted, event>>

Next ==
  \/ VerifyPassword \/ MakeWrapper
  \/ SkipEntry \/ StartEntry \/ EndLoop
  \/ RefusePath \/ MakeDir \/ MakeLink
  \/ CreateFile \/ WriteChunk \/ ReadFails \/ ReadDone
  \/ StartFork \/ ReadFork \/ ForkFails \/ MacForkDone
  \/ ForkTooLong \/ WriteSidecar
  \/ ApplyDirTime

Spec == Init /\ [][Next]_vars

\* The engine is one call that never waits for anything but its own steps.
FairSpec == Spec /\ WF_vars(Next)

----------------------------------------------------------------------------
(***************************************************************************)
(* Properties.                                                             *)
(***************************************************************************)

TypeOK ==
  /\ job \in [entries : Archives, opts : Options, tree : Trees, mac : Platforms]
  /\ pc \in {"preflight", "wrap", "entry", "work", "reading", "forking",
             "stamp", "returned"}
  /\ idx \in 1..Len(entries) + 1
  /\ got \in Nat
  /\ fs \in [Path -> Node]
  /\ done \subseteq Index
  /\ failed \subseteq
       [index : Index, why : {"path", "link", "io", "reader", "unsupported"}]
  /\ aborted \in BOOLEAN
  /\ dirTimes \in Seq(Index)
  /\ event \in [type : {"none", "start", "bytes", "done"}, index : Nat, flow : Flows]
  /\ result \in {"none", "ok", "err"}

\* The password is checked before any file is created: a call that returns an
\* error without having announced an entry leaves the tree as it found it.
FailsCleanly ==
  result = "err" /\ opts.progress /\ event = NoEvent => fs = job.tree

FailedIndices == {f.index : f \in failed}

\* Every wanted entry the loop has passed is in the report, once, and nothing
\* else is: what the loop leaves behind it is extracted or failed, never lost.
AllAccounted ==
  /\ done \cap FailedIndices = {}
  /\ done \cup FailedIndices = {i \in Subset : i < idx}
  /\ result = "ok" /\ ~aborted => done \cup FailedIndices = Subset

\* A strict call that returns Ok without being cancelled extracted everything.
StrictIsComplete ==
  opts.strict /\ result = "ok" /\ ~aborted => done = Subset

----------------------------------------------------------------------------
\* Which entries can be in each other's way.

\* The place entry i's bytes are meant for, and the places a link standing
\* there may lead them to.
Own(i) ==
  IF entries[i].fork /\ ~MacOS THEN SidecarPath(Target(i)) ELSE Target(i)

LinkedFrom(p) ==
  {Dest \o entries[k].to :
     k \in {k \in Index : entries[k].kind = "link" /\ entries[k].to # Outside
                          /\ Target(k) = p}}
  \cup {job.tree[q].to : q \in {q \in {p} \cap Path : job.tree[q].kind = "link"}}

Ends(i) == {Own(i)} \cup LinkedFrom(Own(i))

BothDirs(i, j) ==
  \A k \in {i, j} : entries[k].kind = "dir" /\ ~entries[k].fork

\* The two forks of one macOS file.
ForkPair(i, j) ==
  /\ MacOS /\ entries[i].fork # entries[j].fork
  /\ entries[i].kind = "file" /\ entries[j].kind = "file"

\* Entry j, coming after i, may undo i: it is another claim on the same place.
\* Of the two forks of one macOS file only an unfinished second one does.
Disturbs(j, i) ==
  /\ Ends(i) \cap Ends(j) # {}
  /\ ~BothDirs(i, j)
  /\ ~(ForkPair(i, j) /\ j \in done)

\* Entry i, whole, where it belongs.
Standing(i) ==
  LET e == entries[i]
      n == fs[Resolve(fs, Own(i))]
  IN CASE e.fork /\ MacOS -> n.kind = "file" /\ n.fork = i /\ n.forkFull
       [] e.fork /\ ~MacOS -> n.kind = "file" /\ n.src = i /\ n.full
       [] ~e.fork /\ e.kind = "link" -> fs[Own(i)].kind = "link" /\ fs[Own(i)].src = i
       [] ~e.fork /\ e.kind = "dir" -> n.kind = "dir"
       [] OTHER -> n.kind = "file" /\ n.src = i /\ n.full

\* "Entries already written in full stay": what was counted as extracted stands
\* as long as no other entry claims its place.
FinishedStays ==
  \A i \in done :
    (\A j \in Subset : i < j /\ j <= idx => ~Disturbs(j, i)) => Standing(i)

\* A directory no name can be removed from: the user's, or made so by an entry.
Locked(d) ==
  \/ job.tree[d].kind = "dir" /\ ~job.tree[d].writable
  \/ \E i \in Index : entries[i].mode = "ro" /\ d \in Ends(i)

\* An unfinished file is removed on both ways out.  The leftovers that remain
\* are these: the name could not be removed, the name was a link and the file is
\* what it led to, or the disk failed under an AppleDouble file.
UnfinishedIsRemoved ==
  pc \notin {"reading", "forking"} =>
    \A p \in Path :
      fs[p].kind = "file" /\ ~fs[p].full =>
        \/ Locked(Parent(p))
        \/ \E i \in Index : p \in LinkedFrom(Own(i))
        \/ DiskFaults /\ entries[fs[p].src].fork

\* "A refused or cancelled entry left a zero-length file wearing the right name;
\* the unfinished file is now removed": stated of the macOS fork.
NoUnfinishedFork ==
  pc \notin {"reading", "forking"} => \A p \in Path : fs[p].forkFull

\* Times survive the call: a directory carries the time of the last of its
\* entries although files were created in it later, and a whole file
\* carries its own, or on macOS that of its fork.
TimesSurvive ==
  result = "ok" /\ opts.preserve =>
    \A i \in done :
      LET n == fs[Resolve(fs, Own(i))]
          Same == {j \in done : /\ entries[j].kind # "link" \/ entries[j].fork
                                /\ Resolve(fs, Own(j)) = Resolve(fs, Own(i))}
          Dated == {j \in Same : entries[j].dated}
          Dirs == {j \in Dated : BothDirs(j, j)}
      IN IF BothDirs(i, i)
         THEN i \in Dirs => n.stamp \in Dirs /\ \A j \in Dirs : j <= n.stamp
         ELSE Standing(i) /\ n.full /\ n.forkFull /\ i \in Same /\ Same = Dated => n.stamp \in Dated

----------------------------------------------------------------------------
\* An archive without a conflict in itself, into an empty place that may be
\* written to: every path is good, no two entries claim one place, nothing lies
\* under a file, no directory is made read-only and no macOS file is before its
\* fork is written.
Clean ==
  /\ \A p \in Path \ {<<>>} : job.tree[p] = Absent
  /\ job.tree[<<>>].writable
  /\ \A i \in Subset :
       LET e == entries[i]
       IN /\ ~Escapes(e.path)
          /\ e.kind # "dir" => Normal(e.path) # <<>>
          /\ e.kind = "link" => e.to # Outside
          /\ e.mode = "ro" => e.kind = "file" /\ ~e.fork
  /\ \A i, j \in Subset :
       i # j =>
         /\ Own(i) = Own(j) =>
              \/ BothDirs(i, j)
              \/ ForkPair(i, j) /\ \A k \in {i, j} : entries[k].mode # "ro"
         /\ entries[i].kind # "dir" \/ entries[i].fork =>
              Own(i) \notin WithAncestors(Parent(Own(j)))

\* Of such an archive only what the reader or the disk cannot deliver is ever
\* reported: the engine makes every directory it needs, whatever the order.
CleanIsExtracted ==
  Clean => \A f \in failed :
             \/ f.why \in {"reader", "unsupported"}
             \/ DiskFaults /\ entries[f.index].fork

NewTops ==
  {p \in Path : Len(p) = 1 /\ job.tree[p].kind = "none" /\ fs[p].kind # "none"}

\* The tops that links lead to: what is written through a link appears there.
ThroughLinks ==
  UNION {WithAncestors(q) : q \in UNION {LinkedFrom(Own(i)) : i \in Index}}

\* A fork that goes beside a top, which the top's own name does not show.
BesideTop(i) == Own(i) # Target(i) /\ Len(Own(i)) = 1

\* The wrapper's purpose: with it on, a call adds at most one name at the top of
\* the destination, if no link leads to another.  Not so when the paths begin
\* with ".", nor with a fork of the one top directory (no reader gives it one).
OneNewTop ==
  opts.wrapper /\ (\A i \in Subset : Dot \notin Comps(entries[i].path) /\ ~BesideTop(i)) =>
    Cardinality(NewTops \ ThroughLinks) <= 1

\* The same with no exception: the reason common_root gives for its answer,
\* that entries "live under one common top-level directory".
OneNewTopAlways == opts.wrapper => Cardinality(NewTops) <= 1

----------------------------------------------------------------------------
\* An Abort answered to EntryStart or to Bytes is the last word: the call counts
\* nothing more, reports nothing more, announces nothing more and no name appears.
AbortIsFinal ==
  [][event.flow = "abort" /\ event.type # "done" =>
       /\ aborted /\ UNCHANGED <<done, failed, event>>
       /\ \A p \in Path : fs[p].kind = "none" => fs'[p].kind = "none"]_vars

\* What the callback sees: entries in order, each Start first, the others only
\* of the started one, Done only of an entry that is counted; a Start with no
\* Done before it means the previous entry failed.
EventOrder ==
  [][event' # event =>
       IF event'.type = "start"
       THEN /\ event'.index > event.index
            /\ event.type \in {"start", "bytes"} => event.index \in FailedIndices
       ELSE /\ event.type \in {"start", "bytes"}
            /\ event'.index = event.index
            /\ event'.type = "done" => event'.index \in done']_vars

----------------------------------------------------------------------------
\* The promise, refined: between conflict-free entries what is kept is what
\* stands on the disk, otherwise it is what the report counts.  (The two forks of
\* one macOS file are not free of each other: an unfinished one takes both away.)
KeptWhole ==
  IF Clean /\ \A i, j \in Subset : ~ForkPair(i, j)
  THEN {i \in done : Standing(i)} ELSE done

Outcome ==
  CASE result = "err" -> "error"
    [] result # "err" /\ aborted -> "cancelled"
    [] result = "ok" /\ ~aborted -> "complete"
    [] OTHER -> "running"

Promise == INSTANCE ExtractPromise WITH
  wanted <- Subset,
  strict <- opts.strict,
  failed <- FailedIndices,
  kept <- KeptWhole,
  outcome <- Outcome

\* extract_all implements its promise: entries are decided in order, each kept
\* or reported in one step, and an error ends the call only when it may.
KeepsPromise == Promise!Spec
=============================================================================
