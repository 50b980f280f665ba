----------------------------- MODULE SevenZip ------------------------------
(***************************************************************************)
(* sevenz.rs: a 7z archive is listed once, from its header, and its file is *)
(* opened again for every body.  The library walks the bodies in an order  *)
(* of its own, first the files with a stream, then the others, so an entry *)
(* is found by its name, its class and the number of equal names before it *)
(* (EntryKey).  open walks once for every symbolic link, whose target is   *)
(* its body; verify_password walks to the first encrypted entry.           *)
(***************************************************************************)
EXTENDS Integers, Sequences, FiniteSets

CONSTANTS
  Archives,   \* the archives: sequences of files, in the order of the header
  Names,      \* their names
  Limit       \* the longest symbolic link target (MAX_SYMLINK_TARGET), in parts

\* stream: has_stream.  link: the mode says S_IFLNK.  locked: its folder is
\* encrypted.  broken: the body ends in an error.  size: the parts of the body.
File == [name : Names, stream : BOOLEAN, dir : BOOLEAN, link : BOOLEAN,
         locked : BOOLEAN, broken : BOOLEAN, size : Nat]

ASSUME SevenZipAssumption ==
  /\ Limit \in Nat
  /\ \A a \in Archives : a \in Seq(File)
  /\ \A a \in Archives : \A i \in 1..Len(a) :
       ~a[i].stream => a[i].size = 0 /\ ~a[i].locked /\ ~a[i].broken

VARIABLES
  files,      \* the archive
  headLocked, \* its header is encrypted
  password,   \* "none", "right", "wrong"
  gone,       \* the archive file was taken away
  phase,      \* "new", "links", "ready" or "failed"
  kind,       \* what the entries are listed as: "file", "dir", "link"
  target,     \* the file the target of a link was read from, 0 for none
  done,       \* open has looked for links among the first so many
  purpose,    \* "none", or what a walk is for: "link", "read", "verify"
  want,       \* the entry it looks for
  class,      \* it is at the files with a stream, or at the others
  at,         \* and has passed so many of the header
  seen,       \* among them so many of the name and class wanted
  found,      \* it is copying the body wanted
  got,        \* what it has copied
  answer      \* what the last call returned

archive == <<files, headLocked, password>>
listing == <<phase, kind, target, done>>
walk == <<class, at, seen, found>>
vars == <<archive, gone, listing, purpose, want, walk, got, answer>>

N == Len(files)
Errors == {"Encrypted", "WrongPassword", "Io", "Corrupt"}
Garbage == <<0, 0>>

Body(i) == [k \in 1..files[i].size |-> <<i, k>>]

\* Slip: repeats are counted over both classes.
OccurrenceOfName(i) == Cardinality({j \in 1 .. i - 1 : files[j].name = files[i].name})

\* EntryKey.occurrence: the entries of the same name and class before it.
Same(i, j) == files[j].name = files[i].name /\ files[j].stream = files[i].stream
Occurrence(i) == Cardinality({j \in 1 .. i - 1 : Same(i, j)})

Init ==
  /\ files \in Archives
  /\ headLocked \in BOOLEAN /\ password \in {"none", "right", "wrong"}
  /\ gone = FALSE
  /\ phase = "new"
  /\ kind = <<>> /\ target = <<>> /\ done = 0
  /\ purpose = "none" /\ want = 0
  /\ class = TRUE /\ at = 0 /\ seen = 0 /\ found = FALSE
  /\ got = <<>> /\ answer = "none"

----------------------------------------------------------------------------
\* Another process takes the file away.
TakeAway ==
  /\ ~gone /\ gone' = TRUE
  /\ UNCHANGED <<archive, listing, purpose, want, walk, got, answer>>

\* What opening the file and parsing its header may answer.
HeaderErrors ==
  IF gone THEN {"Io"}
  ELSE IF headLocked /\ password = "none" THEN {"Encrypted"}
  ELSE IF headLocked /\ password = "wrong" THEN {"WrongPassword", "Corrupt", "Io"}
  ELSE {}

ListedAs(f) == IF f.dir THEN "dir" ELSE IF f.link THEN "link" ELSE "file"

\* open: the entries come from the header alone.
ReadHeader ==
  /\ phase = "new" /\ HeaderErrors = {}
  /\ phase' = "links"
  /\ kind' = [i \in 1..N |-> ListedAs(files[i])]
  /\ target' = [i \in 1..N |-> 0]
  /\ UNCHANGED <<archive, gone, done, purpose, want, walk, got, answer>>

\* Whether the header is damaged shows here and nowhere else: validate_7z_header
\* refuses it, or the library, which takes a checksum that fails for a password.
DamagedHeader == IF gone THEN {} ELSE {"Corrupt", "WrongPassword", "Io"}

ReadHeaderFails ==
  /\ phase = "new"
  /\ answer' \in HeaderErrors \union DamagedHeader
  /\ phase' = "failed"
  /\ UNCHANGED <<archive, gone, kind, target, done, purpose, want, walk, got>>

\* read_entry_by_key opens the file and starts at the first body.
StartWalk(why, i) ==
  /\ purpose' = why /\ want' = i
  /\ class' = TRUE /\ at' = 0 /\ seen' = 0 /\ found' = FALSE
  /\ got' = <<>> /\ answer' = "none"

\* open: the next entry, a walk of its own if it is a link.
NextLink ==
  /\ phase = "links" /\ purpose = "none" /\ done < N
  /\ done' = done + 1
  /\ IF kind[done + 1] = "link"
     THEN StartWalk("link", done + 1)
     ELSE UNCHANGED <<purpose, want, walk, got, answer>>
  /\ UNCHANGED <<archive, gone, phase, kind, target>>

EndOpen ==
  /\ phase = "links" /\ purpose = "none" /\ done = N
  /\ phase' = "ready"
  /\ UNCHANGED <<archive, gone, kind, target, done, purpose, want, walk, got, answer>>

Read(i) ==
  /\ phase = "ready" /\ purpose = "none"
  /\ StartWalk("read", i)
  /\ UNCHANGED <<archive, gone, listing>>

\* The first encrypted entry is read to nowhere.
Locked == {i \in 1..N : files[i].locked}

VerifyPassword ==
  /\ phase = "ready" /\ purpose = "none"
  /\ IF Locked # {} /\ password # "none"
     THEN \E i \in Locked : (\A j \in Locked : i <= j) /\ StartWalk("verify", i)
     ELSE /\ answer' = IF Locked = {} THEN "ok" ELSE "Encrypted"
          /\ got' = <<>> /\ purpose' = "none" /\ want' = 0
          /\ UNCHANGED walk
  /\ UNCHANGED <<archive, gone, listing>>

----------------------------------------------------------------------------
\* Slip: any end of the walk is taken for a right password.
AnsweredWell(result) == answer' = "ok" /\ UNCHANGED <<kind, target>>

\* What the purpose makes of the end of a walk.
Answered(result) == answer' = result /\ UNCHANGED <<kind, target>>

\* Slip: a link that cannot be read stays a link.
LinkReadAnyway(result) ==
  /\ UNCHANGED <<answer, kind>>
  /\ target' = [target EXCEPT ![want] = IF got # <<>> THEN got[1][1] ELSE 0]

\* An unreadable, empty or too long target leaves a regular file.
LinkRead(result) ==
  /\ UNCHANGED answer
  /\ IF result = "ok" /\ got # <<>>
     THEN target' = [target EXCEPT ![want] = got[1][1]] /\ UNCHANGED kind
     ELSE kind' = [kind EXCEPT ![want] = "file"] /\ UNCHANGED target

EndWalk(result) ==
  /\ purpose' = "none"
  /\ CASE purpose = "link" -> LinkRead(result)
       [] purpose = "verify" -> Answered(IF result = "ok" THEN "ok" ELSE "WrongPassword")
       [] OTHER -> Answered(result)
  /\ UNCHANGED <<archive, gone, phase, done, want, walk, got>>

WalkFails ==
  /\ purpose # "none" /\ at = 0 /\ class /\ ~found
  /\ \E e \in HeaderErrors : EndWalk(e)

\* What the library may answer when it is to decode file i.
DecodeErrors(i) ==
  (IF files[i].locked /\ password = "none" THEN {"Encrypted"} ELSE {})
  \union (IF files[i].locked /\ password = "wrong" THEN Errors \ {"Encrypted"} ELSE {})
  \union (IF files[i].broken THEN {"Io", "Corrupt"} ELSE {})

Decodes(i) == ~files[i].broken /\ ~(files[i].locked /\ password = "none")

Opened == ~(at = 0 /\ class) \/ HeaderErrors = {}
Walking == purpose # "none" /\ ~found /\ Opened

Visits == at < N /\ files[at + 1].stream = class
Matches == Visits /\ Same(want, at + 1)
\* Slip: the first of the name is taken.
IsFirst == Matches

IsWanted == Matches /\ seen = Occurrence(want)

\* A file of the other class is not at its place in the walk.
PassOther ==
  /\ Walking /\ at < N /\ ~Visits
  /\ at' = at + 1
  /\ UNCHANGED <<archive, gone, listing, purpose, want, class, seen, found, got, answer>>

\* Another file is decoded to nowhere.
Skip ==
  /\ Walking /\ Visits /\ ~IsWanted /\ Decodes(at + 1)
  /\ at' = at + 1
  /\ seen' = IF Matches THEN seen + 1 ELSE seen
  /\ UNCHANGED <<archive, gone, listing, purpose, want, class, found, got, answer>>

SkipFails ==
  /\ Walking /\ Visits /\ ~IsWanted
  /\ \E e \in DecodeErrors(at + 1) : EndWalk(e)

\* The files without a stream come after all others; a walk that ends without the
\* entry is refused (OkIsWhole says that none does).
Others ==
  /\ Walking /\ at = N
  /\ IF class
     THEN /\ class' = FALSE /\ at' = 0
          /\ UNCHANGED <<archive, gone, listing, purpose, want, seen, found, got, answer>>
     ELSE EndWalk("Corrupt")

Find ==
  /\ Walking /\ IsWanted
  /\ found' = TRUE
  /\ UNCHANGED <<archive, gone, listing, purpose, want, class, at, seen, got, answer>>

\* io::copy to the caller's writer; a wrong password may decode to garbage.
CopyPart ==
  /\ found /\ purpose # "none" /\ Len(got) < files[at + 1].size
  /\ ~(files[at + 1].locked /\ password = "none")
  /\ purpose = "link" => Len(got) < Limit
  /\ got' = Append(got, IF files[at + 1].locked /\ password = "wrong"
                        THEN Garbage ELSE <<at + 1, Len(got) + 1>>)
  /\ UNCHANGED <<archive, gone, listing, purpose, want, walk, answer>>

\* Slip: a target just as long as the limit is refused.
CopyFailsSoon ==
  /\ found /\ purpose = "link" /\ Len(got) = Limit
  /\ EndWalk("Io")

\* The body ends in an error, the writer fails, or the target is too long.
CopyFails ==
  /\ found /\ purpose # "none"
  /\ \/ \E e \in DecodeErrors(at + 1) : EndWalk(e)
     \/ purpose = "read" /\ Len(got) < files[at + 1].size /\ EndWalk("Io")
     \/ purpose = "link" /\ Len(got) < files[at + 1].size /\ Len(got) = Limit /\ EndWalk("Io")

CopyEnds ==
  /\ found /\ purpose # "none" /\ Len(got) = files[at + 1].size /\ Decodes(at + 1)
  /\ EndWalk("ok")

----------------------------------------------------------------------------
Step ==
  ReadHeader \/ ReadHeaderFails \/ NextLink \/ EndOpen \/ WalkFails \/ PassOther \/ Skip
  \/ SkipFails \/ Others \/ Find \/ CopyPart \/ CopyFails \/ CopyEnds

Next == TakeAway \/ VerifyPassword \/ (\E i \in 1..N : Read(i)) \/ Step

Spec == Init /\ [][Next]_vars

----------------------------------------------------------------------------
\* The variables keep their types (SevenZReader and the state of a walk).
TypeOK ==
  /\ headLocked \in BOOLEAN /\ password \in {"none", "right", "wrong"} /\ gone \in BOOLEAN
  /\ phase \in {"new", "links", "ready", "failed"}
  /\ phase \in {"links", "ready"} =>
       /\ kind \in [1..N -> {"file", "dir", "link"}] /\ target \in [1..N -> 0..N]
  /\ done \in 0..N
  /\ purpose \in {"none", "link", "read", "verify"}
  /\ purpose # "none" => phase \in {"links", "ready"} /\ want \in 1..N
  /\ class \in BOOLEAN /\ at \in 0..N /\ seen \in 0..N /\ found \in BOOLEAN
  /\ found => at < N
  /\ got \in Seq((0..N) \X Nat)
  /\ answer \in Errors \union {"none", "ok"}

Unsure(i) == files[i].locked /\ password = "wrong"

\* What a walk copies is the body of the entry asked for, from its start, and
\* of no other, however many files share its name (read_entry_by_key).  A wrong
\* password may decode to garbage: the library does not always notice.
OnlyOwnBytes ==
  want > 0 /\ ~Unsure(want) =>
    Len(got) <= files[want].size /\ got = SubSeq(Body(want), 1, Len(got))

\* A read that succeeds gave the whole body, and no entry of the header is
\* missed by the walk (read_entry_by_key).
OkIsWhole ==
  /\ answer = "ok" /\ want > 0 => Len(got) = files[want].size
  /\ answer = "Corrupt" /\ purpose = "none" /\ phase = "ready" =>
       \E i \in 1..N : files[i].broken \/ Unsure(i) \/ headLocked

\* The target of a link was read from its own body, and an entry is a link
\* only with a target (open, the second pass).
LinksHaveTargets ==
  phase = "ready" => \A i \in 1..N :
    kind[i] = "link" => target[i] = i \/ Unsure(i)

\* Every link whose target can be read and fits is listed as a link
\* (open, MAX_SYMLINK_TARGET).
ReadableLinksStay ==
  phase = "ready" /\ ~gone /\ password = "right" /\ (\A i \in 1..N : ~files[i].broken) =>
    \A i \in 1..N : files[i].link /\ ~files[i].dir /\ files[i].size \in 1..Limit
                    => kind[i] = "link"

\* Verifying says ok only after the whole of the first encrypted body, whatever
\* stood before it in the walk, and says it for the right password unless the
\* archive is damaged or gone (verify_password).
VerifyJudges ==
  [][purpose = "verify" /\ purpose' = "none" =>
       /\ answer' = "ok" => found /\ at + 1 = want /\ Len(got) = files[want].size
       /\ password = "right" /\ ~gone /\ (\A i \in 1..N : ~files[i].broken) => answer' = "ok"]_vars
============================================================================
