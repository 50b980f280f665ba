------------------------------ MODULE Records ------------------------------
(***************************************************************************)
(* The readers of archives that are lists of members, side by side: one    *)
(* archive is opened by the reader of its format and its entries are read  *)
(* in any order and as often as one likes.  The readers share the five     *)
(* variables; `scan` is what each keeps besides.                           *)
(***************************************************************************)
EXTENDS RecordFiles

RecordsInit == Init \/ W!Init \/ T!Init \/ Z!Init \/ R!Init

RecordsNext ==
  \/ file.format = "cpio" /\ Next
  \/ file.format = "wpress" /\ W!Next
  \/ file.format = "tar" /\ T!Next
  \/ file.format = "zip" /\ Z!Next
  \/ file.format = "rar" /\ R!Next

RecordsSpec == RecordsInit /\ [][RecordsNext]_vars

----------------------------------------------------------------------------
Member(i) == file.members[i]

Matches(e, m) ==
  /\ e.path = m.path /\ e.kind = m.kind
  /\ m.kind = "file" => e.size = Len(m.content)
  /\ m.kind = "link" => \/ e.target = m.content
                        \/ file.format = "zip" /\ e.target = <<>> /\ (Z!Locked(m) \/ m.lzma)

\* Whether the caller gave what it takes to list the archive.
Listable ==
  CASE file.format = "zip" -> ~file.stream /\ file.directory
    [] file.format = "rar" -> file.path /\ R!Opens(file.headerLock, file.password) = "ok"
    [] file.format = "wpress" -> ~file.stream /\ file.members # <<>>
    [] OTHER -> TRUE

\* An archive nothing has happened to opens (a stream may fail to be spilled),
\* and its entries are its members, in order, with their paths, kinds, lengths
\* and link targets: no padding, prefix or unlisted node of one record shifts
\* the next.  A chain of wpress records that stops early is a shorter archive.
ReadsAsWritten ==
  file.damage \in {"none", "short"} =>
    /\ Listable => status \in {"new", "walking", "open", "Io"}
    /\ \A i \in DOMAIN listing : Matches(listing[i], Member(i))
    /\ status = "open" /\ file.damage = "none" => Len(listing) = Len(file.members)

\* Of two rar members of one name only the first is ever read.
Shadowed(i) == file.format = "rar" /\ R!Found(i) # i

\* A read that says it went well has given the member's own bytes, all of them
\* and no others, whoever shortened the file since it was opened and whatever
\* was read before; without its password a locked member never does.
OkIsContent ==
  \A i \in DOMAIN answers :
    answers[i].said = "ok" /\ ~Shadowed(i) =>
      /\ listing[i].kind = "file" => answers[i].given = Member(i).content
      /\ file.format \in {"zip", "rar"} => Member(i).lock \in {"none", file.password}

\* An archive that was cut inside a record, or in which a header is spoiled, is
\* never listed as if it were whole.
CutIsTold == file.damage \in {"cut", "header"} => status # "open"

----------------------------------------------------------------------------
Verdict == IF file.format = "zip" THEN scan ELSE scan.verdict
Locks == {Member(i).lock : i \in DOMAIN file.members} \ {"none"}
FirstLocked == CHOOSE i \in DOMAIN file.members :
  /\ Member(i).lock # "none"
  /\ \A j \in 1 .. i - 1 : Member(j).lock = "none"
Certain(m) == m.sound /\ (file.format = "zip" => ~m.weak)

\* verify_password keeps the contract archive.rs states: nothing encrypted is
\* fine, no password is Encrypted, a wrong one is WrongPassword, the right one
\* is fine; and after it, if one password locks everything, no entry is refused
\* for its password, in whatever order the entries are read.
VerifyKeepsItsContract ==
  file.format \in {"zip", "rar"} /\ status = "open" /\ Verdict # "" =>
    /\ Locks = {} => Verdict = "ok"
    /\ Locks # {} /\ ~Shadowed(FirstLocked) =>
         CASE file.password = "none" -> Verdict = "Encrypted"
           [] file.password # "none" /\ Locks = {file.password} ->
                Member(FirstLocked).sound => Verdict = "ok"
           [] file.password \notin Locks \union {"none"} ->
                Certain(Member(FirstLocked)) => Verdict = "WrongPassword"
           [] OTHER -> TRUE
    /\ Verdict = "ok" /\ Locks \subseteq {file.password} =>
         \A i \in DOMAIN answers : answers[i].said \notin {"Encrypted", "WrongPassword"}
===========================================================================
