-------------------------------- MODULE Rar --------------------------------
(***************************************************************************)
(* format/rar.rs: a rar read through libunrar, which opens the archive by  *)
(* its path anew for every call and walks its headers from the first.  An  *)
(* entry is found again by its name.  A set of volumes is extracted to a   *)
(* temp file and copied from there.                                        *)
(*                                                                         *)
(* A member's lock is the password it is encrypted under, or NoPassword;   *)
(* an archive's header lock hides its list as well.  A vague lock (RAR4)   *)
(* does not tell a wrong password from spoiled data.                       *)
(***************************************************************************)
EXTENDS StoredFile, FiniteSets

CONSTANTS
  RarFiles,      \* the archives, each with the password the caller gives
  MaxFailures    \* how many reads may go wrong

NoPassword == "none"

\* A member: [path, kind, content, lock, vague, sound].  An archive: [format,
\* members, password, path, headerLock, volumes, damage], path being whether the
\* source is a file that has one.

VARIABLES
  file,      \* the archive
  keeps,     \* verify_password's last answer, the temp files left behind, and
             \* how many reads went wrong
  listing,   \* the entries
  status,    \* "new", "open", or the error `open` answered
  answers    \* what the last read_entry of each entry answered

vars == <<file, keeps, listing, status, answers>>

Init ==
  /\ file \in RarFiles
  /\ keeps = [verdict |-> "", temps |-> 0, failures |-> 0]
  /\ listing = <<>>
  /\ status = "new"
  /\ answers = <<>>

----------------------------------------------------------------------------
\* map_rar_err: what libunrar says of a lock and the password it was given.
Opens(lock, password) ==
  IF lock \in {NoPassword, password} THEN "ok"
  ELSE IF password = NoPassword THEN "Encrypted" ELSE "WrongPassword"

Locked(m) == m.lock # NoPassword

\* open: the list is asked for without the password, and on any error with it.
ListingSaid ==
  IF Opens(file.headerLock, NoPassword) = "ok" THEN "ok"
  ELSE Opens(file.headerLock, file.password)

EntryOf(m) == [path |-> m.path, kind |-> m.kind, size |-> Len(m.content),
               encrypted |-> Locked(m)]

Refuse ==
  /\ status = "new"
  /\ ~file.path \/ ListingSaid # "ok"
  /\ status' = IF ~file.path THEN "Unsupported" ELSE ListingSaid
  /\ UNCHANGED <<file, keeps, listing, answers>>

Open ==
  /\ status = "new" /\ file.path /\ ListingSaid = "ok"
  /\ status' = "open"
  /\ listing' = [i \in DOMAIN file.members |-> EntryOf(file.members[i])]
  /\ answers' = [i \in DOMAIN file.members |-> NotRead]
  /\ UNCHANGED <<file, keeps>>

----------------------------------------------------------------------------
\* read_header and skip until the name is met: the first entry of that name.
Named(i) == {j \in DOMAIN file.members : file.members[j].path = listing[i].path}
Found(i) == CHOOSE j \in Named(i) : \A k \in Named(i) : j <= k

\* What libunrar makes of a member.
Unpacked(m) ==
  IF Opens(m.lock, file.password) # "ok"
  THEN IF m.vague /\ file.password # NoPassword THEN Answer("Corrupt", <<>>)
       ELSE Answer(Opens(m.lock, file.password), <<>>)
  ELSE IF m.sound THEN Answer("ok", m.content) ELSE Answer("Corrupt", <<>>)

\* read_entry: the archive is opened again, with the password when there is
\* one.
Read(i) ==
  IF Opens(file.headerLock, file.password) # "ok"
  THEN Answer(Opens(file.headerLock, file.password), <<>>)
  ELSE Unpacked(file.members[Found(i)])

\* read_entry_via_extract: the temp file is removed after a good copy.  An
\* error of libunrar returns past the removal; whether libunrar had created
\* the file by then is its own affair.
LeftBehind(a) == IF file.volumes /\ a.said # "ok" THEN {0, 1} ELSE {0}

ReadEntry(i) ==
  /\ status = "open" /\ keeps.failures < MaxFailures
  /\ \E n \in LeftBehind(Read(i)) :
       keeps' = [keeps EXCEPT !.temps = @ + n,
                              !.failures = IF Read(i).said = "ok" THEN @ ELSE @ + 1]
  /\ answers' = [answers EXCEPT ![i] = Read(i)]
  /\ UNCHANGED <<file, listing, status>>

Encrypted == {i \in DOMAIN listing : listing[i].encrypted}
FirstEncrypted == CHOOSE i \in Encrypted : \A j \in Encrypted : i <= j

\* Slip: an error that does not name the password is not put down to it.
VerdictAsSaid(a) == a.said

\* verify_password puts every other error down to the password.
VerdictOf(a) ==
  IF a.said \in {"ok", "Encrypted", "WrongPassword"} THEN a.said
  ELSE IF file.password = NoPassword THEN "Encrypted" ELSE "WrongPassword"

\* verify_password reads the first encrypted entry into nothing.
VerifyPassword ==
  /\ status = "open" /\ keeps.failures < MaxFailures
  /\ IF Encrypted = {} THEN keeps' = [keeps EXCEPT !.verdict = "ok"]
     ELSE LET a == Read(FirstEncrypted)
          IN \E n \in LeftBehind(a) :
               keeps' = [verdict |-> VerdictOf(a), temps |-> keeps.temps + n,
                         failures |-> IF a.said = "ok" THEN keeps.failures
                                      ELSE keeps.failures + 1]
  /\ UNCHANGED <<file, listing, status, answers>>

Next ==
  \/ Refuse \/ Open
  \/ VerifyPassword
  \/ \E i \in DOMAIN listing : ReadEntry(i)

Spec == Init /\ [][Next]_vars
===========================================================================
