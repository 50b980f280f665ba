----------------------------- MODULE FileTree -----------------------------
(***************************************************************************)
(* The file system calls extract.rs makes, as operators on a tree.  This   *)
(* module is a model of the operating system for a process that is not     *)
(* root: std::fs and filetime are outside the repository, and each         *)
(* operator says what the call does to the facts the properties tell       *)
(* apart.                                                                  *)
(*                                                                         *)
(* A tree is a function from paths to nodes.  A node's data is "which      *)
(* entry wrote it and is it whole", never bytes.  src = 0 is a file that   *)
(* was there before; stamp = i says the modification time is the one entry *)
(* i carries, 0 that it is the time of the last change.                    *)
(***************************************************************************)
EXTENDS EntryPaths

Kinds == {"none", "dir", "file", "link"}

Absent == [kind |-> "none", src |-> 0, full |-> TRUE, fork |-> 0,
           forkFull |-> TRUE, writable |-> TRUE, stamp |-> 0, to |-> <<>>]

EmptyDir == [Absent EXCEPT !.kind = "dir"]

UserFile == [Absent EXCEPT !.kind = "file"]

\* The final component of a path is followed when it is a symbolic link.
\* Links to links and paths that run through a link are left out (LinksAreLeaves).
Resolve(t, p) == IF t[p].kind = "link" THEN t[p].to ELSE p

Exists(t, p) == t[Resolve(t, p)].kind # "none"

\* Creating or removing a name changes the time of the directory holding it.
Touch(t, p) == [t EXCEPT ![p].stamp = 0]

(***************************************************************************)
(* std::fs::create_dir_all(p): fine when p is a directory already;         *)
(* otherwise every missing directory on the way is made, the first of them *)
(* in a directory that must be writable.                                   *)
(***************************************************************************)
MissingOn(t, p) == {q \in WithAncestors(p) : t[q].kind = "none"}

CanMakeDirs(t, p) ==
  \/ t[Resolve(t, p)].kind = "dir"
  \/ \A q \in WithAncestors(p) :
       /\ t[q].kind \in {"none", "dir"}
       /\ q # <<>> /\ t[q].kind = "none" /\ t[Parent(q)].kind = "dir"
            => t[Parent(q)].writable

MakeDirs(t, p) ==
  IF t[Resolve(t, p)].kind = "dir" THEN t
  ELSE [q \in DOMAIN t |->
          CASE q \in MissingOn(t, p) -> EmptyDir
            [] q \in {Parent(r) : r \in MissingOn(t, p)} \ MissingOn(t, p)
                 -> [t[q] EXCEPT !.stamp = 0]
            [] OTHER -> t[q]]

(***************************************************************************)
(* std::fs::File::create(p): through a link if there is one; truncates a   *)
(* writable file, keeping its mode, its resource fork and its name, or     *)
(* makes a new name in a writable directory.                               *)
(***************************************************************************)
CanCreate(t, p) ==
  LET r == Resolve(t, p)
  IN \/ t[r].kind = "file" /\ t[r].writable
     \/ /\ t[r].kind = "none" /\ r # <<>>
        /\ t[Parent(r)].kind = "dir" /\ t[Parent(r)].writable

Create(t, p, i) ==
  LET r == Resolve(t, p)
  IN IF t[r].kind = "file"
     THEN [t EXCEPT ![r].src = i, ![r].full = FALSE, ![r].stamp = 0]
     ELSE [Touch(t, Parent(r)) EXCEPT
             ![r] = [Absent EXCEPT !.kind = "file", !.src = i, !.full = FALSE]]

\* std::fs::remove_file(p), its error ignored: the name goes, not what a link
\* names, and only from a writable directory.
RemoveFile(t, p) ==
  IF p # <<>> /\ t[p].kind \in {"file", "link"} /\ t[Parent(p)].writable
  THEN [Touch(t, Parent(p)) EXCEPT ![p] = Absent]
  ELSE t

\* symlink(to, p) needs a free name in a writable directory.
CanLink(t, p) ==
  /\ p # <<>> /\ t[p].kind = "none"
  /\ t[Parent(p)].kind = "dir" /\ t[Parent(p)].writable

Link(t, p, i, to) ==
  [Touch(t, Parent(p)) EXCEPT
     ![p] = [Absent EXCEPT !.kind = "link", !.src = i, !.to = to]]

\* set_permissions and set_file_mtime follow links; errors are ignored.
SetWritable(t, p, w) ==
  IF Exists(t, p) THEN [t EXCEPT ![Resolve(t, p)].writable = w] ELSE t

SetStamp(t, p, i) ==
  IF Exists(t, p) THEN [t EXCEPT ![Resolve(t, p)].stamp = i] ELSE t
=============================================================================
