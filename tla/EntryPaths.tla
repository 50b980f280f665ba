---------------------------- MODULE EntryPaths ----------------------------
(***************************************************************************)
(* The pure path logic of the engine: what an entry's name means as a      *)
(* place under the destination (path_safety.rs), which entries are macOS   *)
(* side files (macos.rs) and whether a set of entries shares one top       *)
(* directory (common_root of extract.rs).                                  *)
(*                                                                         *)
(* A path is the sequence of its components as Path::components() yields   *)
(* them.  Dot stands for a leading CurDir (Rust keeps it only in front);   *)
(* Up stands for each component safe_join refuses: ParentDir, RootDir and  *)
(* Prefix.  Every other component is a plain name.                         *)
(***************************************************************************)
EXTENDS Naturals, Sequences

CONSTANTS
  Dot,        \* Component::CurDir at the front of a path
  Up,         \* Component::ParentDir, RootDir or Prefix
  MacFolder,  \* the name __MACOSX
  MacFiles,   \* .DS_Store and the names that start with "._"
  Sidecar     \* function: the name "._n" for the name n

Comps(p) == {p[k] : k \in DOMAIN p}

\* safe_join: the verdict, and the place when the verdict is good.
Escapes(p) == Up \in Comps(p)

Normal(p) == IF p # <<>> /\ p[1] = Dot THEN Tail(p) ELSE p

SafeJoin(dest, p) == dest \o Normal(p)

\* is_macos_metadata; file_name() is None for "" and for a path of dots only.
IsMacosMetadata(p) ==
  \/ MacFolder \in Comps(p)
  \/ p # <<>> /\ p[Len(p)] \in MacFiles

\* target.with_file_name("._" + name)
SidecarPath(p) == [p EXCEPT ![Len(p)] = Sidecar[p[Len(p)]]]

Parent(p) == SubSeq(p, 1, Len(p) - 1)

\* p itself and every directory above it, the root <<>> included.
WithAncestors(p) == {SubSeq(p, 1, k) : k \in 0..Len(p)}

\* Slip: the entries are not compared with one another.
HasSomeRoot(es, I) ==
  /\ I # {}
  /\ \A i \in I : es[i].path # <<>>
  /\ \E i \in I : Len(es[i].path) > 1 \/ es[i].kind = "dir"

(***************************************************************************)
(* common_root has an answer for the entries indexed by I: they are not    *)
(* empty, none has an empty path, all start with the same component, and   *)
(* that component is a directory: something nests under it or an entry is  *)
(* exactly it and a directory.  The comparison is on the component as      *)
(* stored, a leading "." included.                                         *)
(***************************************************************************)
HasCommonRoot(es, I) ==
  /\ I # {}
  /\ \A i \in I : es[i].path # <<>>
  /\ \A i, j \in I : es[i].path[1] = es[j].path[1]
  /\ \E i \in I : Len(es[i].path) > 1 \/ es[i].kind = "dir"
=============================================================================
