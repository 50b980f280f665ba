----------------------------- MODULE MCExtract -----------------------------
(***************************************************************************)
(* Small instances of Extract.  Places: a, d, d/a, l and the AppleDouble    *)
(* names beside them, at the top and under the wrapper w.                  *)
(***************************************************************************)
EXTENDS Extract, SequencesExt

MCSidecar == [n \in {"a", "d", "l", "w"} |-> "._" \o n]
MCMacFiles == {"._a", "._d"}

Tops == {<<>>, <<"a">>, <<"._a">>, <<"l">>, <<"d">>, <<"d", "a">>, <<"d", "._a">>}
MCPath == Tops \cup {<<"w">> \o p : p \in Tops}

\* The entries archives are made of.
File(p, n) == [path |-> p, kind |-> "file", fork |-> FALSE, size |-> n,
               mode |-> "rw", dated |-> TRUE, to |-> <<>>]
Dir(p) == [File(p, 0) EXCEPT !.kind = "dir"]
LinkTo(p, t) == [File(p, 0) EXCEPT !.kind = "link", !.to = t]
Fork(p, n) == [File(p, n) EXCEPT !.fork = TRUE]
ReadOnly(e) == [e EXCEPT !.mode = "ro"]
Plain(e) == [e EXCEPT !.mode = "none", !.dated = FALSE]

Files == {File(<<"a">>, 1), ReadOnly(File(<<"a">>, 0)), File(<<"d", "a">>, 2),
          Plain(File(<<"d", "a">>, 0))}
Dirs == {Dir(<<"d">>), ReadOnly(Dir(<<"d">>)), Plain(Dir(<<"d">>))}
Links == {LinkTo(<<"l">>, <<"d">>), LinkTo(<<"a">>, <<"d", "a">>),
          LinkTo(<<"l">>, Outside)}
Forks == {Fork(<<"a">>, 1), Fork(<<"d", "a">>, 2)}
Odd == {File(<<Up, "a">>, 1), File(<<"._a">>, 1), File(<<>>, 1)}
Dotted == {Dir(<<Dot>>), File(<<Dot, "a">>, 1), File(<<Dot, "d", "a">>, 1)}

\* Neither the file a nor a link there has anything under it, so no listing of
\* these runs through a link, and a directory d is never also a link.
Short(E) == BoundedSeq(E, 2)

Triples ==
  {<<Dir(<<"d">>), e, f>> : e \in Files \cup Forks, f \in Files \cup Forks}
  \cup {<<e, Dir(<<"d">>), f>> : e \in Files \cup Forks, f \in Links}
  \cup {<<LinkTo(<<"a">>, <<"d", "a">>), e, f>> : e \in Files, f \in Files}
  \cup {<<LinkTo(<<"d", "a">>, <<"a">>), e>> : e \in Files}

\* A file taken back, and then a link to a directory in its place.
Quadruples == {<<Dir(<<"d">>), e, File(<<"a">>, 1), LinkTo(<<"a">>, <<"d">>)>> : e \in Files}

Plainly == Files \cup Dirs \cup Links \cup Forks \cup Odd

MCArchives == Short(Plainly) \cup Short(Dotted \cup Files) \cup Triples \cup Quadruples

ForkArchives == [1..2 -> {File(<<"a">>, 1), Fork(<<"a">>, 1)}]

DottedArchives == [1..2 -> {Dir(<<Dot>>), File(<<Dot, "a">>, 1), File(<<Dot, "d", "a">>, 1)}]

\* The options.
All == 1..4
Opts(sel) ==
  [strict : BOOLEAN, preserve : {TRUE}, selection : {sel}, wrapper : BOOLEAN,
   progress : {TRUE}, keepMac : {FALSE}]

MCOptions ==
  Opts(All)
  \cup {[strict |-> FALSE, preserve |-> FALSE, selection |-> All, wrapper |-> TRUE,
         progress |-> FALSE, keepMac |-> TRUE],
        [strict |-> FALSE, preserve |-> TRUE, selection |-> {2}, wrapper |-> TRUE,
         progress |-> TRUE, keepMac |-> TRUE],
        [strict |-> TRUE, preserve |-> TRUE, selection |-> {2, 3}, wrapper |-> FALSE,
         progress |-> FALSE, keepMac |-> FALSE]}

OneOption ==
  {[strict |-> FALSE, preserve |-> TRUE, selection |-> All, wrapper |-> TRUE,
    progress |-> TRUE, keepMac |-> FALSE]}

\* What lies under the destination before the call.
EmptyTree == [p \in MCPath |-> IF p = <<>> THEN EmptyDir ELSE Absent]

\* The user's own a, a read-only d with a file in it, and a file where the
\* wrapper would go.
UserTree ==
  [EmptyTree EXCEPT ![<<"a">>] = UserFile,
                    ![<<"d">>] = [EmptyDir EXCEPT !.writable = FALSE],
                    ![<<"d", "a">>] = UserFile,
                    ![<<"w">>] = UserFile]

\* A link the user, or an earlier call, left at a.
LinkedTree ==
  [EmptyTree EXCEPT ![<<"a">>] = [Absent EXCEPT !.kind = "link", !.to = <<"d", "a">>],
                    ![<<"d">>] = EmptyDir,
                    ![<<"d", "a">>] = UserFile]

MCTrees == {EmptyTree, UserTree, LinkedTree}
EmptyOnly == {EmptyTree}

Both == {TRUE, FALSE}
MacOnly == {TRUE}
NotMac == {FALSE}

\* The builds differ in forks only: a listing without one is taken on one build.
MCInit == Init /\ (MacOS => \E i \in Index : entries[i].fork)
MCSpec == MCInit /\ [][Next]_vars /\ WF_vars(Next)
=============================================================================
