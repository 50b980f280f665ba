----------------------------- MODULE MCSevenZip -----------------------------
(***************************************************************************)
(* Archives of three files for TLC: names that repeat in every way, and    *)
(* each file a directory, an empty file, a plain or an encrypted body, or a *)
(* link with a target of the limit or one part longer.                     *)
(***************************************************************************)
EXTENDS SevenZip

Shape(stream, dir, link, locked, size) ==
  [stream |-> stream, dir |-> dir, link |-> link, locked |-> locked, size |-> size]

Shapes == {
  Shape(FALSE, TRUE, FALSE, FALSE, 0), Shape(FALSE, FALSE, TRUE, FALSE, 0),
  Shape(TRUE, FALSE, FALSE, FALSE, 2), Shape(TRUE, FALSE, FALSE, TRUE, 1),
  Shape(TRUE, FALSE, TRUE, FALSE, 1), Shape(TRUE, FALSE, TRUE, FALSE, 2) }

Made(name, shape, broken) ==
  [name |-> name, stream |-> shape.stream, dir |-> shape.dir, link |-> shape.link,
   locked |-> shape.locked, broken |-> broken, size |-> shape.size]

ThreeNames == {<<"a", "a", "a">>, <<"a", "b", "a">>, <<"b", "a", "a">>}

\* bad: the file whose body is damaged, 0 for none.
Threes(bads) ==
  { [i \in 1..3 |-> Made(n[i], s[i], i = bad /\ s[i].stream)] :
      n \in ThreeNames, s \in [1..3 -> Shapes], bad \in bads }

Whole == Threes({0})
Damaged == Threes({0, 1, 2})

TwoNames == {"a", "b"}
=============================================================================
