------------------------------ MODULE MCLzip ------------------------------
(***************************************************************************)
(* Files of up to two members, whole, cut short, spoiled and followed by   *)
(* something else, for TLC.                                                *)
(***************************************************************************)
EXTENDS Lzip

HeadUnit(ok) == [part |-> "head", ok |-> ok, stuck |-> FALSE, yields |-> 0, value |-> 0,
             last |-> FALSE, size |-> 0, sum |-> 0]
Body(n, v) == [HeadUnit(TRUE) EXCEPT !.part = "body", !.yields = n, !.value = v]
BadBody == [HeadUnit(FALSE) EXCEPT !.part = "body"]
StuckBody == [BadBody EXCEPT !.stuck = TRUE]
Marker == [Body(0, 0) EXCEPT !.last = TRUE]
Tail1(size, sum) == [HeadUnit(TRUE) EXCEPT !.part = "tail", !.size = size, !.sum = sum]

Header == <<HeadUnit(TRUE), HeadUnit(TRUE)>>
Trailer(size, sum) == <<Tail1(size, sum), Tail1(0, 0)>>

Empty == Header \o <<Marker>> \o Trailer(0, 0)
Long == Header \o <<Body(1, 1), Body(3, 2), Marker>> \o Trailer(4, 7)
Short == Header \o <<Body(2, 3), Marker>> \o Trailer(2, 6)
WrongSize == Header \o <<Body(2, 3), Marker>> \o Trailer(3, 6)
WrongBody == Header \o <<Body(1, 1), BadBody, Marker>> \o Trailer(1, 1)
StuckAfter == Header \o <<Body(1, 1), StuckBody, Marker>> \o Trailer(1, 1)
StuckAtOnce == Short \o Header \o <<StuckBody, Marker>> \o Trailer(0, 0)
WrongSum == Header \o <<Body(2, 4), Marker>> \o Trailer(2, 6)

Whole == {<<>>, Empty, Long, Short, Long \o Short, Short \o Long, Empty \o Short}
Truncated == {SubSeq(f, 1, k) : f \in {Long \o Short}, k \in 0..Len(Long \o Short)}
Damaged == {WrongSize \o Short, Short \o WrongSize, WrongBody, Short \o WrongBody,
            StuckAfter, StuckAtOnce,
            Short \o <<HeadUnit(TRUE), HeadUnit(FALSE)>> \o Long, Short \o <<Body(1, 9)>>}

Files == Whole \union Truncated \union Damaged
SpoiledFiles == {Short, WrongSum \o Short}

Sizes == {0, 1, 2, 3}
===========================================================================
