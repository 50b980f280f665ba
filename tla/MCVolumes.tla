----------------------------- MODULE MCVolumes -----------------------------
(***************************************************************************)
(* A set of up to four volumes, one of them empty, for TLC.                *)
(***************************************************************************)
EXTENDS Volumes

Lengths == [v \in 1..4 |-> IF v = 2 THEN 0 ELSE 2]
Slices == {1, 3}
===========================================================================
