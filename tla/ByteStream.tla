---------------------------- MODULE ByteStream ----------------------------
(***************************************************************************)
(* What a decompressing reader promises the code above it (std::io::Read):  *)
(* every answer that is not the end or an error carries the next part of   *)
(* the content, the end is said only of a whole input and after all of its *)
(* content, an error is said again for ever.                               *)
(***************************************************************************)
EXTENDS Naturals, Sequences

VARIABLES
  content,    \* what the input holds, fixed
  whole,      \* whether the input is well formed to its end, fixed
  delivered,  \* what the caller has been given
  ending      \* "open", "eof" or "error"

vars == <<content, whole, delivered, ending>>

Init ==
  /\ content \in Seq(Nat) /\ whole \in BOOLEAN
  /\ delivered = <<>>
  /\ ending = "open"

Deliver ==
  /\ ending = "open"
  /\ \E n \in Len(delivered) + 1 .. Len(content) :
       delivered' = SubSeq(content, 1, n)
  /\ UNCHANGED <<content, whole, ending>>

End ==
  /\ ending = "open"
  /\ whole /\ delivered = content
  /\ ending' = "eof"
  /\ UNCHANGED <<content, whole, delivered>>

Fail ==
  /\ ending = "open"
  /\ ending' = "error"
  /\ UNCHANGED <<content, whole, delivered>>

Next == Deliver \/ End \/ Fail

Spec == Init /\ [][Next]_vars
=============================================================================
