--------------------------- MODULE ExtractPromise ---------------------------
(***************************************************************************)
(* What one call of extract_all promises its caller, with no file system,  *)
(* no reader and no callback in sight: the wanted entries are decided one  *)
(* at a time in their order, each is kept whole or reported as failed and  *)
(* nothing in between, what is kept stays kept, and the call ends          *)
(* complete, cancelled, or with an error - the last only when it was asked *)
(* to be strict or before it took any entry.                               *)
(***************************************************************************)
EXTENDS Naturals, FiniteSets

VARIABLES
  wanted,   \* the indices to extract, fixed
  strict,   \* ExtractOptions::strict, fixed
  done,     \* what report.extracted counts
  failed,   \* the indices in report.failed
  kept,     \* the entries that stand whole where they belong
  outcome   \* how the call ended

vars == <<wanted, strict, done, failed, kept, outcome>>

Undecided == wanted \ (done \cup failed)

IsNext(i) == i \in Undecided /\ \A j \in Undecided : i <= j

Init ==
  /\ wanted \subseteq Nat
  /\ strict \in BOOLEAN
  /\ done = {} /\ failed = {} /\ kept = {}
  /\ outcome = "running"

Keep(i) ==
  /\ IsNext(i)
  /\ done' = done \cup {i}
  /\ kept' = kept \cup {i}
  /\ UNCHANGED <<wanted, strict, failed, outcome>>

Report(i) ==
  /\ IsNext(i) /\ ~strict
  /\ failed' = failed \cup {i}
  /\ UNCHANGED <<wanted, strict, done, kept, outcome>>

Complete == Undecided = {} /\ outcome' = "complete"

Cancel == outcome' = "cancelled"

Refuse == (strict \/ done \cup failed = {}) /\ outcome' = "error"

Finish ==
  /\ Complete \/ Cancel \/ Refuse
  /\ UNCHANGED <<wanted, strict, done, failed, kept>>

Next ==
  /\ outcome = "running"
  /\ (\E i \in wanted : Keep(i) \/ Report(i)) \/ Finish

Safe == Init /\ [][Next]_vars

Spec == Safe /\ WF_vars(Next)
=============================================================================
