----------------------------- MODULE SduStream -----------------------------
(***************************************************************************)
(* What one direction of a bearer promises the layer above it.  SDUs are   *)
(* known by their place in the order they were written.  They are handed   *)
(* up whole, in that order and once each; only a lossless bearer hands up  *)
(* every one of them.                                                      *)
(***************************************************************************)
EXTENDS Integers, SequencesExt

VARIABLES
  lossless,   \* does the bearer promise every SDU?  Never changes.
  count,      \* how many SDUs have been written
  handed      \* the places of those handed up

Init == lossless \in BOOLEAN /\ count = 0 /\ handed = <<>>

Write == count' = count + 1 /\ UNCHANGED <<lossless, handed>>

\* A PDU may hand up several SDUs at a time.
HandUp ==
  /\ IsStrictPrefix(handed, handed')
  /\ \A i \in DOMAIN handed' : handed'[i] \in 1 .. count
  /\ \A i, j \in DOMAIN handed' : i < j => handed'[i] < handed'[j]
  /\ lossless => Len(handed') = handed'[Len(handed')]
  /\ UNCHANGED <<lossless, count>>

Next == Write \/ HandUp

Spec == Init /\ [][Next]_<<lossless, count, handed>>
=============================================================================
