----------------------------- MODULE SduService -----------------------------
(***************************************************************************)
(* What an acknowledged-mode channel promises the layers above it while no *)
(* reset happens: each end receives the SDUs the other end wrote, all of   *)
(* them, whole, once and in order.  One PDU that fills a gap may hand up   *)
(* several SDUs at a time.                                                 *)
(***************************************************************************)
EXTENDS Naturals, Sequences, FiniteSets

CONSTANTS Entity, Sdu

VARIABLES
  written,     \* the SDUs each end has written
  delivered    \* the SDUs each end has been handed

Init ==
  /\ written = [e \in Entity |-> <<>>]
  /\ delivered = [e \in Entity |-> <<>>]

Write(e) ==
  /\ \E sdu \in Sdu : written' = [written EXCEPT ![e] = Append(@, sdu)]
  /\ UNCHANGED delivered

Deliver(from, to) ==
  /\ from # to
  /\ \E n \in Len(delivered[to]) + 1 .. Len(written[from]) :
       delivered' = [delivered EXCEPT ![to] = SubSeq(written[from], 1, n)]
  /\ UNCHANGED written

Next == \/ \E e \in Entity : Write(e)
        \/ \E from, to \in Entity : Deliver(from, to)

Spec == Init /\ [][Next]_<<written, delivered>>

\* What has been written is handed up in the end.
Live ==
  \A from, to \in Entity :
    from # to => \A n \in 1 .. Cardinality(Sdu) :
                   Len(written[from]) >= n ~> Len(delivered[to]) >= n
=============================================================================
