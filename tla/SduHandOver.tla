------------------------------ MODULE SduHandOver ------------------------------
(* What the uplink queue promises: RRC takes the SDUs in the order RLC sent     *)
(* them up, each once, none that was not sent.                                  *)
EXTENDS Naturals, Sequences

CONSTANT Sdu

VARIABLES sent,   \* the SDUs RLC has sent up, in order
          taken   \* the SDUs RRC has taken, in order

Init == sent = << >> /\ taken = << >>

Send ==
  /\ \E s \in Sdu : sent' = Append(sent, s)
  /\ UNCHANGED taken

Take ==
  /\ Len(taken) < Len(sent)
  /\ taken' = Append(taken, sent[Len(taken) + 1])
  /\ UNCHANGED sent

Next == Send \/ Take

Spec == Init /\ [][Next]_<<sent, taken>>
=============================================================================
