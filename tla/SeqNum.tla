------------------------------- MODULE SeqNum -------------------------------
(***************************************************************************)
(* The sequence-number arithmetic of URlcBase (RLC/URlcBase.cpp).  Every   *)
(* RLC entity numbers its PDUs modulo mSNS: 4096 for AM, 128 for UM.  The  *)
(* operators keep the names and the exact results of the C++ functions,    *)
(* including the two answers +-mSNS/2 that deltaSN gives at the half-way   *)
(* point of the number space.                                              *)
(***************************************************************************)
EXTENDS Integers

CONSTANT mSNS   \* size of the sequence-number space

\* The constructor of URlcBase only ever sets an even space (AmSNS, UmSNS).
ASSUME SNSAssumption == mSNS \in Nat /\ mSNS >= 2 /\ mSNS % 2 = 0

SN == 0 .. (mSNS - 1)

\* Signed distance from sn2 to sn1, folded once into [-mSNS/2, mSNS/2].
deltaSN(sn1, sn2) ==
  LET ws    == mSNS \div 2
      d     == sn1 - sn2
      up    == IF d < -ws THEN d + mSNS ELSE d
  IN  IF up > ws THEN up - mSNS ELSE up

\* (unsigned)(sn1 + sn2) % mSNS; the second argument may be negative.
addSN(sn1, sn2) == (sn1 + sn2) % mSNS

\* Wrong on purpose, for the mutants of PROJECT.json, like every definition
\* below whose name starts with bad: the numbers do not wrap around.
badIncSN(sn) == sn + 1

incSN(sn) == addSN(sn, 1)

minSN(sn1, sn2) == IF deltaSN(sn1, sn2) <= 0 THEN sn1 ELSE sn2

-----------------------------------------------------------------------------
\* How many steps of incSN lead from `from` to `sn`.
Offset(from, sn) == (sn - from) % mSNS

\* The numbers a loop `for (; deltaSN(from, to) < 0; incSN(from))` visits.
Span(from, to) ==
  IF deltaSN(from, to) < 0
  THEN {sn \in SN : Offset(from, sn) < deltaSN(to, from)}
  ELSE {}

\* The first number of the non-empty set S that incSN meets from `from` on.
Nearest(from, S) ==
  CHOOSE sn \in S : \A other \in S : Offset(from, sn) <= Offset(from, other)
=============================================================================
