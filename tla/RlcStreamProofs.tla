--------------------------- MODULE RlcStreamProofs ---------------------------
(***************************************************************************)
(* Segmentation and reassembly for every size of SDU and PDU, any number   *)
(* of SDUs and PDUs in flight, and every bearer StreamAssumption admits.   *)
(*                                                                         *)
(* fillPduData and parsePduData go through sequences, in RlcSegment as     *)
(* recursive functions: the function that FlattenSeq, the loop over the    *)
(* SDUs and the loop over the length indicators define exists because the  *)
(* one for n elements can be extended to n + 1, and what holds of its      *)
(* values is shown from each to the next (UpTo).  PlacedOk is what holds   *)
(* of the first loop: it is the arithmetic of `remaining`.  CutOk is what  *)
(* holds of the second.  StreamInv puts together what the steps preserve.  *)
(***************************************************************************)
EXTENDS RlcStreamProperties, SequenceTheorems, WellFoundedInduction, TLAPS

LEMMA NatMin ==
  ASSUME NEW T \in SUBSET Nat, T # {}
  PROVE  \E x \in T : \A y \in T : x <= y
<1> DEFINE R == OpToRel(<, Nat)
<1>1. IsWellFoundedOn(R, Nat)
  BY NatLessThanWellFounded, Zenon
<1>2. \A x, y \in Nat : y < x => <<y, x>> \in R
  BY Zenon DEF OpToRel
<1> HIDE DEF R
<1>3. \E x \in T : \A y \in T : ~ (<<y, x>> \in R)
  BY <1>1, WFMin, Zenon
<1>4. \E x \in T : \A y \in T : ~ (y < x)
  BY <1>3, <1>2, Zenon
<1> QED
  BY <1>4, SMT

\* A set of numbers up to n that has 0, and with each number the next, has all.
LEMMA UpTo ==
  ASSUME NEW n \in Nat, NEW T, 0 \in T, \A m \in 0 .. n - 1 : m \in T => m + 1 \in T
  PROVE  \A m \in 0 .. n : m \in T
<1> DEFINE B == {m \in 0 .. n : m \notin T}
<1> SUFFICES ASSUME B # {} PROVE FALSE
  OBVIOUS
<1>1. PICK b \in B : \A m \in B : b <= m
  <2>1. B \in SUBSET Nat
    BY SMT
  <2> HIDE DEF B
  <2> QED BY <2>1, NatMin
<1>2. b \in 0 .. n /\ b \notin T /\ b # 0
  BY <1>1
<1>3. b - 1 \in 0 .. n - 1 /\ b - 1 \in 0 .. n /\ b - 1 + 1 = b /\ ~(b <= b - 1)
  BY <1>2, SMT
<1>4. b - 1 \in T
  BY <1>1, <1>3
<1> QED BY <1>2, <1>3, <1>4

-----------------------------------------------------------------------------
(* FlattenSeq.                                                             *)

IsFlatten(f, seqs) ==
  f = [i \in 1 .. Len(seqs) |-> IF i = 1 THEN seqs[i] ELSE f[i - 1] \o seqs[i]]

LEMMA FlattenAt ==
  ASSUME NEW f, NEW seqs, IsFlatten(f, seqs)
  PROVE  \A i \in 1 .. Len(seqs) : f[i] = IF i = 1 THEN seqs[i] ELSE f[i - 1] \o seqs[i]
BY Zenon DEF IsFlatten

\* The recursive function exists: it can be extended from n elements to n + 1.
LEMMA FlattenExists ==
  ASSUME NEW seqs, Len(seqs) \in Nat PROVE \E f : IsFlatten(f, seqs)
<1> DEFINE Is(f, n) == f = [i \in 1 .. n |-> IF i = 1 THEN seqs[i] ELSE f[i - 1] \o seqs[i]]
           T == {n \in Nat : \E f : Is(f, n)}
<1>1. 0 \in T
  <2> DEFINE f == [i \in 1 .. 0 |-> 0]
  <2>1. f = [i \in 1 .. 0 |-> IF i = 1 THEN seqs[i] ELSE f[i - 1] \o seqs[i]]
    <3>1. 1 .. 0 = {}
      BY SMT
    <3> QED BY <3>1
  <2> QED BY <2>1
<1>2. ASSUME NEW n \in Nat, n \in T PROVE n + 1 \in T
  <2>1. PICK f : Is(f, n)
    BY <1>2
  <2> DEFINE e == IF n + 1 = 1 THEN seqs[n + 1] ELSE f[n] \o seqs[n + 1]
             g == [i \in 1 .. n + 1 |-> IF i = n + 1 THEN e ELSE f[i]]
  <2>2. ASSUME NEW i \in 1 .. n + 1
        PROVE  g[i] = IF i = 1 THEN seqs[i] ELSE g[i - 1] \o seqs[i]
    <3>1. CASE i = n + 1
      <4>1. n + 1 # 1 => n \in 1 .. n + 1 /\ n # n + 1 /\ i - 1 = n
        BY <3>1, SMT
      <4> QED BY <3>1, <4>1
    <3>2. CASE i # n + 1
      <4>1. i \in 1 .. n /\ (i # 1 => i - 1 \in 1 .. n + 1 /\ i - 1 # n + 1)
        BY <3>2, SMT
      <4>2. f[i] = IF i = 1 THEN seqs[i] ELSE f[i - 1] \o seqs[i]
        BY <2>1, <4>1
      <4> QED BY <3>2, <4>1, <4>2
    <3> QED BY <3>1, <3>2
  <2>3. Is(g, n + 1)
    <3> HIDE DEF e
    <3> QED BY <2>2
  <2> HIDE DEF Is, g
  <2> QED BY <2>3
<1> HIDE DEF T
<1>3. Len(seqs) \in T
  <2>1. \A m \in 0 .. Len(seqs) - 1 : m \in T => m + 1 \in T
    BY <1>2, SMT
  <2>2. \A m \in 0 .. Len(seqs) : m \in T
    BY <1>1, <2>1, UpTo
  <2> QED BY <2>2, SMT
<1> QED BY <1>3 DEF T, IsFlatten

LEMMA FlattenAgree ==
  ASSUME NEW s, NEW t, NEW f, NEW g, Len(s) \in Nat, Len(t) \in Nat, Len(s) <= Len(t),
         IsFlatten(f, s), IsFlatten(g, t), \A i \in 1 .. Len(s) : s[i] = t[i]
  PROVE  \A n \in 1 .. Len(s) : f[n] = g[n]
<1> DEFINE T == {n \in 0 .. Len(s) : n = 0 \/ f[n] = g[n]}
<1>1. 0 \in T
  BY SMT
<1>2. ASSUME NEW m \in 0 .. Len(s) - 1, m \in T PROVE m + 1 \in T
  <2>1. m + 1 \in 1 .. Len(s) /\ m + 1 \in 1 .. Len(t) /\ m + 1 \in 0 .. Len(s) /\ m + 1 - 1 = m
        /\ (m + 1 = 1 <=> m = 0)
    BY SMT
  <2>2. /\ f[m + 1] = IF m + 1 = 1 THEN s[m + 1] ELSE f[m + 1 - 1] \o s[m + 1]
        /\ g[m + 1] = IF m + 1 = 1 THEN t[m + 1] ELSE g[m + 1 - 1] \o t[m + 1]
    BY <2>1, FlattenAt
  <2>3. m = 0 \/ f[m] = g[m]
    BY <1>2
  <2>4. f[m + 1] = g[m + 1]
    BY <2>1, <2>2, <2>3
  <2> QED BY <2>1, <2>4
<1>3. \A m \in 0 .. Len(s) : m \in T
  <2> HIDE DEF T
  <2> QED BY <1>1, <1>2, UpTo
<1>4. \A n \in 1 .. Len(s) : n \in 0 .. Len(s) /\ n # 0
  BY SMT
<1> QED BY <1>3, <1>4

Flatten(seqs) == CHOOSE f : IsFlatten(f, seqs)

LEMMA FlattenIs ==
  ASSUME NEW seqs, Len(seqs) \in Nat \ {0}
  PROVE  IsFlatten(Flatten(seqs), seqs) /\ FlattenSeq(seqs) = Flatten(seqs)[Len(seqs)]
<1>1. IsFlatten(Flatten(seqs), seqs)
  BY FlattenExists, Zenon DEF Flatten
<1>2. Len(seqs) # 0
  OBVIOUS
<1>3. FlattenSeq(seqs) = Flatten(seqs)[Len(seqs)]
  BY <1>2 DEF FlattenSeq, Flatten, IsFlatten
<1> QED BY <1>1, <1>3

LEMMA FlattenEmpty == FlattenSeq(<<>>) = <<>>
BY DEF FlattenSeq

\* What FlattenSeq makes of one more element.
LEMMA FlattenAppend ==
  ASSUME NEW S, NEW seqs \in Seq(Seq(S)), NEW e \in Seq(S)
  PROVE  FlattenSeq(Append(seqs, e)) = FlattenSeq(seqs) \o e
<1> DEFINE t == Append(seqs, e)
           f == Flatten(seqs)
           g == Flatten(t)
           n == Len(seqs)
<1>1. n \in Nat /\ Len(t) = n + 1 /\ t[n + 1] = e /\ \A i \in 1 .. n : seqs[i] = t[i]
  BY AppendProperties, LenProperties
<1>2. IsFlatten(g, t) /\ FlattenSeq(t) = g[n + 1]
  <2>1. Len(t) \in Nat \ {0}
    BY <1>1, SMT
  <2> HIDE DEF t
  <2> QED BY <1>1, <2>1, FlattenIs
<1> HIDE DEF t
<1> DEFINE k == n + 1
<1>3. g[k] = IF k = 1 THEN t[k] ELSE g[k - 1] \o t[k]
  <2>1. k \in 1 .. Len(t)
    BY <1>1, SMT
  <2> HIDE DEF k, g
  <2>2. \A i \in 1 .. Len(t) : g[i] = IF i = 1 THEN t[i] ELSE g[i - 1] \o t[i]
    BY <1>2, FlattenAt
  <2> QED BY <2>1, <2>2
<1>4. CASE n = 0
  <2>1. seqs = <<>>
    BY <1>4, EmptySeq
  <2>2. g[n + 1] = e
    BY <1>1, <1>3, <1>4
  <2>3. <<>> \o e = e
    BY ConcatEmptySeq
  <2> QED BY <1>2, <2>1, <2>2, <2>3, FlattenEmpty DEF t
<1>5. CASE n # 0
  <2>1. n \in Nat \ {0} /\ n \in 1 .. n /\ n + 1 - 1 = n /\ n + 1 # 1 /\ n <= Len(t) /\ Len(t) \in Nat
    BY <1>1, <1>5, SMT
  <2>2. IsFlatten(f, seqs) /\ FlattenSeq(seqs) = f[n]
    BY <2>1, FlattenIs
  <2>3. f[n] = g[n]
    <3> HIDE DEF f, g, k
    <3>1. Len(seqs) \in Nat /\ Len(t) \in Nat /\ Len(seqs) <= Len(t) /\ IsFlatten(g, t)
          /\ \A i \in 1 .. Len(seqs) : seqs[i] = t[i]
      BY <1>1, <1>2, <2>1
    <3>2. \A i \in 1 .. Len(seqs) : f[i] = g[i]
      BY <2>2, <3>1, FlattenAgree
    <3>3. n \in 1 .. Len(seqs)
      BY <2>1
    <3> QED BY <3>2, <3>3, Zenon
  <2>4. g[n + 1] = f[n] \o e
    BY <1>1, <1>3, <2>1, <2>3
  <2> QED BY <1>2, <2>2, <2>4 DEF t
<1> QED BY <1>4, <1>5

\* The first n elements and the first n + 1.
LEMMA OneMore ==
  ASSUME NEW S, NEW s \in Seq(S), NEW n \in 0 .. Len(s) - 1
  PROVE  /\ SubSeq(s, 1, n + 1) = Append(SubSeq(s, 1, n), s[n + 1])
         /\ SubSeq(s, 1, n) \in Seq(S) /\ s[n + 1] \in S /\ Len(SubSeq(s, 1, n)) = n
<1>1. Len(s) \in Nat
  BY LenProperties
<1>2. n \in Nat /\ n + 1 \in 1 .. Len(s) /\ 1 \in 1 .. Len(s) /\ n + 1 \in 1 .. Len(s) /\ n + 1 - 1 = n
  BY <1>1, SMT
<1>3. s[n + 1] \in S /\ \A i \in 1 .. n : s[i] \in S
  <2>1. \A i \in 1 .. n : i \in 1 .. Len(s)
    BY <1>1, <1>2, SMT
  <2> QED BY <1>2, <2>1, ElementOfSeq
<1>4. SubSeq(s, 1, n) \in Seq(S) /\ Len(SubSeq(s, 1, n)) = n
  <2>1. 1 \in Int /\ n \in Int /\ (IF 1 <= n THEN n - 1 + 1 ELSE 0) = n
    BY <1>2, SMT
  <2> QED BY <1>3, <2>1, SubSeqProperties
<1>5. SubSeq(s, 1, n + 1) = SubSeq(s, 1, n + 1 - 1) \o <<s[n + 1]>>
  BY <1>2, SubSeqRecursiveSecond
<1>6. Append(SubSeq(s, 1, n), s[n + 1]) = SubSeq(s, 1, n) \o <<s[n + 1]>>
  BY <1>3, <1>4, AppendIsConcat
<1> QED BY <1>2, <1>3, <1>4, <1>5, <1>6

LEMMA FlattenType ==
  ASSUME NEW S, NEW seqs \in Seq(Seq(S)) PROVE FlattenSeq(seqs) \in Seq(S)
<1> DEFINE n == Len(seqs)
           T == {m \in 0 .. n : FlattenSeq(SubSeq(seqs, 1, m)) \in Seq(S)}
<1>1. n \in Nat
  BY LenProperties
<1>2. 0 \in T
  <2>1. SubSeq(seqs, 1, 0) = <<>>
    BY SubSeqEmpty, SMT
  <2>2. FlattenSeq(<<>>) \in Seq(S)
    BY FlattenEmpty, EmptySeq
  <2>3. 0 \in 0 .. n
    BY <1>1, SMT
  <2> QED BY <2>1, <2>2, <2>3
<1>3. ASSUME NEW m \in 0 .. n - 1, m \in T PROVE m + 1 \in T
  <2>1. /\ SubSeq(seqs, 1, m + 1) = Append(SubSeq(seqs, 1, m), seqs[m + 1])
        /\ SubSeq(seqs, 1, m) \in Seq(Seq(S)) /\ seqs[m + 1] \in Seq(S)
    BY OneMore
  <2>2. FlattenSeq(SubSeq(seqs, 1, m + 1)) = FlattenSeq(SubSeq(seqs, 1, m)) \o seqs[m + 1]
    BY <2>1, FlattenAppend
  <2>3. FlattenSeq(SubSeq(seqs, 1, m + 1)) \in Seq(S)
    BY <1>3, <2>1, <2>2, ConcatProperties
  <2>4. m + 1 \in 0 .. n
    BY <1>1, SMT
  <2> QED BY <2>3, <2>4
<1>4. n \in T
  <2>1. \A m \in 0 .. n : m \in T
    <3> HIDE DEF T, n
    <3> QED BY <1>1, <1>2, <1>3, UpTo
  <2> QED BY <1>1, <2>1, SMT
<1>5. SubSeq(seqs, 1, n) = seqs
  BY SubSeqFull
<1> QED BY <1>4, <1>5

-----------------------------------------------------------------------------
(* The loop of fillPduData.                                                *)

\* The bearers StreamAssumption admits.
Bearers == {c \in Config : c.payload > 2 * c.libytes}

LEMMA BearerType ==
  ASSUME NEW c \in Bearers
  PROVE  /\ c.libytes \in {1, 2} /\ c.payload \in Nat /\ c.payload > 2 * c.libytes
         /\ c.mIsSharedRlc \in BOOLEAN /\ c.mTransmissionBufferSizeBytes \in Nat
         /\ c.rlcMode \in {"AM", "UM"}
BY DEF Bearers, Config

All(t) == InProgress(t) \o t.mSduTxQ

LEMMA AllType ==
  ASSUME NEW t \in Transmitter
  PROVE  All(t) \in Seq(SduData) /\ InProgress(t) \in Seq(SduData)
<1>1. t.mSduTxQ \in Seq(SduData) /\ t.mSplitSdu \in SduData \cup {NoSdu}
  BY DEF Transmitter
<1>2. InProgress(t) \in Seq(SduData)
  BY <1>1 DEF InProgress
<1> QED BY <1>1, <1>2, ConcatProperties DEF All

\* What is eligible is the first SDUs there are.
LEMMA EligibleType ==
  ASSUME NEW c \in Bearers, NEW t \in Transmitter
  PROVE  /\ Eligible(c, t) \in Seq(SduData) /\ Len(Eligible(c, t)) <= Len(All(t))
         /\ Len(All(t)) > 0 => Len(Eligible(c, t)) > 0
         /\ \A n \in 0 .. Len(Eligible(c, t)) : SubSeq(Eligible(c, t), 1, n) = SubSeq(All(t), 1, n)
         /\ \A i \in 1 .. Len(Eligible(c, t)) : Eligible(c, t)[i] = All(t)[i]
<1> DEFINE all == All(t)
           e == Eligible(c, t)
<1>1. all \in Seq(SduData) /\ Len(all) \in Nat
  BY AllType, LenProperties
<1>2. e = IF c.mIsSharedRlc /\ all # <<>> THEN <<all[1]>> ELSE all
  BY DEF Eligible, All
<1> HIDE DEF all, e
<1>3. CASE c.mIsSharedRlc /\ all # <<>>
  <2>1. Len(all) \in Nat \ {0} /\ 1 \in 1 .. Len(all)
    BY <1>1, <1>3, EmptySeq, SMT
  <2>2. all[1] \in SduData
    BY <1>1, <2>1, ElementOfSeq
  <2>3. e = <<all[1]>> /\ e \in Seq(SduData) /\ Len(e) = 1 /\ e[1] = all[1]
    BY <1>2, <1>3, <2>2
  <2>4. SubSeq(e, 1, 0) = <<>> /\ SubSeq(all, 1, 0) = <<>>
    BY SubSeqEmpty, SMT
  <2>5. SubSeq(e, 1, 1) = <<all[1]>>
    BY <2>3, SubSeqFull
  <2>6. SubSeq(all, 1, 1) = <<all[1]>>
    <3>1. 0 \in 0 .. Len(all) - 1 /\ 0 + 1 = 1
      BY <2>1, SMT
    <3>2. SubSeq(all, 1, 0 + 1) = Append(SubSeq(all, 1, 0), all[0 + 1])
      BY <1>1, <3>1, OneMore
    <3>3. Append(<<>>, all[1]) = <<all[1]>>
      OBVIOUS
    <3>4. SubSeq(all, 1, 1) = Append(SubSeq(all, 1, 0), all[1])
      BY <3>1, <3>2
    <3> QED BY <2>4, <3>3, <3>4
  <2>7. 0 .. Len(e) = {0, 1} /\ 1 .. Len(e) = {1} /\ 1 <= Len(all)
    BY <2>1, <2>3, SMT
  <2> QED BY <2>3, <2>4, <2>5, <2>6, <2>7, SMT DEF all, e
<1>4. CASE ~(c.mIsSharedRlc /\ all # <<>>)
  <2>1. e = all
    BY <1>2, <1>4
  <2> QED BY <1>1, <2>1, SMT DEF all, e
<1> QED BY <1>3, <1>4

\* SDUs the PDU has all of, and those of them an indicator ends.
Completed(f) == IF f.sdufinalbytes > 0 THEN f.sducnt - 1 ELSE f.sducnt
Marked(f) == IF f.sdufinalbytes > 0 \/ f.mLILeftOver > 0 THEN f.sducnt - 1 ELSE f.sducnt

PlacedType ==
  [ remaining : Nat, vli : Seq(Nat), sducnt : Nat, sdufinalbytes : Nat,
    mLILeftOver : 0 .. 2, full : BOOLEAN ]

Octets(sdus, f) == Len(FlattenSeq(SubSeq(sdus, 1, Completed(f)))) + f.sdufinalbytes

\* What is true of f when n SDUs have been looked at.
PlacedOk(c, marks, sdus, n, f) ==
  /\ f \in PlacedType
  /\ f.sducnt <= n /\ (f.full => f.sducnt > 0)
  /\ ~f.full => /\ f.remaining > c.libytes /\ f.sducnt = n
                /\ f.sdufinalbytes = 0 /\ f.mLILeftOver = 0
  /\ f.sdufinalbytes > 0 => /\ f.sducnt > 0 /\ f.sdufinalbytes < Len(sdus[f.sducnt])
                            /\ f.mLILeftOver = 0 /\ f.remaining = 0
  /\ f.mLILeftOver > 0 => f.sducnt > 0
  /\ f.mLILeftOver = 1 => f.remaining = 0
  /\ f.mLILeftOver = 2 => f.remaining = 1 /\ c.libytes = 2
  /\ f.vli = marks \o [i \in 1 .. Marked(f) |-> Len(sdus[i])]
  /\ Len(f.vli) * c.libytes + Octets(sdus, f) + f.remaining = c.payload

LEMMA MarkType ==
  ASSUME NEW c \in Bearers, NEW left \in 0 .. 2, NEW newSdu \in BOOLEAN
  PROVE  /\ FirstMark(c, left, newSdu) \in Seq({ExactLI, ShortLI, StartLI})
         /\ FirstMark(c, left, newSdu) \in Seq(Nat)
         /\ Len(FirstMark(c, left, newSdu)) \in {0, 1}
<1> DEFINE D == {ExactLI, ShortLI, StartLI}
<1>1. ExactLI \in D /\ ShortLI \in D /\ StartLI \in D /\ D \subseteq Nat
  BY SMT DEF ExactLI, ShortLI, StartLI
<1> HIDE DEF D
<1>2. FirstMark(c, left, newSdu) \in {<<>>, <<ExactLI>>, <<ShortLI>>, <<StartLI>>}
  BY DEF FirstMark, EndMark
<1>3. \A x \in D : <<x>> \in Seq(D) /\ <<x>> \in Seq(Nat) /\ Len(<<x>>) = 1
  BY <1>1, SMT
<1>4. <<>> \in Seq(D) /\ <<>> \in Seq(Nat) /\ Len(<<>>) = 0
  BY EmptySeq
<1>5. LET m == FirstMark(c, left, newSdu)
      IN  m \in Seq(D) /\ m \in Seq(Nat) /\ Len(m) \in {0, 1}
  BY <1>1, <1>2, <1>3, <1>4, Zenon
<1> QED BY <1>5 DEF D

LEMMA EmptyPduOk ==
  ASSUME NEW c \in Bearers, NEW t \in Transmitter, NEW sdus \in Seq(SduData)
  PROVE  LET marks == FirstMark(c, t.mLILeftOver, StartsNewSdu(t))
         IN  PlacedOk(c, marks, sdus, 0, EmptyPdu(c, t))
<1> DEFINE marks == FirstMark(c, t.mLILeftOver, StartsNewSdu(t))
           f == EmptyPdu(c, t)
<1>1. marks \in Seq(Nat) /\ Len(marks) \in {0, 1}
  <2>1. t.mLILeftOver \in 0 .. 2 /\ StartsNewSdu(t) \in BOOLEAN
    BY DEF Transmitter, StartsNewSdu
  <2> QED BY <2>1, MarkType
<1>2. f = [ remaining |-> c.payload - Len(marks) * c.libytes, vli |-> marks,
            sducnt |-> 0, sdufinalbytes |-> 0, mLILeftOver |-> 0, full |-> FALSE ]
  BY DEF EmptyPdu
<1> HIDE DEF marks, f
<1>3. Len(marks) * c.libytes \in Nat /\ Len(marks) * c.libytes <= c.libytes
  <2>1. c.libytes \in Nat
    BY BearerType, SMT
  <2>2. 0 * c.libytes = 0 /\ 1 * c.libytes = c.libytes
    BY <2>1, SMT
  <2>3. Len(marks) * c.libytes \in {0, c.libytes}
    BY <1>1, <2>2
  <2> QED BY <2>1, <2>3, SMT
<1>4. /\ c.payload - Len(marks) * c.libytes \in Nat
      /\ c.payload - Len(marks) * c.libytes > c.libytes
  BY <1>3, BearerType, SMT
<1>5. f \in PlacedType
  BY <1>1, <1>2, <1>4, SMT DEF PlacedType
<1>6. Completed(f) = 0 /\ Marked(f) = 0
  BY <1>2, SMT DEF Completed, Marked
<1>7. Octets(sdus, f) = 0
  <2>1. SubSeq(sdus, 1, 0) = <<>> /\ Len(<<>>) = 0
    BY SubSeqEmpty, SMT
  <2>2. Len(FlattenSeq(SubSeq(sdus, 1, Completed(f)))) = 0 /\ f.sdufinalbytes = 0
    BY <1>2, <1>6, <2>1, FlattenEmpty
  <2>3. Octets(sdus, f) = 0 + 0
    BY <2>2 DEF Octets
  <2> QED BY <2>3, SMT
<1>8. f.vli = marks \o [i \in 1 .. Marked(f) |-> Len(sdus[i])]
  <2>1. [i \in 1 .. 0 |-> Len(sdus[i])] = <<>>
    BY SMT
  <2> QED BY <1>1, <1>2, <1>6, <2>1, ConcatEmptySeq
<1>9. Len(f.vli) * c.libytes + Octets(sdus, f) + f.remaining = c.payload
  BY <1>2, <1>3, <1>7, BearerType, SMT
<1> QED
  <2>1. /\ f.sducnt = 0 /\ f.sdufinalbytes = 0 /\ f.mLILeftOver = 0 /\ f.full = FALSE
        /\ f.remaining > c.libytes
    BY <1>2, <1>4
  <2>2. ~(0 > 0) /\ 0 # 1 /\ 0 # 2 /\ 0 <= 0
    BY SMT
  <2>3. PlacedOk(c, marks, sdus, 0, f)
    BY <1>5, <1>8, <1>9, <2>1, <2>2 DEF PlacedOk
  <2> QED BY <2>3 DEF marks, f

LEMMA SduDataType ==
  /\ \A sdu \in SduData : sdu \in Seq(Octet) /\ Len(sdu) \in Nat /\ Len(sdu) > 0
  /\ \A sdus \in Seq(SduData) : sdus \in Seq(Seq(Octet))
<1>1. ASSUME NEW sdu \in SduData PROVE sdu \in Seq(Octet) /\ Len(sdu) \in Nat /\ Len(sdu) > 0
  <2>1. sdu \in Seq(Octet) /\ sdu # <<>>
    BY DEF SduData
  <2>2. Len(sdu) \in Nat \ {0}
    BY <2>1, EmptySeq
  <2> QED BY <2>1, <2>2, SMT
<1>2. SduData \subseteq Seq(Octet)
  BY DEF SduData
<1> QED BY <1>1, <1>2, SeqMonotonic

\* Octets in the first n SDUs.
Sum(sdus, n) == Len(FlattenSeq(SubSeq(sdus, 1, n)))

LEMMA SumType ==
  ASSUME NEW sdus \in Seq(SduData), NEW n \in 0 .. Len(sdus)
  PROVE  Sum(sdus, n) \in Nat
<1>1. sdus \in Seq(Seq(Octet)) /\ Len(sdus) \in Nat
  BY SduDataType, LenProperties
<1>2. SubSeq(sdus, 1, n) \in Seq(Seq(Octet))
  <2>1. 1 \in Int /\ n \in Int /\ \A i \in 1 .. n : i \in 1 .. Len(sdus)
    BY <1>1, SMT
  <2>2. \A i \in 1 .. n : sdus[i] \in Seq(Octet)
    BY <1>1, <2>1, ElementOfSeq
  <2> QED BY <2>1, <2>2, SubSeqProperties
<1>3. FlattenSeq(SubSeq(sdus, 1, n)) \in Seq(Octet)
  BY <1>2, FlattenType
<1> QED BY <1>3, LenProperties DEF Sum

LEMMA SumOneMore ==
  ASSUME NEW sdus \in Seq(SduData), NEW n \in 0 .. Len(sdus) - 1
  PROVE  /\ FlattenSeq(SubSeq(sdus, 1, n + 1)) = FlattenSeq(SubSeq(sdus, 1, n)) \o sdus[n + 1]
         /\ Sum(sdus, n + 1) = Sum(sdus, n) + Len(sdus[n + 1])
<1>1. sdus \in Seq(Seq(Octet))
  BY SduDataType
<1>2. /\ SubSeq(sdus, 1, n + 1) = Append(SubSeq(sdus, 1, n), sdus[n + 1])
      /\ SubSeq(sdus, 1, n) \in Seq(Seq(Octet)) /\ sdus[n + 1] \in Seq(Octet)
  BY <1>1, OneMore
<1>3. FlattenSeq(SubSeq(sdus, 1, n + 1)) = FlattenSeq(SubSeq(sdus, 1, n)) \o sdus[n + 1]
  BY <1>2, FlattenAppend
<1>4. FlattenSeq(SubSeq(sdus, 1, n)) \in Seq(Octet)
  BY <1>2, FlattenType
<1> QED BY <1>2, <1>3, <1>4, ConcatProperties DEF Sum

\* What the indicators are when one more is written, or none.
LEMMA MarksOneMore ==
  ASSUME NEW marks \in Seq(Nat), NEW sdus \in Seq(SduData), NEW n \in 0 .. Len(sdus) - 1
  PROVE  Append(marks \o [i \in 1 .. n |-> Len(sdus[i])], Len(sdus[n + 1]))
           = marks \o [i \in 1 .. n + 1 |-> Len(sdus[i])]
<1> DEFINE a == [i \in 1 .. n |-> Len(sdus[i])]
           b == [i \in 1 .. n + 1 |-> Len(sdus[i])]
           e == Len(sdus[n + 1])
<1>1. \A i \in 1 .. n + 1 : Len(sdus[i]) \in Nat
  <2>1. \A i \in 1 .. n + 1 : i \in 1 .. Len(sdus)
    <3>1. Len(sdus) \in Nat
      BY LenProperties
    <3> QED BY <3>1, SMT
  <2>2. \A i \in 1 .. n + 1 : sdus[i] \in SduData
    BY <2>1, ElementOfSeq
  <2> QED BY <2>2, SduDataType
<1>2. n \in Nat /\ n + 1 \in 1 .. n + 1 /\ \A i \in 1 .. n : i \in 1 .. n + 1
  <2>1. Len(sdus) \in Nat
    BY LenProperties
  <2> QED BY <2>1, SMT
<1>3. a \in Seq(Nat) /\ e \in Nat /\ Len(a) = n
  BY <1>1, <1>2, SMT
<1>4. b \in Seq(Nat) /\ Len(b) = n + 1
  BY <1>1, <1>2, SMT
<1>5. b = Append(a, e)
  <2>1. Append(a, e) \in Seq(Nat) /\ Len(Append(a, e)) = n + 1 /\ Append(a, e)[n + 1] = e
        /\ \A i \in 1 .. n : Append(a, e)[i] = a[i]
    BY <1>3, AppendProperties
  <2>2. ASSUME NEW i \in 1 .. n + 1 PROVE b[i] = Append(a, e)[i]
    <3>1. i \in 1 .. n \/ i = n + 1
      BY <1>2, SMT
    <3>2. b[i] = Len(sdus[i])
      OBVIOUS
    <3>3. i \in 1 .. n => a[i] = Len(sdus[i])
      OBVIOUS
    <3> QED BY <2>1, <3>1, <3>2, <3>3
  <2> HIDE DEF a, b, e
  <2> QED BY <1>4, <2>1, <2>2, SeqEqual
<1> HIDE DEF a, b, e
<1>6. Append(marks \o a, e) = marks \o Append(a, e)
  <2>1. Append(marks \o a, e) = (marks \o a) \o <<e>>
    BY <1>3, ConcatProperties, AppendIsConcat
  <2>2. Append(a, e) = a \o <<e>> /\ <<e>> \in Seq(Nat)
    BY <1>3, AppendIsConcat
  <2>3. (marks \o a) \o <<e>> = marks \o (a \o <<e>>)
    BY <1>3, <2>2, ConcatAssociative
  <2> QED BY <2>1, <2>2, <2>3
<1> QED BY <1>5, <1>6 DEF a, b, e

\* One SDU more.
LEMMA PlaceSduOk ==
  ASSUME NEW c \in Bearers, NEW marks \in Seq(Nat), NEW sdus \in Seq(SduData),
         NEW n \in 0 .. Len(sdus) - 1, NEW f, PlacedOk(c, marks, sdus, n, f)
  PROVE  PlacedOk(c, marks, sdus, n + 1, PlaceSdu(c, f, Len(sdus[n + 1])))
<1> DEFINE size == Len(sdus[n + 1])
           g == PlaceSdu(c, f, size)
           room == f.remaining
           short == Short(c, room, size)
           left == FreeAfter(c, room, size)
           lb == c.libytes
<1>1. n \in Nat /\ n + 1 \in 1 .. Len(sdus) /\ Len(sdus) \in Nat /\ size \in Nat /\ size > 0
  <2>1. Len(sdus) \in Nat
    BY LenProperties
  <2>2. n \in Nat /\ n + 1 \in 1 .. Len(sdus)
    BY <2>1, SMT
  <2>3. sdus[n + 1] \in SduData
    BY <2>2, ElementOfSeq
  <2> QED BY <2>1, <2>2, <2>3, SduDataType
<1> HIDE DEF size
<1>2. f \in PlacedType
  BY DEF PlacedOk
<1>3. CASE f.full
  <2>1. g = f
    BY <1>3 DEF PlaceSdu
  <2>2. f.sducnt \in Nat /\ f.sducnt <= n
    BY <1>2 DEF PlacedOk, PlacedType
  <2>3. f.sducnt <= n + 1
    BY <1>1, <2>2, SMT
  <2>4. PlacedOk(c, marks, sdus, n + 1, f)
    <3> DEFINE k == n + 1
    <3> HIDE DEF k
    <3>1. PlacedOk(c, marks, sdus, k, f)
      BY <1>3, <2>3 DEF PlacedOk, k
    <3> QED BY <3>1 DEF k
  <2> QED BY <2>1, <2>4 DEF size
<1>4. CASE ~f.full
  <2>1. /\ room \in Nat /\ f.vli \in Seq(Nat)
    BY <1>2 DEF PlacedType
  <2>2. room > lb /\ f.sducnt = n /\ f.sdufinalbytes = 0 /\ f.mLILeftOver = 0
    BY <1>4 DEF PlacedOk
  <2>3. lb \in {1, 2} /\ lb \in Nat /\ c.payload \in Nat
    BY BearerType, SMT
  <2> DEFINE marked == size < room /\ ~short
             vli == IF marked THEN Append(f.vli, size) ELSE f.vli
             final == IF size > room THEN room ELSE 0
             over == IF size = room THEN 1 ELSE IF short THEN 2 ELSE 0
             full == left <= lb \/ Len(vli) = LiTx
  <2>4. /\ g.remaining = left /\ g.vli = vli /\ g.sducnt = n + 1 /\ g.sdufinalbytes = final
        /\ g.mLILeftOver = over /\ g.full = full
        /\ g \in [ remaining : {left}, vli : {vli}, sducnt : {n + 1}, sdufinalbytes : {final},
                   mLILeftOver : {over}, full : {full} ]
    BY <1>4, <2>2 DEF PlaceSdu
  <2>5. short <=> lb = 2 /\ size = room - 1
    BY DEF Short
  <2>6. left = IF size >= room THEN 0 ELSE IF short THEN 1 ELSE room - lb - size
    BY DEF FreeAfter
  <2> HIDE DEF g, room, short, left, lb
  <2>7. left \in Nat
    BY <1>1, <2>1, <2>2, <2>3, <2>5, <2>6, SMT
  <2>8. /\ final \in Nat /\ over \in 0 .. 2 /\ full \in BOOLEAN
        /\ (final > 0 => over = 0 /\ left = 0 /\ final < size)
        /\ (over = 1 => left = 0) /\ (over = 2 => left = 1 /\ lb = 2)
        /\ (~full => left > lb /\ final = 0 /\ over = 0)
    BY <1>1, <2>1, <2>2, <2>3, <2>5, <2>6, SMT
  <2> DEFINE e == size
             k == n + 1
  <2>9. vli \in Seq(Nat) /\ Len(vli) \in Nat /\ Len(f.vli) \in Nat
        /\ (marked => Len(vli) = Len(f.vli) + 1)
    BY <1>1, <2>1, AppendProperties, LenProperties
  <2>10. k \in Nat /\ k > 0
    BY <1>1, SMT
  <2>11. g \in PlacedType
    <3> HIDE DEF final, over, full, vli, k
    <3>1. [ remaining : {left}, vli : {vli}, sducnt : {k}, sdufinalbytes : {final},
            mLILeftOver : {over}, full : {full} ] \subseteq PlacedType
      BY <2>7, <2>8, <2>9, <2>10, Zenon DEF PlacedType
    <3> QED BY <2>4, <3>1 DEF k
  <2>12. Completed(f) = n /\ Marked(f) = n
    BY <2>2, SMT DEF Completed, Marked
  <2>13. /\ Completed(g) = IF size > room THEN n ELSE n + 1
         /\ Marked(g) = IF marked THEN n + 1 ELSE n
    BY <1>1, <2>1, <2>2, <2>3, <2>4, <2>5, SMT DEF Completed, Marked
  <2>14. g.vli = marks \o [i \in 1 .. Marked(g) |-> Len(sdus[i])]
    <3>1. f.vli = marks \o [i \in 1 .. n |-> Len(sdus[i])]
      BY <2>12 DEF PlacedOk
    <3>2. CASE marked
      <4>1. g.vli = Append(f.vli, size) /\ Marked(g) = n + 1
        BY <2>4, <2>13, <3>2
      <4> QED BY <3>1, <4>1, MarksOneMore DEF size
    <3>3. CASE ~marked
      <4>1. g.vli = f.vli /\ Marked(g) = n
        BY <2>4, <2>13, <3>3
      <4> QED BY <3>1, <4>1
    <3> QED BY <3>2, <3>3
  <2>15. Len(g.vli) * lb + Octets(sdus, g) + g.remaining = c.payload
    <3>1. Sum(sdus, n) \in Nat /\ Sum(sdus, n + 1) = Sum(sdus, n) + size
      <4>1. n \in 0 .. Len(sdus)
        BY <1>1, SMT
      <4> QED BY <4>1, SumType, SumOneMore DEF size
    <3>2. Octets(sdus, f) = Sum(sdus, n)
      <4>1. Octets(sdus, f) = Sum(sdus, n) + 0
        BY <2>2, <2>12 DEF Octets, Sum
      <4> QED BY <3>1, <4>1, SMT
    <3>3. Octets(sdus, g) = (IF size > room THEN Sum(sdus, n) ELSE Sum(sdus, n + 1)) + final
      BY <2>4, <2>13 DEF Octets, Sum
    <3>4. Len(f.vli) * lb + Sum(sdus, n) + room = c.payload
      BY <3>2 DEF PlacedOk, room, lb
    <3> DEFINE l == Len(f.vli)
               m == Sum(sdus, n)
    <3>5. l \in Nat /\ m \in Nat /\ l * lb \in Nat /\ (l + 1) * lb = l * lb + lb
      BY <2>3, <2>9, <3>1, SMT
    <3> HIDE DEF l, m
    <3>6. l * lb + m + room = c.payload
      BY <3>4 DEF l, m
    <3>7. Octets(sdus, g) = (IF size > room THEN m ELSE m + size) + final
      BY <3>1, <3>3 DEF m
    <3>8. CASE marked
      <4>1. Len(g.vli) = l + 1
        BY <2>4, <2>9, <3>8 DEF l
      <4>2. Octets(sdus, g) = m + size /\ g.remaining = room - lb - size
        BY <1>1, <2>1, <2>4, <2>6, <3>5, <3>7, <3>8, SMT
      <4> QED BY <1>1, <2>1, <2>3, <3>5, <3>6, <4>1, <4>2, SMT
    <3>9. CASE ~marked
      <4>1. Len(g.vli) = l
        BY <2>4, <3>9 DEF l
      <4>2. Octets(sdus, g) + g.remaining = m + room
        BY <1>1, <2>1, <2>3, <2>4, <2>5, <2>6, <3>5, <3>7, <3>9, SMT
      <4>3. Octets(sdus, g) \in Nat /\ g.remaining \in Nat
        BY <1>1, <2>1, <2>4, <2>7, <3>5, <3>7, SMT
      <4> QED BY <2>1, <2>3, <3>5, <3>6, <4>1, <4>2, <4>3, SMT
    <3> QED BY <3>8, <3>9
  <2>16. PlacedOk(c, marks, sdus, n + 1, g)
    <3> HIDE DEF final, over, full, marked, vli
    <3>1. /\ g.sducnt <= k /\ g.sducnt > 0 /\ g.sducnt = k
      BY <2>4, <2>10, SMT
    <3>2. ~g.full => g.remaining > c.libytes /\ g.sdufinalbytes = 0 /\ g.mLILeftOver = 0
      BY <2>4, <2>8 DEF lb
    <3>3. g.sdufinalbytes > 0 => /\ g.sdufinalbytes < Len(sdus[k])
                                 /\ g.mLILeftOver = 0 /\ g.remaining = 0
      BY <2>4, <2>8 DEF size
    <3>4. /\ g.mLILeftOver = 1 => g.remaining = 0
          /\ g.mLILeftOver = 2 => g.remaining = 1 /\ c.libytes = 2
      BY <2>4, <2>8 DEF lb
    <3> HIDE DEF k
    <3>5. PlacedOk(c, marks, sdus, k, g)
      BY <2>11, <2>14, <2>15, <3>1, <3>2, <3>3, <3>4 DEF PlacedOk, lb
    <3> QED BY <3>5 DEF k
  <2> QED BY <2>16 DEF g, size
<1> QED BY <1>2, <1>3, <1>4 DEF PlacedType

IsPlacing(f, c, t, sdus) ==
  f = [n \in 0 .. Len(sdus) |->
         IF n = 0 THEN EmptyPdu(c, t) ELSE PlaceSdu(c, f[n - 1], Len(sdus[n]))]

LEMMA PlacingAt ==
  ASSUME NEW f, NEW c, NEW t, NEW sdus, IsPlacing(f, c, t, sdus)
  PROVE  \A n \in 0 .. Len(sdus) :
           f[n] = IF n = 0 THEN EmptyPdu(c, t) ELSE PlaceSdu(c, f[n - 1], Len(sdus[n]))
BY Zenon DEF IsPlacing

LEMMA PlacingExists ==
  ASSUME NEW c, NEW t, NEW sdus, Len(sdus) \in Nat PROVE \E f : IsPlacing(f, c, t, sdus)
<1> DEFINE Is(f, n) == f = [k \in 0 .. n |-> IF k = 0 THEN EmptyPdu(c, t)
                                             ELSE PlaceSdu(c, f[k - 1], Len(sdus[k]))]
           T == {n \in Nat : \E f : Is(f, n)}
<1>1. 0 \in T
  <2> DEFINE f == [k \in 0 .. 0 |-> EmptyPdu(c, t)]
  <2>1. 0 .. 0 = {0}
    BY SMT
  <2>2. Is(f, 0)
    BY <2>1
  <2> HIDE DEF Is, f
  <2> QED BY <2>2
<1>2. ASSUME NEW n \in Nat, n \in T PROVE n + 1 \in T
  <2>1. PICK f : Is(f, n)
    BY <1>2
  <2> DEFINE e == PlaceSdu(c, f[n], Len(sdus[n + 1]))
             g == [k \in 0 .. n + 1 |-> IF k = n + 1 THEN e ELSE f[k]]
  <2>2. ASSUME NEW k \in 0 .. n + 1
        PROVE  g[k] = IF k = 0 THEN EmptyPdu(c, t) ELSE PlaceSdu(c, g[k - 1], Len(sdus[k]))
    <3>1. CASE k = n + 1
      <4>1. k # 0 /\ n \in 0 .. n + 1 /\ n # n + 1 /\ k - 1 = n
        BY <3>1, SMT
      <4>2. g[k - 1] = f[n]
        BY <4>1
      <4> QED BY <3>1, <4>1, <4>2
    <3>2. CASE k # n + 1
      <4>1. k \in 0 .. n /\ (k # 0 => k - 1 \in 0 .. n + 1 /\ k - 1 # n + 1)
        BY <3>2, SMT
      <4>2. f[k] = IF k = 0 THEN EmptyPdu(c, t) ELSE PlaceSdu(c, f[k - 1], Len(sdus[k]))
        BY <2>1, <4>1
      <4> QED BY <3>2, <4>1, <4>2
    <3> QED BY <3>1, <3>2
  <2>3. Is(g, n + 1)
    <3> HIDE DEF e
    <3> QED BY <2>2
  <2> HIDE DEF Is, g
  <2> QED BY <2>3
<1> HIDE DEF T
<1>3. Len(sdus) \in T
  <2>1. \A m \in 0 .. Len(sdus) - 1 : m \in T => m + 1 \in T
    BY <1>2, SMT
  <2>2. \A m \in 0 .. Len(sdus) : m \in T
    BY <1>1, <2>1, UpTo
  <2> QED BY <2>2, SMT
<1> QED BY <1>3 DEF T, IsPlacing

\* What the loop leaves.
LEMMA PlacedIs ==
  ASSUME NEW c \in Bearers, NEW t \in Transmitter
  PROVE  LET marks == FirstMark(c, t.mLILeftOver, StartsNewSdu(t))
             sdus == Eligible(c, t)
         IN  PlacedOk(c, marks, sdus, Len(sdus), Placed(c, t))
<1> DEFINE marks == FirstMark(c, t.mLILeftOver, StartsNewSdu(t))
           sdus == Eligible(c, t)
           f == CHOOSE f : IsPlacing(f, c, t, sdus)
           T == {n \in 0 .. Len(sdus) : PlacedOk(c, marks, sdus, n, f[n])}
<1>1. sdus \in Seq(SduData) /\ Len(sdus) \in Nat
  BY EligibleType, LenProperties
<1>2. marks \in Seq(Nat)
  <2>1. t.mLILeftOver \in 0 .. 2 /\ StartsNewSdu(t) \in BOOLEAN
    BY DEF Transmitter, StartsNewSdu
  <2> QED BY <2>1, MarkType
<1>3. IsPlacing(f, c, t, sdus)
  <2> HIDE DEF sdus
  <2> QED BY <1>1, PlacingExists, Zenon
<1>4. Placed(c, t) = f[Len(sdus)]
  BY DEF Placed, IsPlacing
<1>5. PlacedOk(c, marks, sdus, 0, EmptyPdu(c, t))
  BY <1>1, EmptyPduOk
<1> HIDE DEF f, marks, sdus
<1>6. \A n \in 0 .. Len(sdus) :
        f[n] = IF n = 0 THEN EmptyPdu(c, t) ELSE PlaceSdu(c, f[n - 1], Len(sdus[n]))
  BY <1>3, PlacingAt
<1>7. 0 \in T
  <2>1. 0 \in 0 .. Len(sdus)
    BY <1>1, SMT
  <2>2. f[0] = EmptyPdu(c, t)
    BY <1>6, <2>1
  <2> QED BY <1>5, <2>1, <2>2
<1>8. ASSUME NEW n \in 0 .. Len(sdus) - 1, n \in T PROVE n + 1 \in T
  <2> DEFINE k == n + 1
  <2>1. k \in 0 .. Len(sdus) /\ k # 0 /\ k - 1 = n
    BY <1>1, SMT
  <2>2. PlacedOk(c, marks, sdus, k, PlaceSdu(c, f[n], Len(sdus[k])))
    BY <1>1, <1>2, <1>8, PlaceSduOk
  <2> HIDE DEF k
  <2>3. f[k] = PlaceSdu(c, f[n], Len(sdus[k]))
    BY <1>6, <2>1
  <2>4. k \in T
    BY <2>1, <2>2, <2>3
  <2> QED BY <2>4 DEF k
<1>9. Len(sdus) \in T
  <2>1. \A n \in 0 .. Len(sdus) : n \in T
    <3> HIDE DEF T
    <3> QED BY <1>1, <1>7, <1>8, UpTo
  <2> QED BY <1>1, <2>1, SMT
<1>10. PlacedOk(c, marks, sdus, Len(sdus), Placed(c, t))
  BY <1>4, <1>9
<1> QED BY <1>10 DEF marks, sdus

-----------------------------------------------------------------------------
(* fillPduData.                                                            *)

\* The parts of what it does, by name.
Padded(c, f) == f.remaining >= c.libytes
Vli(c, f) == f.vli \o (IF Padded(c, f) THEN <<PaddingLI>> ELSE <<>>)
Unused(c, f) == f.remaining - (IF Padded(c, f) THEN c.libytes ELSE 0)
LastOf(t, f) == IF f.sdufinalbytes > 0 THEN All(t)[f.sducnt] ELSE <<>>
Filling(n) == [i \in 1 .. n |-> Fill]
FilledData(c, t, f) ==
  FlattenSeq(SubSeq(All(t), 1, Completed(f)))
    \o SubSeq(LastOf(t, f), 1, f.sdufinalbytes) \o Filling(Unused(c, f))

LEMMA FillIs ==
  ASSUME NEW c, NEW t
  PROVE  LET f == Placed(c, t)
             all == All(t)
         IN  fillPduData(c, t) =
               [ trans |->
                   [ mSduTxQ |-> SubSeq(all, f.sducnt + 1, Len(all)),
                     mSplitSdu |-> IF f.sdufinalbytes > 0
                                   THEN SubSeq(LastOf(t, f), f.sdufinalbytes + 1, Len(LastOf(t, f)))
                                   ELSE NoSdu,
                     mLILeftOver |-> f.mLILeftOver,
                     mVTSDU |-> t.mVTSDU + Completed(f), mVTPDU |-> t.mVTPDU + 1 ],
                 pdu |->
                   [ vli |-> [i \in DOMAIN Vli(c, f) |-> Field(c, Vli(c, f)[i])],
                     data |-> FilledData(c, t, f) ] ]
BY DEF fillPduData, All, Padded, Vli, Unused, LastOf, Filling, FilledData, Completed

Data == Octet \cup {Fill}

\* What PlacedIs says, of all the SDUs there are.
LEMMA PlacedFacts ==
  ASSUME NEW c \in Bearers, NEW t \in Transmitter
  PROVE  LET f == Placed(c, t)
             all == All(t)
             marks == FirstMark(c, t.mLILeftOver, StartsNewSdu(t))
         IN  /\ f \in PlacedType /\ f.sducnt \in 0 .. Len(all)
             /\ Len(all) > 0 => f.sducnt > 0
             /\ f.sducnt <= Len(Eligible(c, t))
             /\ f.sdufinalbytes > 0 => /\ f.sducnt > 0 /\ f.sdufinalbytes < Len(all[f.sducnt])
                                       /\ f.mLILeftOver = 0 /\ f.remaining = 0
             /\ f.mLILeftOver > 0 => f.sducnt > 0
             /\ f.mLILeftOver = 1 => f.remaining = 0
             /\ f.mLILeftOver = 2 => f.remaining = 1 /\ c.libytes = 2
             /\ Completed(f) \in 0 .. f.sducnt /\ Marked(f) \in 0 .. f.sducnt
             /\ f.vli = marks \o [i \in 1 .. Marked(f) |-> Len(all[i])]
             /\ Len(f.vli) * c.libytes + Octets(all, f) + f.remaining = c.payload
<1> DEFINE f == Placed(c, t)
           all == All(t)
           e == Eligible(c, t)
           marks == FirstMark(c, t.mLILeftOver, StartsNewSdu(t))
<1>1. /\ e \in Seq(SduData) /\ Len(e) <= Len(all) /\ (Len(all) > 0 => Len(e) > 0)
      /\ \A n \in 0 .. Len(e) : SubSeq(e, 1, n) = SubSeq(all, 1, n)
      /\ \A i \in 1 .. Len(e) : e[i] = all[i]
  BY EligibleType
<1>2. Len(e) \in Nat /\ Len(all) \in Nat
  BY <1>1, AllType, LenProperties
<1>3. PlacedOk(c, marks, e, Len(e), f)
  BY PlacedIs
<1> HIDE DEF f, all, e, marks
<1>4. f \in PlacedType /\ f.sducnt \in Nat /\ f.sdufinalbytes \in Nat /\ f.mLILeftOver \in 0 .. 2
  BY <1>3 DEF PlacedOk, PlacedType
<1>5. /\ f.sducnt <= Len(e) /\ (f.full => f.sducnt > 0) /\ (~f.full => f.sducnt = Len(e))
      /\ f.sdufinalbytes > 0 => /\ f.sducnt > 0 /\ f.sdufinalbytes < Len(e[f.sducnt])
                                /\ f.mLILeftOver = 0 /\ f.remaining = 0
      /\ f.mLILeftOver > 0 => f.sducnt > 0
      /\ f.mLILeftOver = 1 => f.remaining = 0
      /\ f.mLILeftOver = 2 => f.remaining = 1 /\ c.libytes = 2
  BY <1>3 DEF PlacedOk
<1>6. f.sducnt \in 0 .. Len(e) /\ f.sducnt \in 0 .. Len(all)
  BY <1>1, <1>2, <1>4, <1>5, SMT
<1>7. Len(all) > 0 => f.sducnt > 0
  BY <1>1, <1>5
<1>8. Completed(f) \in 0 .. f.sducnt /\ Marked(f) \in 0 .. f.sducnt
  BY <1>4, <1>5, SMT DEF Completed, Marked
<1>9. f.sducnt > 0 => f.sducnt \in 1 .. Len(e)
  BY <1>4, <1>5, SMT
<1>10. f.sdufinalbytes > 0 => f.sdufinalbytes < Len(all[f.sducnt])
  BY <1>1, <1>5, <1>9
<1>11. [i \in 1 .. Marked(f) |-> Len(e[i])] = [i \in 1 .. Marked(f) |-> Len(all[i])]
  <2>1. \A i \in 1 .. Marked(f) : i \in 1 .. Len(e)
    BY <1>2, <1>6, <1>8, SMT
  <2> QED BY <1>1, <2>1
<1>12. f.vli = marks \o [i \in 1 .. Marked(f) |-> Len(all[i])]
  BY <1>3, <1>11 DEF PlacedOk
<1>13. Octets(e, f) = Octets(all, f)
  <2>1. Completed(f) \in 0 .. Len(e)
    BY <1>2, <1>6, <1>8, SMT
  <2> QED BY <1>1, <2>1 DEF Octets
<1>14. Len(f.vli) * c.libytes + Octets(all, f) + f.remaining = c.payload
  BY <1>3, <1>13 DEF PlacedOk
<1> QED BY <1>4, <1>5, <1>6, <1>7, <1>8, <1>10, <1>12, <1>14 DEF f, all, e, marks

LEMMA FillingType ==
  ASSUME NEW n \in Nat PROVE Filling(n) \in Seq(Data) /\ Len(Filling(n)) = n
<1>1. \A i \in 1 .. n : Fill \in Data
  BY DEF Data
<1> QED BY <1>1, SMT DEF Filling

\* What is cut off the last SDU, and what is left of it.
LEMMA CutType ==
  ASSUME NEW s \in SduData, NEW n \in Nat, n <= Len(s)
  PROVE  /\ SubSeq(s, 1, n) \in Seq(Octet) /\ Len(SubSeq(s, 1, n)) = n
         /\ n < Len(s) => SubSeq(s, n + 1, Len(s)) \in SduData
<1>1. s \in Seq(Octet) /\ Len(s) \in Nat
  BY SduDataType
<1>2. \A i \in 1 .. Len(s) : s[i] \in Octet
  BY <1>1, ElementOfSeq
<1>3. SubSeq(s, 1, n) \in Seq(Octet) /\ Len(SubSeq(s, 1, n)) = n
  <2>1. 1 \in Int /\ n \in Int /\ (\A i \in 1 .. n : i \in 1 .. Len(s))
        /\ (IF 1 <= n THEN n - 1 + 1 ELSE 0) = n
    BY <1>1, SMT
  <2> QED BY <1>2, <2>1, SubSeqProperties
<1>4. ASSUME n < Len(s) PROVE SubSeq(s, n + 1, Len(s)) \in SduData
  <2>1. n + 1 \in Int /\ Len(s) \in Int /\ (\A i \in n + 1 .. Len(s) : i \in 1 .. Len(s))
        /\ n + 1 <= Len(s) /\ Len(s) - (n + 1) + 1 = Len(s) - n /\ Len(s) - n # 0
    BY <1>1, <1>4, SMT
  <2> DEFINE r == SubSeq(s, n + 1, Len(s))
  <2>2. r \in Seq(Octet) /\ Len(r) = Len(s) - n
    BY <1>2, <2>1, SubSeqProperties
  <2>3. Len(<<>>) = 0
    BY EmptySeq, SMTT(20)
  <2> HIDE DEF r
  <2>4. r \in SduData
    BY <2>1, <2>2, <2>3 DEF SduData
  <2> QED BY <2>4 DEF r
<1> QED BY <1>3, <1>4

LEMMA DataType ==
  /\ Octet \subseteq Data /\ \A s \in Seq(Octet) : s \in Seq(Data)
  /\ <<>> \in Seq(Data) /\ Len(<<>>) = 0
<1>1. Octet \subseteq Data
  BY DEF Data
<1> QED BY <1>1, SeqMonotonic, EmptySeq

\* The octets of the PDU.
LEMMA FilledDataType ==
  ASSUME NEW c \in Bearers, NEW t \in Transmitter
  PROVE  LET f == Placed(c, t)
         IN  /\ FilledData(c, t, f) \in Seq(Data)
             /\ Len(FilledData(c, t, f)) = Octets(All(t), f) + Unused(c, f)
             /\ Unused(c, f) \in Nat
<1> DEFINE f == Placed(c, t)
           all == All(t)
           a == FlattenSeq(SubSeq(all, 1, Completed(f)))
           b == SubSeq(LastOf(t, f), 1, f.sdufinalbytes)
           d == Filling(Unused(c, f))
<1>1. /\ f \in PlacedType /\ f.sducnt \in 0 .. Len(all)
      /\ f.sdufinalbytes > 0 => f.sducnt > 0 /\ f.sdufinalbytes < Len(all[f.sducnt])
      /\ Completed(f) \in 0 .. f.sducnt
  BY PlacedFacts
<1>2. all \in Seq(SduData) /\ Len(all) \in Nat
  BY AllType, LenProperties
<1> HIDE DEF f, all
<1>3. f.remaining \in Nat /\ f.sdufinalbytes \in Nat /\ f.sducnt \in Nat
  BY <1>1 DEF PlacedType
<1>4. Unused(c, f) \in Nat
  BY <1>3, BearerType, SMT DEF Unused, Padded
<1>5. a \in Seq(Octet) /\ Len(a) = Len(FlattenSeq(SubSeq(all, 1, Completed(f))))
  <2>1. Completed(f) \in Int /\ 1 \in Int /\ \A i \in 1 .. Completed(f) : i \in 1 .. Len(all)
    BY <1>1, <1>2, <1>3, SMT
  <2>2. all \in Seq(Seq(Octet))
    BY <1>2, SduDataType
  <2>3. SubSeq(all, 1, Completed(f)) \in Seq(Seq(Octet))
    BY <2>1, <2>2, ElementOfSeq, SubSeqProperties
  <2> QED BY <2>3, FlattenType
<1>6. b \in Seq(Octet) /\ Len(b) = f.sdufinalbytes
  <2>1. CASE f.sdufinalbytes > 0
    <3>1. f.sducnt \in 1 .. Len(all)
      BY <1>1, <1>3, <2>1, SMT
    <3>2. all[f.sducnt] \in SduData /\ LastOf(t, f) = all[f.sducnt]
      BY <1>2, <2>1, <3>1, ElementOfSeq DEF LastOf, all
    <3>3. f.sdufinalbytes <= Len(all[f.sducnt])
      BY <1>1, <1>3, <2>1, <3>2, SduDataType, SMT
    <3> QED BY <1>3, <3>2, <3>3, CutType
  <2>2. CASE ~(f.sdufinalbytes > 0)
    <3>1. f.sdufinalbytes = 0
      BY <1>3, <2>2, SMT
    <3>2. b = <<>>
      BY <3>1, SubSeqEmpty, SMT
    <3> QED BY <3>1, <3>2, EmptySeq
  <2> QED BY <2>1, <2>2
<1>7. d \in Seq(Data) /\ Len(d) = Unused(c, f)
  BY <1>4, FillingType
<1>8. Octets(all, f) = Len(a) + Len(b)
  BY <1>5, <1>6 DEF Octets
<1>9. FilledData(c, t, f) = (a \o b) \o d
  BY DEF FilledData, all
<1> HIDE DEF a, b, d
<1>10. a \in Seq(Data) /\ b \in Seq(Data)
  BY <1>5, <1>6, DataType
<1>11. a \o b \in Seq(Data) /\ Len(a \o b) = Len(a) + Len(b)
  BY <1>10, ConcatProperties
<1>12. (a \o b) \o d \in Seq(Data) /\ Len((a \o b) \o d) = Len(a) + Len(b) + Len(d)
  <2> DEFINE ab == a \o b
  <2>1. ab \in Seq(Data) /\ Len(ab) = Len(a) + Len(b)
    BY <1>11
  <2> HIDE DEF ab
  <2>2. ab \o d \in Seq(Data) /\ Len(ab \o d) = Len(ab) + Len(d)
    BY <1>7, <2>1, ConcatProperties
  <2> QED BY <2>1, <2>2 DEF ab
<1>13. /\ FilledData(c, t, f) \in Seq(Data)
       /\ Len(FilledData(c, t, f)) = Octets(all, f) + Unused(c, f)
  BY <1>7, <1>8, <1>9, <1>12
<1> QED BY <1>4, <1>13 DEF f, all

\* The values of a length indicator.
LiValues == 0 .. 32767

LEMMA FieldType ==
  ASSUME NEW c \in Bearers, NEW x \in Nat PROVE Field(c, x) \in LiValues
<1>1. CASE c.libytes = 1
  <2>1. Field(c, x) = x % 128
    BY <1>1 DEF Field
  <2>2. x % 128 \in 0 .. 127
    BY SMT
  <2> DEFINE m == 32767
  <2>3. m \in Nat /\ m > 127
    BY SMT
  <2>4. LiValues = 0 .. m
    BY DEF LiValues
  <2> HIDE DEF m
  <2>5. 0 .. 127 \subseteq LiValues
    BY <2>3, <2>4, SMT
  <2> QED BY <2>1, <2>2, <2>5
<1>2. CASE c.libytes # 1
  <2> DEFINE n == 32768
             m == 32767
  <2>1. Field(c, x) = x % n
    BY <1>2 DEF Field
  <2>2. n \in Nat /\ n > 0 /\ n - 1 = m
    BY SMT
  <2>3. LiValues = 0 .. m
    BY DEF LiValues
  <2> HIDE DEF n, m
  <2>4. x % n \in 0 .. n - 1
    BY <2>2, SMT
  <2> QED BY <2>1, <2>2, <2>3, <2>4
<1> QED BY <1>1, <1>2

LEMMA FieldsType ==
  ASSUME NEW c \in Bearers, NEW v \in Seq(Nat)
  PROVE  /\ [i \in DOMAIN v |-> Field(c, v[i])] \in Seq(LiValues)
         /\ Len([i \in DOMAIN v |-> Field(c, v[i])]) = Len(v)
<1> DEFINE l == Len(v)
           w == [i \in 1 .. l |-> Field(c, v[i])]
<1>1. l \in Nat /\ DOMAIN v = 1 .. l /\ \A i \in 1 .. l : v[i] \in Nat
  BY LenProperties, ElementOfSeq
<1> HIDE DEF l
<1>2. \A i \in 1 .. l : Field(c, v[i]) \in LiValues
  BY <1>1, FieldType
<1>3. w \in [1 .. l -> LiValues]
  BY <1>2
<1> HIDE DEF w
<1>4. w \in Seq(LiValues) /\ DOMAIN w = 1 .. l
  BY <1>1, <1>3, SeqDef
<1>5. Len(w) = l
  BY <1>1, <1>4, LenProperties, SMT
<1> QED BY <1>1, <1>4, <1>5 DEF w, l

\* The PDU has the type of a PDU and is full, and so is what is left behind.
LEMMA Filled ==
  ASSUME NEW c \in Bearers, NEW t \in Transmitter
  PROVE  LET filled == fillPduData(c, t)
         IN  /\ filled.trans \in Transmitter /\ filled.pdu \in Pdu
             /\ Len(filled.pdu.vli) * c.libytes + Len(filled.pdu.data) = c.payload
<1> DEFINE f == Placed(c, t)
           all == All(t)
           filled == fillPduData(c, t)
           marks == FirstMark(c, t.mLILeftOver, StartsNewSdu(t))
           v == Vli(c, f)
           d == FilledData(c, t, f)
<1>1. /\ f \in PlacedType /\ f.sducnt \in 0 .. Len(all)
      /\ f.sdufinalbytes > 0 => f.sducnt > 0 /\ f.sdufinalbytes < Len(all[f.sducnt])
      /\ Completed(f) \in 0 .. f.sducnt
      /\ Len(f.vli) * c.libytes + Octets(all, f) + f.remaining = c.payload
  BY PlacedFacts
<1>2. all \in Seq(SduData) /\ Len(all) \in Nat
  BY AllType, LenProperties
<1>3. d \in Seq(Data) /\ Len(d) = Octets(all, f) + Unused(c, f) /\ Unused(c, f) \in Nat
  BY FilledDataType
<1>4. /\ filled.trans =
           [ mSduTxQ |-> SubSeq(all, f.sducnt + 1, Len(all)),
             mSplitSdu |-> IF f.sdufinalbytes > 0
                           THEN SubSeq(LastOf(t, f), f.sdufinalbytes + 1, Len(LastOf(t, f)))
                           ELSE NoSdu,
             mLILeftOver |-> f.mLILeftOver,
             mVTSDU |-> t.mVTSDU + Completed(f), mVTPDU |-> t.mVTPDU + 1 ]
      /\ filled.pdu = [ vli |-> [i \in DOMAIN v |-> Field(c, v[i])], data |-> d ]
  BY FillIs
<1> HIDE DEF f, all, filled, marks, d
<1>5. /\ f.remaining \in Nat /\ f.vli \in Seq(Nat) /\ f.sducnt \in Nat /\ f.sdufinalbytes \in Nat
      /\ f.mLILeftOver \in 0 .. 2
  BY <1>1 DEF PlacedType
<1>6. /\ v \in Seq(Nat) /\ Len(v) = Len(f.vli) + (IF Padded(c, f) THEN 1 ELSE 0)
      /\ Len(f.vli) \in Nat
  <2>1. <<PaddingLI>> \in Seq(Nat) /\ Len(<<PaddingLI>>) = 1 /\ <<>> \in Seq(Nat) /\ Len(<<>>) = 0
    BY SMT DEF PaddingLI
  <2> DEFINE p == IF Padded(c, f) THEN <<PaddingLI>> ELSE <<>>
  <2>2. p \in Seq(Nat) /\ Len(p) = IF Padded(c, f) THEN 1 ELSE 0
    BY <2>1
  <2>3. v = f.vli \o p
    BY DEF Vli
  <2> HIDE DEF p, v
  <2>4. v \in Seq(Nat) /\ Len(v) = Len(f.vli) + Len(p)
    BY <1>5, <2>2, <2>3, ConcatProperties
  <2> QED BY <1>5, <2>2, <2>4, LenProperties
<1> HIDE DEF v
<1>7. filled.pdu.vli \in Seq(LiValues) /\ Len(filled.pdu.vli) = Len(v)
  <2>1. filled.pdu.vli = [i \in DOMAIN v |-> Field(c, v[i])]
    BY <1>4
  <2> QED BY <1>6, <2>1, FieldsType
<1>8. filled.pdu \in Pdu
  <2>1. filled.pdu.data \in Seq(Octet \cup {Fill})
    BY <1>3, <1>4 DEF Data
  <2>2. filled.pdu \in [vli : {filled.pdu.vli}, data : {filled.pdu.data}]
    BY <1>4
  <2>3. [vli : Seq(LiValues), data : Seq(Octet \cup {Fill})] = Pdu
    BY DEF Pdu, LiValues
  <2>4. filled.pdu \in [vli : Seq(LiValues), data : Seq(Octet \cup {Fill})]
    BY <1>7, <2>1, <2>2
  <2> QED BY <2>3, <2>4
<1>9. Len(filled.pdu.vli) * c.libytes + Len(filled.pdu.data) = c.payload
  <2> DEFINE l == Len(f.vli)
             lb == c.libytes
             o == Octets(all, f)
  <2>1. lb \in {1, 2} /\ lb \in Nat /\ l \in Nat /\ l * lb \in Nat /\ (l + 1) * lb = l * lb + lb
    BY <1>6, BearerType, SMT
  <2>2. /\ Len(filled.pdu.vli) = l + (IF Padded(c, f) THEN 1 ELSE 0)
        /\ Len(filled.pdu.data) = o + Unused(c, f)
    <3>1. Len(filled.pdu.vli) = l + (IF Padded(c, f) THEN 1 ELSE 0)
      BY <1>6, <1>7
    <3>2. filled.pdu.data = d
      BY <1>4
    <3> QED BY <1>3, <3>1, <3>2
  <2>3. Unused(c, f) = f.remaining - (IF Padded(c, f) THEN lb ELSE 0)
    BY DEF Unused
  <2>4. o \in Int
    <3>1. l * lb + o + f.remaining = c.payload
      BY <1>1
    <3>2. Len(d) \in Nat
      BY <1>3, LenProperties
    <3>3. o \in Nat
      <4>1. Completed(f) \in 0 .. Len(all)
        BY <1>1, <1>2, <1>5, SMT
      <4>2. Sum(all, Completed(f)) \in Nat
        BY <1>2, <4>1, SumType
      <4> QED BY <1>5, <4>2, SMT DEF Octets, Sum
    <3> QED BY <3>3, SMT
  <2>5. l * lb + o + f.remaining = c.payload
    BY <1>1
  <2> HIDE DEF l, lb, o
  <2>6. CASE Padded(c, f)
    <3>1. Len(filled.pdu.vli) = l + 1 /\ Len(filled.pdu.data) = o + (f.remaining - lb)
      BY <2>2, <2>3, <2>6
    <3>2. Len(filled.pdu.vli) * lb + Len(filled.pdu.data) = (l + 1) * lb + (o + (f.remaining - lb))
      BY <3>1
    <3>3. (l * lb + lb) + (o + (f.remaining - lb)) = c.payload
      BY <1>5, <2>1, <2>4, <2>5, SMT
    <3> QED BY <2>1, <3>2, <3>3 DEF lb
  <2>7. CASE ~Padded(c, f)
    <3>1. Len(filled.pdu.vli) = l + 0 /\ Len(filled.pdu.data) = o + (f.remaining - 0)
      BY <2>2, <2>3, <2>7
    <3>2. Len(filled.pdu.vli) = l /\ Len(filled.pdu.data) = o + f.remaining
      BY <1>5, <2>1, <3>1, SMT
    <3>3. Len(filled.pdu.vli) * lb + Len(filled.pdu.data) = l * lb + (o + f.remaining)
      BY <3>2
    <3>4. l * lb + (o + f.remaining) = c.payload
      BY <1>5, <2>1, <2>4, <2>5, SMT
    <3> QED BY <3>3, <3>4 DEF lb
  <2> QED BY <2>6, <2>7
<1>10. filled.trans \in Transmitter
  <2>1. SubSeq(all, f.sducnt + 1, Len(all)) \in Seq(SduData)
    <3>1. f.sducnt + 1 \in Int /\ Len(all) \in Int
          /\ \A i \in f.sducnt + 1 .. Len(all) : i \in 1 .. Len(all)
      BY <1>2, <1>5, SMT
    <3> QED BY <1>2, <3>1, ElementOfSeq, SubSeqProperties
  <2>2. f.sdufinalbytes > 0 =>
          SubSeq(LastOf(t, f), f.sdufinalbytes + 1, Len(LastOf(t, f))) \in SduData
    <3> SUFFICES ASSUME f.sdufinalbytes > 0
                 PROVE  SubSeq(LastOf(t, f), f.sdufinalbytes + 1, Len(LastOf(t, f))) \in SduData
      OBVIOUS
    <3>1. f.sducnt \in 1 .. Len(all)
      BY <1>1, <1>5, SMT
    <3>2. all[f.sducnt] \in SduData /\ LastOf(t, f) = all[f.sducnt]
      BY <1>2, <3>1, ElementOfSeq DEF LastOf, all
    <3>3. f.sdufinalbytes <= Len(all[f.sducnt]) /\ f.sdufinalbytes < Len(all[f.sducnt])
      BY <1>1, <1>5, <3>2, SduDataType, SMT
    <3> QED BY <1>5, <3>2, <3>3, CutType
  <2>3. t.mVTSDU + Completed(f) \in Nat /\ t.mVTPDU + 1 \in Nat
    <3>1. t.mVTSDU \in Nat /\ t.mVTPDU \in Nat
      BY DEF Transmitter
    <3> QED BY <1>1, <1>5, <3>1, SMT
  <2> QED BY <1>4, <1>5, <2>1, <2>2, <2>3 DEF Transmitter
<1> QED BY <1>8, <1>9, <1>10 DEF filled

-----------------------------------------------------------------------------
(* parsePduData.                                                           *)

\* A receiver, and one that holds nothing while PDUs are known to be lost.
Clean(r) == r \in Receiver /\ (r.mLostPdu => r.mUpSdu = NoSdu)

LEMMA ReceiverType ==
  ASSUME NEW r \in Receiver
  PROVE  /\ r.mUpSdu \in Seq(Data) \cup {NoSdu} /\ r.mLostPdu \in BOOLEAN
         /\ r.sent \in Seq(Seq(Data))
         /\ r = [mUpSdu |-> r.mUpSdu, mLostPdu |-> r.mLostPdu, sent |-> r.sent]
BY DEF Receiver, Data

LEMMA ReceiverIs ==
  ASSUME NEW up \in Seq(Data) \cup {NoSdu}, NEW l \in BOOLEAN, NEW s \in Seq(Seq(Data))
  PROVE  [mUpSdu |-> up, mLostPdu |-> l, sent |-> s] \in Receiver
BY DEF Receiver, Data

LEMMA ReceiverWith ==
  ASSUME NEW r \in Receiver, NEW v
  PROVE  /\ [r EXCEPT !.mUpSdu = v] = [mUpSdu |-> v, mLostPdu |-> r.mLostPdu, sent |-> r.sent]
         /\ [r EXCEPT !.mLostPdu = v] = [mUpSdu |-> r.mUpSdu, mLostPdu |-> v, sent |-> r.sent]
         /\ [r EXCEPT !.sent = v] = [mUpSdu |-> r.mUpSdu, mLostPdu |-> r.mLostPdu, sent |-> v]
BY ReceiverType

LEMMA AddUpSduType ==
  ASSUME NEW r \in Receiver, NEW octets \in Seq(Data)
  PROVE  /\ addUpSdu(r, octets) \in Receiver /\ addUpSdu(r, octets).mUpSdu \in Seq(Data)
         /\ addUpSdu(r, octets).mLostPdu = r.mLostPdu
<1> DEFINE up == IF r.mUpSdu = NoSdu THEN octets ELSE r.mUpSdu \o octets
           a == addUpSdu(r, octets)
<1>1. up \in Seq(Data)
  BY ReceiverType, ConcatProperties
<1>2. a = [r EXCEPT !.mUpSdu = up]
  BY DEF addUpSdu
<1> HIDE DEF up, a
<1>4. a = [mUpSdu |-> up, mLostPdu |-> r.mLostPdu, sent |-> r.sent]
  BY <1>2, ReceiverWith
<1>3. a \in Receiver /\ a.mUpSdu \in Seq(Data) /\ a.mLostPdu = r.mLostPdu
  BY <1>1, <1>4, ReceiverType, ReceiverIs
<1> QED BY <1>3 DEF a

LEMMA SendSduType ==
  ASSUME NEW r \in Receiver, r.mUpSdu \in Seq(Data)
  PROVE  /\ sendSdu(r) \in Receiver /\ sendSdu(r).mUpSdu = NoSdu
         /\ sendSdu(r).mLostPdu = r.mLostPdu
<1> DEFINE s == Append(r.sent, r.mUpSdu)
           a == sendSdu(r)
<1>1. s \in Seq(Seq(Data))
  BY ReceiverType, AppendProperties
<1>2. a = [mUpSdu |-> NoSdu, mLostPdu |-> r.mLostPdu, sent |-> s]
  <2>1. a = [[r EXCEPT !.sent = s] EXCEPT !.mUpSdu = NoSdu]
    BY DEF sendSdu
  <2> HIDE DEF s, a
  <2>2. [r EXCEPT !.sent = s] = [mUpSdu |-> r.mUpSdu, mLostPdu |-> r.mLostPdu, sent |-> s]
    BY ReceiverWith
  <2> QED BY <2>1, <2>2
<1> HIDE DEF s, a
<1>3. a \in Receiver /\ a.mUpSdu = NoSdu /\ a.mLostPdu = r.mLostPdu
  BY <1>1, <1>2, ReceiverType, ReceiverIs
<1> QED BY <1>3 DEF a

LEMMA FrontType ==
  ASSUME NEW s \in Seq(Data) PROVE Front(s) \in Seq(Data)
<1>1. Len(s) \in Nat
  BY LenProperties
<1>2. 1 \in Int /\ Len(s) - 1 \in Int /\ \A i \in 1 .. Len(s) - 1 : i \in 1 .. Len(s)
  BY <1>1, SMT
<1>3. \A i \in 1 .. Len(s) - 1 : s[i] \in Data
  BY <1>2, ElementOfSeq
<1> QED BY <1>2, <1>3, SubSeqProperties DEF Front

\* The first length indicator ends the loss.
LEMMA StartSduType ==
  ASSUME NEW c, NEW li, NEW r, Clean(r)
  PROVE  StartSdu(c, r, li) \in Receiver /\ StartSdu(c, r, li).mLostPdu = FALSE
<1> DEFINE chopped == IF li = ShortLI THEN ChopOneByteOffSdu(r) ELSE r
           found == [chopped EXCEPT !.mLostPdu = FALSE]
<1>1. r \in Receiver
  BY DEF Clean
<1>2. chopped \in Receiver
  <2>1. r.mUpSdu \notin {NoSdu, <<>>} => [r EXCEPT !.mUpSdu = Front(@)] \in Receiver
    <3> SUFFICES ASSUME r.mUpSdu \notin {NoSdu, <<>>}
                 PROVE  [r EXCEPT !.mUpSdu = Front(@)] \in Receiver
      OBVIOUS
    <3>1. Front(r.mUpSdu) \in Seq(Data)
      BY <1>1, ReceiverType, FrontType
    <3>2. [r EXCEPT !.mUpSdu = Front(@)]
            = [mUpSdu |-> Front(r.mUpSdu), mLostPdu |-> r.mLostPdu, sent |-> r.sent]
      BY <1>1, ReceiverType
    <3> QED BY <1>1, <3>1, <3>2, ReceiverType, ReceiverIs
  <2> QED BY <1>1, <2>1 DEF ChopOneByteOffSdu
<1>3. StartSdu(c, r, li) = IF found.mUpSdu = NoSdu THEN found ELSE sendSdu(found)
  BY DEF StartSdu
<1> HIDE DEF chopped
<1>4. found \in Receiver /\ found.mLostPdu = FALSE
  <2>1. found = [mUpSdu |-> chopped.mUpSdu, mLostPdu |-> FALSE, sent |-> chopped.sent]
    BY <1>2, ReceiverWith
  <2>2. chopped.mUpSdu \in Seq(Data) \cup {NoSdu} /\ chopped.sent \in Seq(Seq(Data))
    BY <1>2, ReceiverType
  <2> HIDE DEF found
  <2>3. found \in Receiver
    BY <2>1, <2>2, ReceiverIs
  <2> QED BY <2>1, <2>3
<1> HIDE DEF found
<1>5. CASE found.mUpSdu = NoSdu
  BY <1>3, <1>4, <1>5
<1>6. CASE found.mUpSdu # NoSdu
  <2>1. found.mUpSdu \in Seq(Data)
    BY <1>4, <1>6, ReceiverType
  <2> QED BY <1>3, <1>4, <1>6, <2>1, SendSduType
<1> QED BY <1>5, <1>6

\* Another one too, and drops the rest of the SDU it ends.
LEMMA EndSduType ==
  ASSUME NEW r, Clean(r), NEW segment \in Seq(Data)
  PROVE  EndSdu(r, segment) \in Receiver /\ EndSdu(r, segment).mLostPdu = FALSE
<1>1. r \in Receiver
  BY DEF Clean
<1>2. CASE r.mLostPdu
  <2> DEFINE e == EndSdu(r, segment)
  <2>1. e = [r EXCEPT !.mLostPdu = FALSE]
    BY <1>2 DEF EndSdu
  <2> HIDE DEF e
  <2>2. e = [mUpSdu |-> r.mUpSdu, mLostPdu |-> FALSE, sent |-> r.sent]
    BY <1>1, <2>1, ReceiverWith
  <2>3. r.mUpSdu \in Seq(Data) \cup {NoSdu} /\ r.sent \in Seq(Seq(Data))
    BY <1>1, ReceiverType
  <2>4. e \in Receiver
    BY <2>2, <2>3, ReceiverIs
  <2> QED BY <2>2, <2>4 DEF e
<1>3. CASE ~r.mLostPdu
  <2>1. EndSdu(r, segment) = sendSdu(addUpSdu(r, segment))
    BY <1>3 DEF EndSdu
  <2>2. r.mLostPdu = FALSE
    BY <1>1, <1>3, ReceiverType
  <2> QED BY <1>1, <2>1, <2>2, AddUpSduType, SendSduType
<1> QED BY <1>2, <1>3

\* The state of the loop over the length indicators: cut is whether one of
\* them has been looked at, the first included.
CutOk(cut, s) ==
  /\ s \in [recv : Receiver, payload : Seq(Data), end : BOOLEAN]
  /\ Clean(s.recv)
  /\ s.end => cut
  /\ cut => (s.recv.mLostPdu => s.payload = <<>>)

LEMMA CutSegmentOk ==
  ASSUME NEW c, NEW li \in Nat, NEW s, NEW cut \in BOOLEAN, CutOk(cut, s)
  PROVE  CutOk(TRUE, CutSegment(c, s, li))
<1>1. CASE s.end
  BY <1>1 DEF CutSegment, CutOk
<1>2. CASE ~s.end /\ li = Field(c, PaddingLI)
  <2> DEFINE g == [s EXCEPT !.payload = <<>>, !.end = TRUE]
  <2>1. CutSegment(c, s, li) = g
    BY <1>2 DEF CutSegment
  <2> QED
    <3>1. g.recv = s.recv /\ g.payload = <<>> /\ g.end = TRUE
      BY DEF CutOk
    <3>2. g \in [recv : Receiver, payload : Seq(Data), end : BOOLEAN]
      BY EmptySeq DEF CutOk
    <3> HIDE DEF g
    <3> QED BY <2>1, <3>1, <3>2 DEF CutOk
<1>3. CASE ~s.end /\ li # Field(c, PaddingLI)
  <2> DEFINE len == IF li > Len(s.payload) THEN Len(s.payload) ELSE li
             e == EndSdu(s.recv, SubSeq(s.payload, 1, len))
             p == SubSeq(s.payload, len + 1, Len(s.payload))
  <2>1. CutSegment(c, s, li) = [recv |-> e, payload |-> p, end |-> li > Len(s.payload)]
    BY <1>3 DEF CutSegment
  <2>2. s.payload \in Seq(Data) /\ Len(s.payload) \in Nat
    BY LenProperties DEF CutOk
  <2>3. /\ 1 \in Int /\ len \in Int /\ len + 1 \in Int /\ Len(s.payload) \in Int
        /\ \A i \in 1 .. len : i \in 1 .. Len(s.payload)
        /\ \A i \in len + 1 .. Len(s.payload) : i \in 1 .. Len(s.payload)
    BY <2>2, SMT
  <2> HIDE DEF len
  <2>4. SubSeq(s.payload, 1, len) \in Seq(Data) /\ p \in Seq(Data)
    BY <2>2, <2>3, ElementOfSeq, SubSeqProperties
  <2>5. e \in Receiver /\ e.mLostPdu = FALSE
    BY <2>4, EndSduType DEF CutOk
  <2> HIDE DEF e, p
  <2>6. (li > Len(s.payload)) \in BOOLEAN
    OBVIOUS
  <2> QED BY <2>1, <2>4, <2>5, <2>6 DEF CutOk, Clean
<1> QED BY <1>1, <1>2, <1>3 DEF CutOk

\* The parts of what parsePduData does, by name.
Kept(pdu) == SubSeq(pdu.vli, 1, Min({LiRx, Len(pdu.vli)}))
Starts(c, pdu) == Kept(pdu)[1] \in {ExactLI, ShortLI, Field(c, StartLI)}
Lis(c, pdu) == IF Starts(c, pdu) THEN Tail(Kept(pdu)) ELSE Kept(pdu)
Uncut(c, r, pdu) ==
  [ recv |-> IF Starts(c, pdu) THEN StartSdu(c, r, Kept(pdu)[1]) ELSE r,
    payload |-> pdu.data, end |-> FALSE ]

IsCutting(f, c, s, lis) ==
  f = [n \in 0 .. Len(lis) |-> IF n = 0 THEN s ELSE CutSegment(c, f[n - 1], lis[n])]

LEMMA CuttingAt ==
  ASSUME NEW f, NEW c, NEW s, NEW lis, IsCutting(f, c, s, lis)
  PROVE  \A n \in 0 .. Len(lis) : f[n] = IF n = 0 THEN s ELSE CutSegment(c, f[n - 1], lis[n])
BY Zenon DEF IsCutting

LEMMA CuttingExists ==
  ASSUME NEW c, NEW s, NEW lis, Len(lis) \in Nat PROVE \E f : IsCutting(f, c, s, lis)
<1> DEFINE Is(f, n) == f = [k \in 0 .. n |-> IF k = 0 THEN s ELSE CutSegment(c, f[k - 1], lis[k])]
           T == {n \in Nat : \E f : Is(f, n)}
<1>1. 0 \in T
  <2> DEFINE f == [k \in 0 .. 0 |-> s]
  <2>1. 0 .. 0 = {0}
    BY SMT
  <2>2. Is(f, 0)
    BY <2>1
  <2> HIDE DEF Is, f
  <2> QED BY <2>2
<1>2. ASSUME NEW n \in Nat, n \in T PROVE n + 1 \in T
  <2>1. PICK f : Is(f, n)
    BY <1>2
  <2> DEFINE e == CutSegment(c, f[n], lis[n + 1])
             g == [k \in 0 .. n + 1 |-> IF k = n + 1 THEN e ELSE f[k]]
  <2>2. ASSUME NEW k \in 0 .. n + 1
        PROVE  g[k] = IF k = 0 THEN s ELSE CutSegment(c, g[k - 1], lis[k])
    <3>1. CASE k = n + 1
      <4>1. k # 0 /\ n \in 0 .. n + 1 /\ n # n + 1 /\ k - 1 = n
        BY <3>1, SMT
      <4>2. g[k - 1] = f[n]
        BY <4>1
      <4> QED BY <3>1, <4>1, <4>2
    <3>2. CASE k # n + 1
      <4>1. k \in 0 .. n /\ (k # 0 => k - 1 \in 0 .. n + 1 /\ k - 1 # n + 1)
        BY <3>2, SMT
      <4>2. f[k] = IF k = 0 THEN s ELSE CutSegment(c, f[k - 1], lis[k])
        BY <2>1, <4>1
      <4> QED BY <3>2, <4>1, <4>2
    <3> QED BY <3>1, <3>2
  <2>3. Is(g, n + 1)
    <3> HIDE DEF e
    <3> QED BY <2>2
  <2> HIDE DEF Is, g
  <2> QED BY <2>3
<1> HIDE DEF T
<1>3. Len(lis) \in T
  <2>1. \A m \in 0 .. Len(lis) - 1 : m \in T => m + 1 \in T
    BY <1>2, SMT
  <2>2. \A m \in 0 .. Len(lis) : m \in T
    BY <1>1, <2>1, UpTo
  <2> QED BY <2>2, SMT
<1> QED BY <1>3 DEF T, IsCutting

Cutting(c, s, lis) == CHOOSE f : IsCutting(f, c, s, lis)

LEMMA ParseIs ==
  ASSUME NEW c, NEW r, NEW pdu
  PROVE  LET lis == Lis(c, pdu)
             last == Cutting(c, Uncut(c, r, pdu), lis)[Len(lis)]
         IN  parsePduData(c, r, pdu) =
               IF pdu.vli = <<>>
               THEN IF r.mLostPdu THEN r ELSE addUpSdu(r, pdu.data)
               ELSE IF last.payload = <<>> THEN last.recv ELSE addUpSdu(last.recv, last.payload)
BY DEF parsePduData, Kept, Starts, Lis, Uncut, Cutting, IsCutting

\* The loop leaves its state in order.
LEMMA CuttingOk ==
  ASSUME NEW c, NEW s, NEW lis \in Seq(Nat), NEW cut \in BOOLEAN, CutOk(cut, s),
         cut \/ lis # <<>>
  PROVE  CutOk(TRUE, Cutting(c, s, lis)[Len(lis)])
<1> DEFINE f == Cutting(c, s, lis)
           Late(n) == cut \/ n > 0
           T == {n \in 0 .. Len(lis) : CutOk(Late(n), f[n])}
<1>1. Len(lis) \in Nat /\ (lis # <<>> => Len(lis) > 0)
  BY LenProperties, EmptySeq, SMT
<1>2. IsCutting(f, c, s, lis)
  BY <1>1, CuttingExists, Zenon DEF Cutting
<1> HIDE DEF f
<1>3. \A n \in 0 .. Len(lis) : f[n] = IF n = 0 THEN s ELSE CutSegment(c, f[n - 1], lis[n])
  BY <1>2, CuttingAt
<1>4. 0 \in T
  <2>1. 0 \in 0 .. Len(lis) /\ ~(0 > 0)
    BY <1>1, SMT
  <2>2. f[0] = s /\ Late(0) = cut
    BY <1>3, <2>1
  <2> QED BY <2>1, <2>2
<1>5. ASSUME NEW n \in 0 .. Len(lis) - 1, n \in T PROVE n + 1 \in T
  <2> DEFINE k == n + 1
  <2>1. k \in 0 .. Len(lis) /\ k \in 1 .. Len(lis) /\ k # 0 /\ k > 0 /\ k - 1 = n
    BY <1>1, SMT
  <2>2. Late(n) \in BOOLEAN /\ CutOk(Late(n), f[n])
    BY <1>5
  <2> HIDE DEF k, Late
  <2>3. lis[k] \in Nat
    BY <2>1, ElementOfSeq
  <2>4. CutOk(TRUE, CutSegment(c, f[n], lis[k]))
    BY <2>2, <2>3, CutSegmentOk
  <2>5. f[k] = CutSegment(c, f[n], lis[k])
    BY <1>3, <2>1
  <2>6. Late(k) = TRUE
    BY <2>1 DEF Late
  <2>7. k \in T
    BY <2>1, <2>4, <2>5, <2>6
  <2> QED BY <2>7 DEF k
<1>6. Len(lis) \in T
  <2>1. \A n \in 0 .. Len(lis) : n \in T
    <3> HIDE DEF T
    <3> QED BY <1>1, <1>4, <1>5, UpTo
  <2> QED BY <1>1, <2>1, SMT
<1>7. Late(Len(lis)) = TRUE
  BY <1>1
<1> HIDE DEF Late
<1>8. CutOk(TRUE, f[Len(lis)])
  BY <1>6, <1>7
<1> QED BY <1>8 DEF f

LEMMA KeptType ==
  ASSUME NEW pdu \in Pdu, pdu.vli # <<>>
  PROVE  Kept(pdu) \in Seq(Nat) /\ Kept(pdu) # <<>> /\ Len(Kept(pdu)) \in Nat \ {0}
<1> DEFINE n == Len(pdu.vli)
           m == Min({LiRx, n})
           v == pdu.vli
<1>1. v \in Seq(LiValues)
  BY DEF Pdu, LiValues
<1>2. LiValues \subseteq Nat
  BY SMT DEF LiValues
<1>3. v \in Seq(Nat)
  BY <1>1, <1>2, SeqMonotonic
<1>4. n \in Nat /\ n > 0
  BY <1>3, LenProperties, EmptySeq, SMT
<1>5. LiRx \in Nat /\ LiRx > 0
  BY SMT DEF LiRx
<1>6. m \in {LiRx, n} /\ m <= n
  <2> DEFINE l == LiRx
  <2>1. l \in Nat
    BY <1>5
  <2> HIDE DEF l, n
  <2>2. \E x \in {l, n} : \A y \in {l, n} : x <= y
    BY <1>4, <2>1, SMT
  <2> DEFINE k == CHOOSE x \in {l, n} : \A y \in {l, n} : x <= y
  <2>3. k \in {l, n} /\ \A y \in {l, n} : k <= y
    BY <2>2, Zenon
  <2>4. k = Min({l, n})
    BY DEF Min
  <2> QED BY <2>3, <2>4 DEF l
<1>7. Kept(pdu) = SubSeq(v, 1, m)
  BY DEF Kept
<1> HIDE DEF n, m, v
<1>8. /\ 1 \in Int /\ m \in Int /\ m > 0 /\ (\A i \in 1 .. m : i \in 1 .. n)
      /\ (IF 1 <= m THEN m - 1 + 1 ELSE 0) = m
  BY <1>4, <1>5, <1>6, SMT
<1>9. \A i \in 1 .. m : v[i] \in Nat
  BY <1>3, <1>8, ElementOfSeq DEF n, v
<1>10. SubSeq(v, 1, m) \in Seq(Nat) /\ Len(SubSeq(v, 1, m)) = m
  BY <1>8, <1>9, SubSeqProperties
<1>11. m \in Nat \ {0}
  BY <1>8, SMT
<1> QED BY <1>7, <1>10, <1>11, EmptySeq

LEMMA LisType ==
  ASSUME NEW c, NEW pdu \in Pdu, pdu.vli # <<>>
  PROVE  Lis(c, pdu) \in Seq(Nat) /\ (~Starts(c, pdu) => Lis(c, pdu) # <<>>)
<1>1. Kept(pdu) \in Seq(Nat) /\ Kept(pdu) # <<>>
  BY KeptType
<1>2. Tail(Kept(pdu)) \in Seq(Nat)
  BY <1>1, HeadTailProperties
<1> QED BY <1>1, <1>2 DEF Lis

\* The receiver stays one, and one that holds nothing while it knows of a loss.
LEMMA Parsed ==
  ASSUME NEW c, NEW r, Clean(r), NEW pdu \in Pdu
  PROVE  Clean(parsePduData(c, r, pdu))
<1> DEFINE lis == Lis(c, pdu)
           s == Uncut(c, r, pdu)
           last == Cutting(c, s, lis)[Len(lis)]
<1>1. r \in Receiver /\ pdu.data \in Seq(Data)
  BY DEF Clean, Pdu, Data
<1>2. parsePduData(c, r, pdu) =
        IF pdu.vli = <<>>
        THEN IF r.mLostPdu THEN r ELSE addUpSdu(r, pdu.data)
        ELSE IF last.payload = <<>> THEN last.recv ELSE addUpSdu(last.recv, last.payload)
  BY ParseIs
<1>3. CASE pdu.vli = <<>>
  <2>1. CASE r.mLostPdu
    BY <1>2, <1>3, <2>1
  <2>2. CASE ~r.mLostPdu
    <3>1. r.mLostPdu = FALSE
      BY <1>1, <2>2, ReceiverType
    <3> QED BY <1>1, <1>2, <1>3, <2>2, <3>1, AddUpSduType DEF Clean
  <2> QED BY <2>1, <2>2
<1>4. CASE pdu.vli # <<>>
  <2> DEFINE cut == Starts(c, pdu)
  <2>1. cut \in BOOLEAN
    BY DEF Starts
  <2>2. lis \in Seq(Nat) /\ (cut \/ lis # <<>>)
    BY <1>4, LisType
  <2>3. CutOk(cut, s)
    <3> DEFINE v == IF cut THEN StartSdu(c, r, Kept(pdu)[1]) ELSE r
    <3>1. s = [recv |-> v, payload |-> pdu.data, end |-> FALSE]
      BY DEF Uncut
    <3>2. Clean(v) /\ (cut => v.mLostPdu = FALSE)
      BY StartSduType DEF Clean
    <3> HIDE DEF v, s, cut
    <3> QED BY <1>1, <3>1, <3>2 DEF CutOk, Clean
  <2> HIDE DEF lis, s, cut
  <2>4. CutOk(TRUE, last)
    BY <2>1, <2>2, <2>3, CuttingOk
  <2> HIDE DEF last
  <2>5. last.recv \in Receiver /\ Clean(last.recv) /\ last.payload \in Seq(Data)
        /\ (last.recv.mLostPdu => last.payload = <<>>)
    BY <2>4 DEF CutOk
  <2>6. CASE last.payload = <<>>
    BY <1>2, <1>4, <2>5, <2>6
  <2>7. CASE last.payload # <<>>
    <3>1. last.recv.mLostPdu = FALSE
      BY <2>5, <2>7, ReceiverType
    <3> QED BY <1>2, <1>4, <2>5, <2>7, <3>1, AddUpSduType DEF Clean
  <2> QED BY <2>6, <2>7
<1> QED BY <1>3, <1>4

LEMMA ForReceiverType ==
  ASSUME NEW pdu \in Pdu PROVE ForReceiver(pdu) \in Pdu
<1>1. pdu.data \in Seq(Data)
  BY DEF Pdu, Data
<1>2. Front(pdu.data) \in Seq(Data)
  BY <1>1, FrontType
<1> DEFINE v == 0 .. 32767
           d == Front(pdu.data)
           p == [pdu EXCEPT !.data = d]
<1>3. Pdu = [vli : Seq(v), data : Seq(Octet \cup {Fill})]
  BY DEF Pdu
<1>4. d \in Seq(Octet \cup {Fill})
  BY <1>2 DEF Data
<1> HIDE DEF v, d
<1>5. p \in Pdu
  BY <1>3, <1>4
<1>6. ForReceiver(pdu) \in {p, pdu}
  BY DEF ForReceiver, d
<1> QED BY <1>5, <1>6

\* Whatever was lost before it.
LEMMA ReceivedClean ==
  ASSUME NEW r, Clean(r), NEW sn, NEW pdu \in Pdu
  PROVE  Clean(Received(r, sn, pdu))
<1> DEFINE gap == mConfig.rlcMode = "UM" /\ sn # mVRUS
           d == discardPartialSdu(r)
           known == IF gap THEN [d EXCEPT !.mLostPdu = TRUE] ELSE r
<1>1. r \in Receiver
  BY DEF Clean
<1>2. d \in Receiver /\ d.mUpSdu = NoSdu
  <2>1. d = [mUpSdu |-> NoSdu, mLostPdu |-> r.mLostPdu, sent |-> r.sent]
    BY <1>1, ReceiverWith DEF discardPartialSdu
  <2>2. r.mLostPdu \in BOOLEAN /\ r.sent \in Seq(Seq(Data)) /\ NoSdu \in Seq(Data) \cup {NoSdu}
    BY <1>1, ReceiverType
  <2> HIDE DEF d
  <2>3. d \in Receiver
    BY <2>1, <2>2, ReceiverIs
  <2> QED BY <2>1, <2>3
<1> HIDE DEF d
<1>3. Clean([d EXCEPT !.mLostPdu = TRUE])
  <2> DEFINE e == [d EXCEPT !.mLostPdu = TRUE]
  <2>1. e = [mUpSdu |-> d.mUpSdu, mLostPdu |-> TRUE, sent |-> d.sent]
    BY <1>2, ReceiverWith
  <2>2. d.sent \in Seq(Seq(Data)) /\ d.mUpSdu \in Seq(Data) \cup {NoSdu}
    BY <1>2, ReceiverType
  <2> HIDE DEF e
  <2>3. e \in Receiver
    BY <2>1, <2>2, ReceiverIs
  <2>4. Clean(e)
    BY <1>2, <2>1, <2>3 DEF Clean
  <2> QED BY <2>4 DEF e
<1>4. Clean(known)
  BY <1>3
<1>5. Received(r, sn, pdu) = parsePduData(mConfig, known, ForReceiver(pdu))
  BY DEF Received, d
<1> HIDE DEF known
<1> QED BY <1>4, <1>5, Parsed, ForReceiverType

-----------------------------------------------------------------------------
(* Which SDUs octets are of.                                               *)

LEMMA RangeOfFlatten ==
  ASSUME NEW S, NEW seqs \in Seq(Seq(S)), NEW x
  PROVE  x \in Range(FlattenSeq(seqs)) <=> \E k \in 1 .. Len(seqs) : x \in Range(seqs[k])
<1> DEFINE Has(m) == (x \in Range(FlattenSeq(SubSeq(seqs, 1, m)))
                        <=> \E k \in 1 .. m : x \in Range(seqs[k]))
           T == {m \in 0 .. Len(seqs) : Has(m)}
<1>1. Len(seqs) \in Nat
  BY LenProperties
<1>2. 0 \in T
  <2>1. 0 \in 0 .. Len(seqs) /\ 1 .. 0 = {}
    BY <1>1, SMT
  <2>2. SubSeq(seqs, 1, 0) = <<>>
    BY SubSeqEmpty, SMT
  <2>3. Range(<<>>) = {}
    BY DEF Range
  <2>4. Has(0)
    BY <2>1, <2>2, <2>3, FlattenEmpty
  <2> QED BY <2>1, <2>4
<1>3. ASSUME NEW m \in 0 .. Len(seqs) - 1, m \in T PROVE m + 1 \in T
  <2> DEFINE n == m + 1
  <2>1. n \in 0 .. Len(seqs) /\ \A k : k \in 1 .. n <=> k \in 1 .. m \/ k = n
    BY <1>1, SMT
  <2>2. /\ SubSeq(seqs, 1, n) = Append(SubSeq(seqs, 1, m), seqs[n])
        /\ SubSeq(seqs, 1, m) \in Seq(Seq(S)) /\ seqs[n] \in Seq(S)
    BY OneMore
  <2> HIDE DEF n
  <2> DEFINE u == SubSeq(seqs, 1, m)
  <2> HIDE DEF u
  <2>3. FlattenSeq(Append(u, seqs[n])) = FlattenSeq(u) \o seqs[n]
    BY <2>2, FlattenAppend DEF u
  <2>4. FlattenSeq(u) \in Seq(S)
    BY <2>2, FlattenType DEF u
  <2>5. Range(FlattenSeq(u) \o seqs[n]) = Range(FlattenSeq(u)) \cup Range(seqs[n])
    BY <2>2, <2>4, RangeConcatenation
  <2>6. x \in Range(FlattenSeq(u)) <=> \E k \in 1 .. m : x \in Range(seqs[k])
    BY <1>3 DEF u
  <2>7. FlattenSeq(SubSeq(seqs, 1, n)) = FlattenSeq(u) \o seqs[n]
    BY <2>2, <2>3 DEF u
  <2>8. x \in Range(FlattenSeq(SubSeq(seqs, 1, n)))
          <=> x \in Range(FlattenSeq(u)) \/ x \in Range(seqs[n])
    BY <2>5, <2>7
  <2>9. Has(n)
    BY <2>1, <2>6, <2>8
  <2>10. n \in T
    BY <2>1, <2>9
  <2> QED BY <2>10 DEF n
<1>4. Has(Len(seqs))
  <2>1. \A m \in 0 .. Len(seqs) : m \in T
    <3> HIDE DEF T
    <3> QED BY <1>1, <1>2, <1>3, UpTo
  <2>2. Len(seqs) \in 0 .. Len(seqs)
    BY <1>1, SMT
  <2> QED BY <2>1, <2>2
<1> QED BY <1>4, SubSeqFull

LEMMA SdusOfIs ==
  ASSUME NEW S, NEW s \in Seq(S), NEW x
  PROVE  x \in SdusOf(s) <=> x # 0 /\ \E i \in 1 .. Len(s) : x = s[i][1]
<1>1. Range(s) = {s[i] : i \in 1 .. Len(s)}
  BY RangeEquality
<1> QED BY <1>1 DEF SdusOf

LEMMA SdusOfFlatten ==
  ASSUME NEW S, NEW seqs \in Seq(Seq(S)), NEW x
  PROVE  x \in SdusOf(FlattenSeq(seqs)) <=> \E k \in 1 .. Len(seqs) : x \in SdusOf(seqs[k])
<1>1. \A o : o \in Range(FlattenSeq(seqs)) <=> \E k \in 1 .. Len(seqs) : o \in Range(seqs[k])
  BY RangeOfFlatten
<1> QED BY <1>1 DEF SdusOf

\* Part of an SDU is of no other one.
LEMMA SdusOfPart ==
  ASSUME NEW S, NEW s \in Seq(S), NEW a \in Nat \ {0}, NEW b \in 0 .. Len(s), NEW x
  PROVE  x \in SdusOf(SubSeq(s, a, b)) => x \in SdusOf(s)
<1>1. Len(s) \in Nat
  BY LenProperties
<1>2. a \in Int /\ b \in Int /\ \A i \in a .. b : i \in 1 .. Len(s)
  BY <1>1, SMT
<1>3. \A i \in a .. b : s[i] \in S
  BY <1>2, ElementOfSeq
<1>4. /\ SubSeq(s, a, b) \in Seq(S)
      /\ Len(SubSeq(s, a, b)) = IF a <= b THEN b - a + 1 ELSE 0
      /\ \A i \in 1 .. b - a + 1 : SubSeq(s, a, b)[i] = s[a + i - 1]
  BY <1>2, <1>3, SubSeqProperties
<1> SUFFICES ASSUME x \in SdusOf(SubSeq(s, a, b)) PROVE x \in SdusOf(s)
  OBVIOUS
<1>5. x # 0 /\ \E i \in 1 .. Len(SubSeq(s, a, b)) : x = SubSeq(s, a, b)[i][1]
  BY <1>4, SdusOfIs
<1>6. PICK i \in 1 .. Len(SubSeq(s, a, b)) : x = SubSeq(s, a, b)[i][1]
  BY <1>5
<1>7. i \in 1 .. b - a + 1 /\ a + i - 1 \in 1 .. Len(s)
  BY <1>1, <1>4, <1>6, SMT
<1>8. x = s[a + i - 1][1]
  BY <1>4, <1>6, <1>7
<1> QED BY <1>5, <1>7, <1>8, SdusOfIs

LEMMA SdusOfConcat ==
  ASSUME NEW S, NEW s \in Seq(S), NEW u \in Seq(S), NEW x
  PROVE  x \in SdusOf(s \o u) <=> x \in SdusOf(s) \/ x \in SdusOf(u)
<1>1. Range(s \o u) = Range(s) \cup Range(u)
  BY RangeConcatenation
<1> QED BY <1>1 DEF SdusOf

\* An SDU has an octet, and so a number.
LEMMA SduHasNumber ==
  ASSUME NEW sdu \in SduData PROVE \E x \in Nat \ {0} : x \in SdusOf(sdu)
<1>1. sdu \in Seq(Octet) /\ Len(sdu) \in Nat /\ Len(sdu) > 0
  BY SduDataType
<1>2. 1 \in 1 .. Len(sdu)
  BY <1>1, SMT
<1>3. sdu[1] \in Octet
  BY <1>1, <1>2, ElementOfSeq
<1>4. sdu[1][1] \in Nat \ {0}
  BY <1>3 DEF Octet
<1>5. sdu[1][1] \in SdusOf(sdu)
  BY <1>1, <1>2, <1>4, SdusOfIs
<1> QED BY <1>4, <1>5

\* SDUs of the n written, no two the same.
Apart(sdus, n) ==
  /\ sdus \in Seq(SduData)
  /\ \A k \in 1 .. Len(sdus) : \A x : x \in SdusOf(sdus[k]) => x \in 1 .. n
  /\ \A k, l \in 1 .. Len(sdus) : \A x :
       x \in SdusOf(sdus[k]) /\ x \in SdusOf(sdus[l]) => k = l

LEMMA ApartRest ==
  ASSUME NEW n \in Nat, NEW sdus, Apart(sdus, n), NEW m \in 0 .. Len(sdus)
  PROVE  LET rest == SubSeq(sdus, m + 1, Len(sdus))
         IN  /\ Apart(rest, n) /\ Len(rest) = Len(sdus) - m
             /\ \A i \in 1 .. Len(rest) : rest[i] = sdus[m + i] /\ m + i \in m + 1 .. Len(sdus)
<1> DEFINE l == Len(sdus)
           rest == SubSeq(sdus, m + 1, l)
<1>1. sdus \in Seq(SduData) /\ l \in Nat
  BY LenProperties DEF Apart
<1>2. m + 1 \in Int /\ l \in Int /\ (\A i \in m + 1 .. l : i \in 1 .. l) /\ m \in Nat
  BY <1>1, SMT
<1>3. \A i \in m + 1 .. l : sdus[i] \in SduData
  BY <1>1, <1>2, ElementOfSeq
<1>4. /\ rest \in Seq(SduData)
      /\ Len(rest) = IF m + 1 <= l THEN l - (m + 1) + 1 ELSE 0
      /\ \A i \in 1 .. l - (m + 1) + 1 : rest[i] = sdus[m + 1 + i - 1]
  BY <1>2, <1>3, SubSeqProperties
<1> HIDE DEF rest, l
<1>5. Len(rest) = l - m
  BY <1>1, <1>2, <1>4, SMT DEF l
<1>6. ASSUME NEW i \in 1 .. Len(rest) PROVE rest[i] = sdus[m + i] /\ m + i \in m + 1 .. l /\ m + i \in 1 .. l
  <2>1. i \in 1 .. l - (m + 1) + 1 /\ m + 1 + i - 1 = m + i /\ m + i \in m + 1 .. l /\ m + i \in 1 .. l
    BY <1>1, <1>2, <1>5, SMT
  <2> QED BY <1>4, <2>1
<1>7. \A k \in 1 .. Len(rest) : \A x : x \in SdusOf(rest[k]) => x \in 1 .. n
  BY <1>6 DEF Apart, l
<1>8. ASSUME NEW k \in 1 .. Len(rest), NEW j \in 1 .. Len(rest), NEW x,
             x \in SdusOf(rest[k]), x \in SdusOf(rest[j])
      PROVE  k = j
  <2>1. m + k = m + j
    BY <1>6, <1>8 DEF Apart, l
  <2> QED BY <1>2, <2>1, SMT
<1>9. Apart(rest, n)
  BY <1>4, <1>7, <1>8 DEF Apart
<1> QED BY <1>5, <1>6, <1>9 DEF rest, l

NewSdu(n, size) == [k \in 1 .. size |-> <<n, k>>]

LEMMA NewSduType ==
  ASSUME NEW n \in Nat \ {0}, NEW size \in Nat \ {0}
  PROVE  /\ NewSdu(n, size) \in SduData /\ Len(NewSdu(n, size)) = size
         /\ \A x : x \in SdusOf(NewSdu(n, size)) <=> x = n
<1> DEFINE s == NewSdu(n, size)
<1>1. s \in [1 .. size -> Octet]
  <2>1. \A k \in 1 .. size : k \in Nat \ {0}
    BY SMT
  <2>2. \A k \in 1 .. size : <<n, k>> \in Octet
    BY <2>1 DEF Octet
  <2> QED BY <2>2 DEF NewSdu
<1>2. \A k \in 1 .. size : s[k] = <<n, k>>
  BY DEF NewSdu
<1> HIDE DEF s
<1>3. s \in Seq(Octet) /\ Len(s) = size
  <2>1. s \in Seq(Octet) /\ DOMAIN s = 1 .. size
    BY <1>1, SeqDef
  <2> QED BY <2>1, LenProperties, SMT
<1>4. s \in SduData
  BY <1>3, EmptySeq DEF SduData
<1>5. \A k \in 1 .. size : s[k][1] = n
  BY <1>2
<1>6. 1 \in 1 .. size /\ n # 0
  BY SMT
<1>7. ASSUME NEW x PROVE x \in SdusOf(s) <=> x = n
  BY <1>3, <1>5, <1>6, SdusOfIs
<1> QED BY <1>3, <1>4, <1>7 DEF s

LEMMA ApartNew ==
  ASSUME NEW n \in Nat, NEW sdus, Apart(sdus, n), NEW size \in Nat \ {0}
  PROVE  Apart(Append(sdus, NewSdu(n + 1, size)), n + 1)
<1> DEFINE e == NewSdu(n + 1, size)
           q == Append(sdus, e)
           m == n + 1
           l == Len(sdus)
<1>1. sdus \in Seq(SduData) /\ l \in Nat
  BY LenProperties DEF Apart
<1>2. m \in Nat \ {0} /\ m \in 1 .. m /\ m \notin 1 .. n /\ \A x : x \in 1 .. n => x \in 1 .. m
  BY SMT
<1>3. e \in SduData /\ \A x : x \in SdusOf(e) <=> x = m
  BY <1>2, NewSduType
<1> HIDE DEF e, m
<1>4. /\ q \in Seq(SduData) /\ Len(q) = l + 1
      /\ (\A i \in 1 .. l : q[i] = sdus[i]) /\ q[l + 1] = e
  BY <1>1, <1>3, AppendProperties
<1> HIDE DEF q
<1>5. \A i \in 1 .. Len(q) : i \in 1 .. l \/ i = l + 1
  <2> HIDE DEF l
  <2> QED BY <1>1, <1>4, SMT
<1> HIDE DEF l
<1>6. ASSUME NEW k \in 1 .. Len(q), NEW x, x \in SdusOf(q[k])
      PROVE  (k \in 1 .. l /\ x \in SdusOf(sdus[k]) /\ x \in 1 .. n) \/ (k = l + 1 /\ x = m)
  <2>1. CASE k \in 1 .. l
    <3>1. x \in SdusOf(sdus[k])
      BY <1>4, <1>6, <2>1
    <3>2. k \in 1 .. Len(sdus)
      BY <2>1 DEF l
    <3>3. x \in 1 .. n
      BY <3>1, <3>2 DEF Apart
    <3> QED BY <2>1, <3>1, <3>3
  <2>2. CASE k = l + 1
    <3>1. x \in SdusOf(e)
      BY <1>4, <1>6, <2>2
    <3> QED BY <1>3, <2>2, <3>1
  <2> QED BY <1>5, <2>1, <2>2
<1>7. \A k \in 1 .. Len(q) : \A x : x \in SdusOf(q[k]) => x \in 1 .. m
  BY <1>2, <1>6
<1>8. ASSUME NEW k \in 1 .. Len(q), NEW j \in 1 .. Len(q), NEW x,
             x \in SdusOf(q[k]), x \in SdusOf(q[j])
      PROVE  k = j
  <2>1. (k \in 1 .. l /\ x \in SdusOf(sdus[k]) /\ x \in 1 .. n) \/ (k = l + 1 /\ x = m)
    BY <1>6, <1>8
  <2>2. (j \in 1 .. l /\ x \in SdusOf(sdus[j]) /\ x \in 1 .. n) \/ (j = l + 1 /\ x = m)
    BY <1>6, <1>8
  <2> QED BY <1>2, <2>1, <2>2 DEF Apart, l
<1>9. Apart(q, m)
  BY <1>4, <1>7, <1>8 DEF Apart
<1> QED BY <1>9 DEF q, e, m

\* What the upper layer's call leaves: the new SDU behind the others, as few
\* as fit gone; all of them only if the new one alone is too long.
LEMMA WriteIs ==
  ASSUME NEW c \in Bearers, NEW t \in Transmitter, NEW sdu \in SduData
  PROVE  LET w == rlcWriteHighSide(c, t, sdu)
             q == Append(All(t), sdu)
         IN  /\ w \in Transmitter /\ w.mLILeftOver = t.mLILeftOver
             /\ \E d \in 0 .. Len(q) :
                  /\ All(w) = SubSeq(q, d + 1, Len(q))
                  /\ d = Len(q) => Len(sdu) > c.mTransmissionBufferSizeBytes
<1> DEFINE w == rlcWriteHighSide(c, t, sdu)
           q == Append(t.mSduTxQ, sdu)
           l == Len(q)
           Fits(n) == ~Overflows(c, SubSeq(q, n + 1, l))
           IsDropped(n) == Fits(n) /\ \A m \in 0 .. n - 1 : ~Fits(m)
           k == CHOOSE n \in 0 .. l : IsDropped(n)
           d == IF t.mSplitSdu # NoSdu THEN 0 ELSE k
<1>1. t.mSduTxQ \in Seq(SduData) /\ t.mVTSDU \in Nat /\ t.mLILeftOver \in 0 .. 2 /\ t.mVTPDU \in Nat
      /\ t.mSplitSdu \in SduData \cup {NoSdu}
  BY DEF Transmitter
<1>2. q \in Seq(SduData) /\ l \in Nat /\ l > 0 /\ q[l] = sdu
  <2>1. q \in Seq(SduData) /\ l = Len(t.mSduTxQ) + 1 /\ q[l] = sdu
    BY <1>1, AppendProperties
  <2>2. Len(t.mSduTxQ) \in Nat
    BY <1>1, LenProperties
  <2> HIDE DEF q
  <2> QED BY <2>1, <2>2, SMT
<1>3. c.mTransmissionBufferSizeBytes \in Nat
  BY BearerType
<1>4. w = [t EXCEPT !.mSduTxQ = SubSeq(q, d + 1, l),
                    !.mVTSDU = @ + (IF d = 0 THEN 0 ELSE d - 1)]
  BY DEF rlcWriteHighSide
<1> HIDE DEF w
<1>5. k \in 0 .. l /\ IsDropped(k)
  <2> HIDE DEF Fits
  <2> DEFINE D == {n \in 0 .. l : Fits(n)}
  <2>1. l \in D
    <3>1. SubSeq(q, l + 1, l) = <<>>
      BY <1>2, SubSeqEmpty, SMT
    <3>2. totalSize(<<>>) = 0
      BY FlattenEmpty, EmptySeq DEF totalSize
    <3>3. Fits(l)
      <4>1. totalSize(SubSeq(q, l + 1, l)) = 0
        BY <3>1, <3>2
      <4>2. ~(0 > c.mTransmissionBufferSizeBytes)
        BY <1>3, SMT
      <4> QED BY <4>1, <4>2 DEF Fits, Overflows
    <3> HIDE DEF q, Fits
    <3> QED BY <1>2, <3>3, SMT
  <2>2. D \in SUBSET Nat
    BY SMT
  <2>3. PICK n \in D : \A m \in D : n <= m
    <3> HIDE DEF D
    <3> QED BY <2>1, <2>2, NatMin
  <2>4. n \in 0 .. l /\ IsDropped(n)
    <3>1. n \in 0 .. l /\ Fits(n)
      BY <2>3
    <3>2. \A m \in 0 .. n - 1 : m \in 0 .. l /\ ~(n <= m)
      <4> HIDE DEF q
      <4> QED BY <1>2, <3>1, SMT
    <3> QED BY <2>3, <3>1, <3>2
  <2> HIDE DEF IsDropped
  <2> QED BY <2>4, Zenon
<1> HIDE DEF k
<1>6. d \in 0 .. l
  <2> HIDE DEF q
  <2> QED BY <1>2, <1>5, SMT
<1>7. d = l => Len(sdu) > c.mTransmissionBufferSizeBytes
  <2> SUFFICES ASSUME d = l PROVE Len(sdu) > c.mTransmissionBufferSizeBytes
    OBVIOUS
  <2>1. d = k /\ k = l
    <3> HIDE DEF q
    <3> QED BY <1>2, SMT
  <2>2. l - 1 \in 0 .. k - 1 /\ l - 1 + 1 = l /\ l \in 1 .. l
    <3> HIDE DEF q
    <3> QED BY <1>2, <2>1, SMT
  <2>3. ~Fits(l - 1)
    BY <1>5, <2>2
  <2>4. SubSeq(q, l, l) = <<sdu>>
    <3> DEFINE o == SubSeq(q, l, l)
    <3>1. l \in Int /\ (\A i \in l .. l : i \in 1 .. l) /\ l <= l /\ l - l + 1 = 1 /\ l + 1 - 1 = l /\ 1 \in 1 .. 1
      <4> HIDE DEF q
      <4> QED BY <1>2, SMT
    <3>2. \A i \in l .. l : q[i] \in SduData
      BY <1>2, <3>1, ElementOfSeq
    <3>3. o \in Seq(SduData) /\ Len(o) = 1 /\ o[1] = sdu
      BY <1>2, <3>1, <3>2, SubSeqProperties
    <3>4. <<sdu>> \in Seq(SduData) /\ Len(<<sdu>>) = 1 /\ <<sdu>>[1] = sdu
      OBVIOUS
    <3> HIDE DEF o
    <3>5. \A i \in 1 .. 1 : i = 1
      BY SMT
    <3> QED BY <3>3, <3>4, <3>5, SeqEqual DEF o
  <2>5. totalSize(<<sdu>>) = Len(sdu)
    <3>1. <<>> \in Seq(Seq(Octet)) /\ sdu \in Seq(Octet)
      BY SduDataType, EmptySeq
    <3>2. FlattenSeq(Append(<<>>, sdu)) = FlattenSeq(<<>>) \o sdu
      BY <3>1, FlattenAppend
    <3>3. Append(<<>>, sdu) = <<sdu>> /\ <<>> \o sdu = sdu
      BY <3>1, ConcatEmptySeq
    <3> QED BY <3>2, <3>3, FlattenEmpty DEF totalSize
  <2>6. Overflows(c, <<sdu>>)
    BY <2>2, <2>3, <2>4
  <2> QED BY <2>5, <2>6 DEF Overflows
<1> HIDE DEF d
<1> DEFINE r == SubSeq(q, d + 1, l)
           v == t.mVTSDU + (IF d = 0 THEN 0 ELSE d - 1)
<1>8. r \in Seq(SduData)
  <2>1. d + 1 \in Int /\ l \in Int /\ \A i \in d + 1 .. l : i \in 1 .. l
    <3> HIDE DEF q
    <3> QED BY <1>2, <1>6, SMT
  <2> QED BY <1>2, <2>1, ElementOfSeq, SubSeqProperties
<1>9. v \in Nat
  <2> HIDE DEF q
  <2> QED BY <1>1, <1>6, SMT
<1>10. /\ w \in Transmitter /\ w.mLILeftOver = t.mLILeftOver
       /\ w.mSduTxQ = r /\ w.mSplitSdu = t.mSplitSdu
  <2>1. w = [t EXCEPT !.mSduTxQ = r, !.mVTSDU = v]
    BY <1>4
  <2> HIDE DEF r, v
  <2> QED BY <1>1, <1>8, <1>9, <2>1 DEF Transmitter
<1>11. CASE t.mSplitSdu # NoSdu
  <2>1. d = 0
    BY <1>11 DEF d
  <2>2. r = q
    <3>1. r = SubSeq(q, 1, Len(q))
      BY <2>1, SMT
    <3> QED BY <1>2, <3>1, SubSeqFull
  <2> DEFINE s == <<t.mSplitSdu>>
             p == Append(All(t), sdu)
  <2>3. s \in Seq(SduData) /\ <<sdu>> \in Seq(SduData)
    BY <1>1, <1>11
  <2>4. All(w) = s \o q /\ All(t) = s \o t.mSduTxQ
    BY <1>10, <1>11, <2>2 DEF All, InProgress
  <2>5. p = (s \o t.mSduTxQ) \o <<sdu>>
    BY <1>1, <2>3, <2>4, ConcatProperties, AppendIsConcat
  <2>6. q = t.mSduTxQ \o <<sdu>>
    BY <1>1, AppendIsConcat
  <2>7. All(w) = p
    BY <1>1, <2>3, <2>4, <2>5, <2>6, ConcatAssociative
  <2>8. p \in Seq(SduData) /\ Len(p) \in Nat \ {0}
    <3>1. p \in Seq(SduData) /\ p # <<>>
      BY AllType, AppendProperties
    <3> HIDE DEF p
    <3> QED BY <3>1, EmptySeq
  <2> HIDE DEF p
  <2>9. All(w) = SubSeq(p, 0 + 1, Len(p)) /\ 0 \in 0 .. Len(p) /\ 0 # Len(p)
    <3>1. SubSeq(p, 1, Len(p)) = p
      BY <2>8, SubSeqFull
    <3> QED BY <2>7, <2>8, <3>1, SMT
  <2> QED BY <1>10, <2>9 DEF w, p
<1>12. CASE t.mSplitSdu = NoSdu
  <2>1. All(t) = t.mSduTxQ /\ All(w) = r
    <3>1. InProgress(t) = <<>> /\ InProgress(w) = <<>>
      BY <1>10, <1>12 DEF InProgress
    <3> QED BY <1>1, <1>8, <1>10, <3>1, ConcatEmptySeq DEF All
  <2>2. \E n \in 0 .. Len(q) : /\ All(w) = SubSeq(q, n + 1, Len(q))
                               /\ n = Len(q) => Len(sdu) > c.mTransmissionBufferSizeBytes
    BY <1>6, <1>7, <2>1
  <2> QED BY <1>10, <2>1, <2>2 DEF w
<1> QED BY <1>11, <1>12

\* What fillPduData leaves is the rest of the SDUs and what is left of the
\* last one cut up; the PDU has octets of those that were there.
LEMMA FillApart ==
  ASSUME NEW c \in Bearers, NEW t \in Transmitter, NEW n \in Nat, Apart(All(t), n)
  PROVE  LET w == fillPduData(c, t).trans
             all == All(t)
         IN  /\ Apart(All(w), n)
             /\ \A x : x \in SdusOf(fillPduData(c, t).pdu.data) => x \in 1 .. n
             /\ \A k \in 1 .. Len(All(w)) : \A x : x \in SdusOf(All(w)[k]) =>
                  \E j \in 1 .. Len(all) : x \in SdusOf(all[j])
             /\ w.mLILeftOver # 0 =>
                  \E j \in 1 .. Len(all) : \A k \in 1 .. Len(All(w)) : \A x :
                     x \in SdusOf(All(w)[k]) => x \notin SdusOf(all[j])
<1> DEFINE f == Placed(c, t)
           all == All(t)
           l == Len(all)
           w == fillPduData(c, t).trans
           d == fillPduData(c, t).pdu.data
           m == f.sducnt
           b == f.sdufinalbytes
           rest == SubSeq(all, m + 1, l)
           last == LastOf(t, f)
           cut == SubSeq(last, b + 1, Len(last))
<1>1. /\ f \in PlacedType /\ m \in 0 .. l
      /\ (b > 0 => m > 0 /\ b < Len(all[m]) /\ f.mLILeftOver = 0)
      /\ (f.mLILeftOver > 0 => m > 0)
      /\ Completed(f) \in 0 .. m
  BY PlacedFacts
<1>2. all \in Seq(SduData) /\ l \in Nat
  BY AllType, LenProperties
<1>3. /\ w.mSduTxQ = rest /\ w.mSplitSdu = (IF b > 0 THEN cut ELSE NoSdu)
      /\ w.mLILeftOver = f.mLILeftOver
      /\ d = FlattenSeq(SubSeq(all, 1, Completed(f))) \o SubSeq(last, 1, b) \o Filling(Unused(c, f))
  BY FillIs, Zenon DEF FilledData
<1>4. last = IF b > 0 THEN all[m] ELSE <<>>
  BY DEF LastOf
<1>5. Unused(c, f) \in Nat
  BY FilledDataType
<1> HIDE DEF w, d, last
<1>6. m \in Nat /\ b \in Nat /\ f.mLILeftOver \in 0 .. 2
  BY <1>1 DEF PlacedType
<1> HIDE DEF f
<1> HIDE DEF m, b
<1> HIDE DEF all, l
<1>7. /\ Apart(rest, n) /\ Len(rest) = l - m
      /\ \A i \in 1 .. Len(rest) : rest[i] = all[m + i] /\ m + i \in m + 1 .. l
  BY <1>1, ApartRest DEF all, l
<1> HIDE DEF rest
<1>8. Apart(all, n)
  BY DEF all
<1>9. b > 0 => /\ m \in 1 .. l /\ last = all[m] /\ last \in SduData /\ last \in Seq(Octet)
               /\ Len(last) \in Nat /\ b < Len(last)
  <2> SUFFICES ASSUME b > 0
               PROVE  /\ m \in 1 .. l /\ last = all[m] /\ last \in SduData /\ last \in Seq(Octet)
                      /\ Len(last) \in Nat /\ b < Len(last)
    OBVIOUS
  <2>1. m \in 1 .. l
    BY <1>1, <1>2, <1>6, SMT
  <2>2. last = all[m] /\ last \in SduData
    BY <1>2, <1>4, <2>1, ElementOfSeq DEF l
  <2> QED BY <1>1, <2>1, <2>2, SduDataType
<1>10. b > 0 => cut \in SduData /\ \A x : x \in SdusOf(cut) => x \in SdusOf(all[m])
  <2> SUFFICES ASSUME b > 0
               PROVE  cut \in SduData /\ \A x : x \in SdusOf(cut) => x \in SdusOf(all[m])
    OBVIOUS
  <2>1. b <= Len(last) /\ b + 1 \in Nat \ {0} /\ Len(last) \in 0 .. Len(last)
    BY <1>6, <1>9, SMT
  <2>2. cut \in SduData
    BY <1>6, <1>9, <2>1, CutType
  <2> QED BY <1>9, <2>1, <2>2, SdusOfPart
<1> HIDE DEF cut
<1>11. All(w) = rest \/ (b > 0 /\ All(w) = <<cut>> \o rest)
  <2>1. rest \in Seq(SduData)
    BY <1>7 DEF Apart
  <2>2. InProgress(w) = <<>> \/ (b > 0 /\ InProgress(w) = <<cut>>)
    BY <1>3 DEF InProgress
  <2>3. All(w) = InProgress(w) \o rest
    BY <1>3 DEF All
  <2> QED BY <2>1, <2>2, <2>3, ConcatEmptySeq
\* Where each of the SDUs left comes from.
<1>12. /\ All(w) \in Seq(SduData)
       /\ \/ \A k \in 1 .. Len(All(w)) : m + k \in m + 1 .. l /\ All(w)[k] = all[m + k]
          \/ /\ b > 0
             /\ \A k \in 1 .. Len(All(w)) :
                  /\ m + k - 1 \in m .. l
                  /\ \A x : x \in SdusOf(All(w)[k]) => x \in SdusOf(all[m + k - 1])
  <2> DEFINE a == All(w)
  <2>1. rest \in Seq(SduData) /\ Len(rest) \in Nat
    BY <1>7, LenProperties DEF Apart
  <2>2. CASE a = rest
    BY <1>7, <2>1, <2>2
  <2>3. CASE b > 0 /\ a = <<cut>> \o rest
    <3> DEFINE s == <<cut>>
    <3>1. s \in Seq(SduData) /\ Len(s) = 1 /\ s[1] = cut
      BY <1>10, <2>3
    <3> HIDE DEF s
    <3>2. /\ a \in Seq(SduData) /\ Len(a) = 1 + Len(rest)
          /\ \A i \in 1 .. 1 + Len(rest) : a[i] = IF i <= 1 THEN s[i] ELSE rest[i - 1]
      <4>1. a = s \o rest
        BY <2>3 DEF s
      <4> HIDE DEF a
      <4>2. /\ s \o rest \in Seq(SduData) /\ Len(s \o rest) = Len(s) + Len(rest)
            /\ \A i \in 1 .. Len(s) + Len(rest) :
                 (s \o rest)[i] = IF i <= Len(s) THEN s[i] ELSE rest[i - Len(s)]
        BY <2>1, <3>1, ConcatProperties
      <4> QED BY <3>1, <4>1, <4>2
    <3> HIDE DEF a
    <3>3. ASSUME NEW k \in 1 .. Len(a)
          PROVE  /\ m + k - 1 \in m .. l
                 /\ \A x : x \in SdusOf(a[k]) => x \in SdusOf(all[m + k - 1])
      <4>1. CASE k = 1
        <5>1. 1 \in 1 .. 1 + Len(rest) /\ 1 <= 1 /\ m + 1 - 1 = m
          BY <1>6, <2>1, SMT
        <5>2. a[1] = cut /\ m \in m .. l
          <6>1. a[1] = s[1]
            BY <3>2, <5>1
          <6>2. m \in m .. l
            BY <1>2, <1>9, <2>3, SMT
          <6> QED BY <3>1, <6>1, <6>2
        <5> QED BY <1>10, <2>3, <4>1, <5>1, <5>2
      <4>2. CASE k # 1
        <5>1. /\ k \in 1 .. 1 + Len(rest) /\ ~(k <= 1) /\ k - 1 \in 1 .. Len(rest)
              /\ m + (k - 1) = m + k - 1 /\ m + k - 1 \in m .. l
          BY <1>2, <1>6, <1>7, <2>1, <3>2, <4>2, SMT
        <5>2. a[k] = rest[k - 1]
          BY <3>2, <5>1
        <5>3. rest[k - 1] = all[m + (k - 1)]
          BY <1>7, <5>1
        <5> QED BY <5>1, <5>2, <5>3
      <4> QED BY <4>1, <4>2
    <3> QED BY <2>3, <3>2, <3>3 DEF a
  <2> QED BY <1>11, <2>2, <2>3
<1> DEFINE a == All(w)
<1> HIDE DEF a
<1>13. ASSUME NEW k \in 1 .. Len(a)
       PROVE  \E j \in 1 .. l : /\ j = m + k \/ (b > 0 /\ j = m + k - 1)
                                /\ \A x : x \in SdusOf(a[k]) => x \in SdusOf(all[j])
  <2>1. Len(a) \in Nat
    BY <1>12, LenProperties DEF a
  <2>2. CASE \A i \in 1 .. Len(a) : m + i \in m + 1 .. l /\ a[i] = all[m + i]
    <3>1. m + k \in m + 1 .. l /\ a[k] = all[m + k]
      BY <2>2
    <3>2. m + k \in 1 .. l
      BY <1>2, <1>6, <3>1, SMT
    <3> QED BY <3>1, <3>2
  <2>3. CASE b > 0 /\ \A i \in 1 .. Len(a) : /\ m + i - 1 \in m .. l
                          /\ \A x : x \in SdusOf(a[i]) => x \in SdusOf(all[m + i - 1])
    <3>1. /\ m + k - 1 \in m .. l
          /\ \A x : x \in SdusOf(a[k]) => x \in SdusOf(all[m + k - 1])
      BY <2>3
    <3>2. m + k - 1 \in 1 .. l
      BY <1>2, <1>6, <1>9, <2>3, <3>1, SMT
    <3> QED BY <2>3, <3>1, <3>2
  <2> QED BY <1>12, <2>2, <2>3 DEF a
<1>14. ASSUME NEW k \in 1 .. Len(a), NEW j \in 1 .. Len(a), NEW x,
              x \in SdusOf(a[k]), x \in SdusOf(a[j])
       PROVE  k = j
  <2> DEFINE First(o) == \A i \in 1 .. Len(a) : \A y : y \in SdusOf(a[i]) => y \in SdusOf(all[o + i])
  <2>1. \E o \in Int : /\ \A i \in 1 .. Len(a) : o + i \in 1 .. l
                       /\ First(o)
    <3>1. Len(a) \in Nat
      BY <1>12, LenProperties DEF a
    <3>2. CASE \A i \in 1 .. Len(a) : m + i \in m + 1 .. l /\ a[i] = all[m + i]
      <4>1. ASSUME NEW i \in 1 .. Len(a) PROVE m + i \in 1 .. l /\ a[i] = all[m + i]
        <5>1. m + i \in m + 1 .. l /\ a[i] = all[m + i]
          BY <3>2
        <5> QED BY <1>2, <1>6, <5>1, SMT
      <4>2. First(m)
        BY <4>1
      <4>3. m \in Int
        BY <1>6, SMT
      <4> QED BY <4>1, <4>2, <4>3
    <3>3. CASE b > 0 /\ \A i \in 1 .. Len(a) : /\ m + i - 1 \in m .. l
                            /\ \A y : y \in SdusOf(a[i]) => y \in SdusOf(all[m + i - 1])
      <4>1. ASSUME NEW i \in 1 .. Len(a)
            PROVE  m - 1 + i \in 1 .. l /\ m - 1 + i = m + i - 1
        <5>1. m + i - 1 \in m .. l
          BY <3>3
        <5> QED BY <1>2, <1>6, <1>9, <3>3, <5>1, SMT
      <4>2. First(m - 1)
        BY <3>3, <4>1
      <4>3. m - 1 \in Int
        BY <1>6, SMT
      <4> QED BY <4>1, <4>2, <4>3
    <3> QED BY <1>12, <3>2, <3>3 DEF a
  <2>2. PICK o \in Int : (\A i \in 1 .. Len(a) : o + i \in 1 .. l) /\ First(o)
    BY <2>1
  <2>3. o + k = o + j
    <3>1. o + k \in 1 .. l /\ o + j \in 1 .. l /\ x \in SdusOf(all[o + k]) /\ x \in SdusOf(all[o + j])
      BY <1>14, <2>2
    <3> QED BY <1>8, <3>1 DEF Apart, l
  <2> QED
    <3>1. k \in Int /\ j \in Int
      BY SMT
    <3> QED BY <2>3, <3>1, SMT
<1>15. Apart(a, n)
  <2>1. a \in Seq(SduData)
    BY <1>12 DEF a
  <2>2. \A k \in 1 .. Len(a) : \A x : x \in SdusOf(a[k]) => x \in 1 .. n
    BY <1>8, <1>13 DEF Apart, l
  <2> QED BY <1>14, <2>1, <2>2 DEF Apart
<1>16. \A x : x \in SdusOf(d) => x \in 1 .. n
  <2> DEFINE p == SubSeq(all, 1, Completed(f))
             q == SubSeq(last, 1, b)
             g == Filling(Unused(c, f))
  <2>1. p \in Seq(SduData) /\ Len(p) = Completed(f) /\ \A i \in 1 .. Len(p) : i \in 1 .. l /\ p[i] = all[i]
    <3> DEFINE z == Completed(f)
    <3>1. z \in Nat /\ 1 \in Int /\ z \in Int /\ (\A i \in 1 .. z : i \in 1 .. l /\ 1 + i - 1 = i /\ i \in 1 .. z - 1 + 1)
          /\ (IF 1 <= z THEN z - 1 + 1 ELSE 0) = z
      <4> HIDE DEF z
      <4>1. z \in 0 .. m
        BY <1>1 DEF z
      <4> QED BY <1>1, <1>2, <1>6, <4>1, SMT
    <3> HIDE DEF z
    <3>2. \A i \in 1 .. z : all[i] \in SduData
      BY <1>2, <3>1, ElementOfSeq DEF l
    <3>3. /\ SubSeq(all, 1, z) \in Seq(SduData) /\ Len(SubSeq(all, 1, z)) = z
          /\ \A i \in 1 .. z - 1 + 1 : SubSeq(all, 1, z)[i] = all[1 + i - 1]
      BY <3>1, <3>2, SubSeqProperties
    <3> QED BY <3>1, <3>3 DEF z
  <2>2. p \in Seq(Seq(Octet))
    BY <2>1, SduDataType
  <2>3. FlattenSeq(p) \in Seq(Octet)
    BY <2>2, FlattenType
  <2>4. q \in Seq(Octet) /\ \A x : x \in SdusOf(q) => x \in 1 .. n
    <3>1. CASE b > 0
      <4>1. 1 \in Nat \ {0} /\ b \in 0 .. Len(last) /\ b <= Len(last)
        BY <1>6, <1>9, <3>1, SMT
      <4>2. q \in Seq(Octet)
        BY <1>6, <1>9, <3>1, <4>1, CutType
      <4>3. \A x : x \in SdusOf(q) => x \in SdusOf(all[m])
        BY <1>9, <3>1, <4>1, SdusOfPart
      <4> QED BY <1>8, <1>9, <3>1, <4>2, <4>3 DEF Apart, l
    <3>2. CASE ~(b > 0)
      <4>1. b = 0
        BY <1>6, <3>2, SMT
      <4>2. q = <<>>
        BY <4>1, SubSeqEmpty, SMT
      <4>3. Range(<<>>) = {}
        BY DEF Range
      <4> HIDE DEF q
      <4> QED BY <4>2, <4>3, EmptySeq DEF SdusOf
    <3> QED BY <3>1, <3>2
  <2>5. g \in Seq(Data) /\ \A x : x \notin SdusOf(g)
    <3>1. g \in Seq(Data) /\ Len(g) = Unused(c, f)
      BY <1>5, FillingType DEF f
    <3>2. \A i \in 1 .. Len(g) : g[i][1] = 0
      BY <3>1 DEF Filling, Fill
    <3> HIDE DEF g
    <3> QED BY <3>1, <3>2, SdusOfIs
  <2>6. d = (FlattenSeq(p) \o q) \o g
    BY <1>3
  <2> HIDE DEF p, q, g
  <2> DEFINE r == FlattenSeq(p) \o q
  <2>7. r \in Seq(Octet) /\ \A x : x \in SdusOf(r) <=> x \in SdusOf(FlattenSeq(p)) \/ x \in SdusOf(q)
    BY <2>3, <2>4, ConcatProperties, SdusOfConcat
  <2> HIDE DEF r
  <2>8. r \in Seq(Data)
    BY <2>7, DataType
  <2>9. \A x : x \in SdusOf(d) <=> x \in SdusOf(r) \/ x \in SdusOf(g)
    <3>1. d = r \o g
      BY <2>6 DEF r
    <3>2. \A x : x \in SdusOf(r \o g) <=> x \in SdusOf(r) \/ x \in SdusOf(g)
      BY <2>5, <2>8, SdusOfConcat
    <3> QED BY <3>1, <3>2
  <2>10. \A x : x \in SdusOf(FlattenSeq(p)) => x \in 1 .. n
    <3>1. \A x : x \in SdusOf(FlattenSeq(p)) => \E k \in 1 .. Len(p) : x \in SdusOf(p[k])
      BY <2>2, SdusOfFlatten
    <3> QED BY <1>8, <2>1, <3>1 DEF Apart, l
  <2> QED BY <2>4, <2>5, <2>7, <2>9, <2>10
<1>17. ASSUME f.mLILeftOver # 0
       PROVE  \E j \in 1 .. l : \A k \in 1 .. Len(a) : \A x :
                x \in SdusOf(a[k]) => x \notin SdusOf(all[j])
  <2>1. m \in 1 .. l /\ ~(b > 0)
    BY <1>1, <1>2, <1>6, <1>17, SMT
  <2>2. ASSUME NEW k \in 1 .. Len(a), NEW x, x \in SdusOf(a[k]), x \in SdusOf(all[m])
        PROVE  FALSE
    <3>1. PICK j \in 1 .. l : j = m + k /\ x \in SdusOf(all[j])
      BY <1>13, <2>1, <2>2
    <3>2. j = m
      BY <1>8, <2>1, <2>2, <3>1 DEF Apart, l
    <3> QED BY <1>6, <3>1, <3>2, SMT
  <2> QED BY <2>1, <2>2
<1>18. \A k \in 1 .. Len(a) : \A x : x \in SdusOf(a[k]) => \E j \in 1 .. l : x \in SdusOf(all[j])
  BY <1>13
<1>19. w.mLILeftOver # 0 =>
         \E j \in 1 .. l : \A k \in 1 .. Len(a) : \A x :
           x \in SdusOf(a[k]) => x \notin SdusOf(all[j])
  BY <1>3, <1>17
<1> QED BY <1>15, <1>16, <1>18, <1>19 DEF a, w, d, all, l

-----------------------------------------------------------------------------
(* The invariant.                                                          *)

\* An SDU longer than the whole buffer was written.
TooLong == \E i \in DOMAIN written : written[i] > mConfig.mTransmissionBufferSizeBytes

\* The SDUs of the transmitter are some of those written, each once and none
\* thrown away, and one whose end is still to be told is neither.
SdusKept ==
  /\ Len(written) <= MaxSdus
  /\ Apart(All(tx), Len(written))
  /\ dropped \subseteq 1 .. Len(written)
  /\ \A x \in dropped : x \notin Pending(tx)
  /\ tx.mLILeftOver # 0 => \E i \in 1 .. Len(written) : i \notin Pending(tx) \cup dropped

\* What pdusFinished saw is not gone when fillPduData looks.
SomethingToSend == reader = "filling" => ~pdusFinished(tx) \/ TooLong

StreamInv ==
  /\ TypeOK
  /\ Clean(rx)
  /\ SdusKept
  /\ SomethingToSend
  /\ NeverAborts
  /\ PdusFull

LEMMA ConfigType ==
  ASSUME mConfig \in Configs PROVE mConfig \in Bearers
BY StreamAssumption DEF Bearers

LEMMA SizesType == SduSizes \subseteq Nat \ {0} /\ MaxSdus \in Nat
BY StreamAssumption

LEMMA PendingIs ==
  ASSUME NEW t \in Transmitter, NEW x
  PROVE  x \in Pending(t) <=> \E k \in 1 .. Len(All(t)) : x \in SdusOf(All(t)[k])
<1>1. All(t) \in Seq(Seq(Octet))
  BY AllType, SduDataType
<1>2. Pending(t) = SdusOf(FlattenSeq(All(t)))
  BY DEF Pending, All
<1> QED BY <1>1, <1>2, SdusOfFlatten

LEMMA FinishedIs ==
  ASSUME NEW t \in Transmitter
  PROVE  pdusFinished(t) <=> Len(All(t)) = 0 /\ t.mLILeftOver = 0
BY DEF pdusFinished, getSduCnt, All

AirPdu == [sn : SN, pdu : Pdu, about : SUBSET (1 .. MaxSdus)]

LEMMA TypeOKIs ==
  TypeOK <=>
    /\ mConfig \in Configs /\ tx \in Transmitter /\ mVTUS \in SN /\ mVRUS \in SN
    /\ reader \in {"idle", "filling", "aborted"} /\ rx \in Receiver
    /\ air \in Seq(AirPdu) /\ written \in Seq(SduSizes)
    /\ dropped \in SUBSET (1 .. MaxSdus) /\ damaged \in SUBSET (1 .. MaxSdus)
BY DEF TypeOK, AirPdu

LEMMA IncSNType == ASSUME NEW sn \in SN PROVE incSN(sn) \in SN /\ 0 \in SN
BY SNSAssumption, SMT DEF incSN, addSN, SN

LEMMA TransInitType == transInit \in Transmitter /\ All(transInit) = <<>>
<1>1. transInit \in Transmitter
  <2>1. <<>> \in Seq(SduData) /\ 0 \in Nat /\ 0 \in 0 .. 2
    BY EmptySeq, SMT
  <2> QED BY <2>1 DEF transInit, Transmitter
<1>2. <<>> \o <<>> = <<>>
  BY EmptySeq, ConcatEmptySeq
<1> QED BY <1>1, <1>2 DEF transInit, All, InProgress

LEMMA InitInv == Init => StreamInv
<1> SUFFICES ASSUME Init PROVE StreamInv
  OBVIOUS
<1>1. tx = transInit /\ air = <<>> /\ written = <<>> /\ dropped = {} /\ damaged = {}
      /\ reader = "idle" /\ mVTUS = 0 /\ mVRUS = 0 /\ mConfig \in Configs
  BY DEF Init
<1>2. Clean(rx)
  <2>1. rx \in [mUpSdu : {NoSdu}, sent : {<<>>}, mLostPdu : BOOLEAN]
    BY DEF Init
  <2>2. <<>> \in Seq(Seq(Data))
    BY EmptySeq
  <2>3. rx \in Receiver
    BY <2>1, <2>2 DEF Receiver, Data
  <2> QED BY <2>1, <2>3 DEF Clean
<1>3. TypeOK
  <2>1. 0 \in SN
    BY SNSAssumption, SMT DEF SN
  <2>2. air \in Seq(AirPdu) /\ written \in Seq(SduSizes)
    BY <1>1, EmptySeq
  <2> QED BY <1>1, <1>2, <2>1, <2>2, TransInitType, TypeOKIs DEF Clean
<1>4. Len(written) = 0 /\ DOMAIN air = {} /\ DOMAIN written = {}
  BY <1>1, EmptySeq
<1>5. SdusKept
  <2>1. 0 <= MaxSdus
    BY SizesType, SMT
  <2>2. Apart(<<>>, 0)
    <3>1. <<>> \in Seq(SduData) /\ Len(<<>>) = 0 /\ 1 .. 0 = {}
      BY EmptySeq, SMT
    <3> QED BY <3>1 DEF Apart
  <2>3. tx.mLILeftOver = 0
    BY <1>1 DEF transInit
  <2> QED BY <1>1, <1>4, <2>1, <2>2, <2>3, TransInitType DEF SdusKept
<1> QED BY <1>1, <1>2, <1>3, <1>4, <1>5 DEF StreamInv, SomethingToSend, NeverAborts, PdusFull

LEMMA WriteInv == StreamInv /\ rlcWriteHighSideAny => StreamInv'
<1> SUFFICES ASSUME StreamInv, rlcWriteHighSideAny PROVE StreamInv'
  OBVIOUS
<1> DEFINE n == Len(written)
           new == n + 1
<1>1. PICK size \in SduSizes :
        LET t == rlcWriteHighSide(mConfig, tx, [i \in 1 .. size |-> <<new, i>>])
        IN  /\ new <= MaxSdus
            /\ tx' = t
            /\ written' = Append(written, size)
            /\ dropped' = dropped \cup ((Pending(tx) \cup {new}) \ Pending(t))
            /\ UNCHANGED <<mConfig, mVTUS, reader, air, rx, mVRUS, lost, damaged>>
  BY DEF rlcWriteHighSideAny
<1> DEFINE sdu == NewSdu(new, size)
<1>2. /\ new <= MaxSdus /\ tx' = rlcWriteHighSide(mConfig, tx, sdu)
      /\ written' = Append(written, size)
      /\ dropped' = dropped \cup ((Pending(tx) \cup {new}) \ Pending(tx'))
      /\ mConfig' = mConfig /\ mVTUS' = mVTUS /\ reader' = reader /\ air' = air /\ rx' = rx
      /\ mVRUS' = mVRUS /\ lost' = lost /\ damaged' = damaged
  BY <1>1 DEF NewSdu
<1>3. /\ mConfig \in Configs /\ tx \in Transmitter /\ mVTUS \in SN /\ mVRUS \in SN
      /\ reader \in {"idle", "filling", "aborted"} /\ rx \in Receiver
      /\ air \in Seq(AirPdu) /\ written \in Seq(SduSizes)
      /\ dropped \in SUBSET (1 .. MaxSdus) /\ damaged \in SUBSET (1 .. MaxSdus)
  BY TypeOKIs DEF StreamInv
<1>4. n \in Nat /\ new \in Nat \ {0} /\ size \in Nat \ {0} /\ new \in 1 .. MaxSdus
      /\ new \in 1 .. new /\ \A x : x \in 1 .. n => x \in 1 .. new /\ x # new
  <2>1. n \in Nat /\ size \in Nat \ {0} /\ MaxSdus \in Nat
    BY <1>3, LenProperties, SizesType
  <2> HIDE DEF n
  <2> QED BY <1>2, <2>1, SMT
<1>5. sdu \in SduData /\ Len(sdu) = size /\ \A x : x \in SdusOf(sdu) <=> x = new
  BY <1>4, NewSduType
<1>6. /\ Apart(All(tx), n) /\ dropped \subseteq 1 .. n /\ (\A x \in dropped : x \notin Pending(tx))
      /\ tx.mLILeftOver # 0 => \E i \in 1 .. n : i \notin Pending(tx) \cup dropped
  BY DEF StreamInv, SdusKept
<1> DEFINE q == Append(All(tx), sdu)
<1>7. Apart(q, new)
  BY <1>4, <1>6, ApartNew
<1>8. tx' \in Transmitter /\ tx'.mLILeftOver = tx.mLILeftOver
  BY <1>2, <1>3, <1>5, ConfigType, WriteIs
<1>9. PICK d \in 0 .. Len(q) :
        /\ All(tx') = SubSeq(q, d + 1, Len(q))
        /\ d = Len(q) => Len(sdu) > mConfig.mTransmissionBufferSizeBytes
  BY <1>2, <1>3, <1>5, ConfigType, WriteIs
<1>10. /\ All(tx) \in Seq(SduData) /\ Len(All(tx)) \in Nat /\ Len(q) = Len(All(tx)) + 1
       /\ (\A i \in 1 .. Len(All(tx)) : q[i] = All(tx)[i]) /\ q[Len(All(tx)) + 1] = sdu
  BY <1>3, <1>5, AllType, LenProperties, AppendProperties
<1> HIDE DEF sdu, q
<1>11. /\ Apart(All(tx'), new) /\ Len(All(tx')) = Len(q) - d
       /\ \A i \in 1 .. Len(All(tx')) : All(tx')[i] = q[d + i] /\ d + i \in d + 1 .. Len(q)
  BY <1>4, <1>7, <1>9, ApartRest
<1>12. /\ written' \in Seq(SduSizes) /\ Len(written') = new /\ written'[new] = size
       /\ (\A i \in 1 .. n : written'[i] = written[i])
       /\ DOMAIN written = 1 .. n /\ DOMAIN written' = 1 .. new
  <2>1. /\ Append(written, size) \in Seq(SduSizes) /\ Len(Append(written, size)) = n + 1
        /\ \A i \in 1 .. n : Append(written, size)[i] = written[i]
        /\ Append(written, size)[n + 1] = size
    BY <1>3, AppendProperties
  <2>2. written' \in Seq(SduSizes) /\ Len(written') = new
    BY <1>2, <2>1
  <2>3. DOMAIN written = 1 .. Len(written) /\ DOMAIN written' = 1 .. Len(written')
    BY <1>3, <2>2, LenProperties
  <2> QED BY <1>2, <2>1, <2>2, <2>3
\* What is pending was so or is new.
<1>13. ASSUME NEW x, x \in Pending(tx)' PROVE x \in Pending(tx) \/ x = new
  <2>1. Pending(tx)' = Pending(tx')
    BY DEF Pending, InProgress, SdusOf
  <2>2. PICK k \in 1 .. Len(All(tx')) : x \in SdusOf(All(tx')[k])
    BY <1>8, <1>13, <2>1, PendingIs
  <2>3. x \in SdusOf(q[d + k]) /\ d + k \in d + 1 .. Len(q)
    BY <1>11, <2>2
  <2>4. d + k \in 1 .. Len(All(tx)) \/ d + k = Len(All(tx)) + 1
    BY <1>9, <1>10, <2>3, SMT
  <2>5. CASE d + k \in 1 .. Len(All(tx))
    <3>1. x \in SdusOf(All(tx)[d + k])
      BY <1>10, <2>3, <2>5
    <3> QED BY <1>3, <2>5, <3>1, PendingIs
  <2>6. CASE d + k = Len(All(tx)) + 1
    BY <1>5, <1>10, <2>3, <2>6
  <2> QED BY <2>4, <2>5, <2>6
<1>14. Pending(tx)' = Pending(tx') /\ All(tx)' = All(tx')
  BY DEF Pending, InProgress, SdusOf, All
<1>15. dropped' \subseteq 1 .. new
  <2>1. \A x : x \in Pending(tx) => x \in 1 .. n
    BY <1>3, <1>6, PendingIs DEF Apart
  <2> QED BY <1>2, <1>4, <1>6, <2>1
<1>16. TypeOK'
  <2>1. \A x : x \in 1 .. new => x \in 1 .. MaxSdus
    <3> HIDE DEF n
    <3> QED BY <1>2, <1>4, SizesType, SMT
  <2>2. dropped' \in SUBSET (1 .. MaxSdus)
    BY <1>15, <2>1
  <2>3. /\ mConfig' \in Configs /\ tx' \in Transmitter /\ mVTUS' \in SN /\ mVRUS' \in SN
        /\ reader' \in {"idle", "filling", "aborted"} /\ rx' \in Receiver
        /\ air' \in Seq(AirPdu) /\ written' \in Seq(SduSizes)
        /\ damaged' \in SUBSET (1 .. MaxSdus)
    BY <1>2, <1>3, <1>8, <1>12
  <2> QED BY <2>2, <2>3 DEF TypeOK, AirPdu
<1>17. SdusKept'
  <2>1. \A x \in dropped' : x \notin Pending(tx)'
    BY <1>2, <1>4, <1>6, <1>13, <1>14
  <2>2. ASSUME tx'.mLILeftOver # 0
        PROVE  \E i \in 1 .. new : i \notin Pending(tx)' \cup dropped'
    <3>1. PICK i \in 1 .. n : i \notin Pending(tx) \cup dropped
      BY <1>6, <1>8, <2>2
    <3>2. i \in 1 .. new /\ i # new
      BY <1>4
    <3>3. i \notin Pending(tx)'
      BY <1>13, <3>1, <3>2
    <3>4. i \notin dropped'
      BY <1>2, <3>1, <3>2
    <3> QED BY <3>2, <3>3, <3>4
  <2> QED BY <1>2, <1>11, <1>12, <1>14, <1>15, <2>1, <2>2 DEF SdusKept
<1>18. TooLong => TooLong'
  BY <1>2, <1>4, <1>12 DEF TooLong
<1>19. SomethingToSend'
  <2> SUFFICES ASSUME reader' = "filling", ~TooLong' PROVE ~pdusFinished(tx')
    BY DEF SomethingToSend, pdusFinished, getSduCnt, InProgress
  <2>1. CASE d = Len(q)
    <3>1. written'[new] > mConfig'.mTransmissionBufferSizeBytes /\ new \in DOMAIN written'
      BY <1>2, <1>4, <1>5, <1>9, <1>12, <2>1
    <3> QED BY <3>1 DEF TooLong
  <2>2. CASE d # Len(q)
    <3>1. Len(All(tx')) # 0
      BY <1>9, <1>10, <1>11, <2>2, SMT
    <3> QED BY <1>8, <3>1, FinishedIs
  <2> QED BY <2>1, <2>2
<1>20. NeverAborts'
  <2>1. reader' = "aborted" => TooLong
    BY <1>2 DEF StreamInv, NeverAborts, TooLong
  <2>2. reader' = "aborted" => TooLong'
    BY <1>18, <2>1
  <2> QED BY <2>2 DEF NeverAborts, TooLong
<1>21. Clean(rx)' /\ PdusFull'
  BY <1>2 DEF StreamInv, Clean, PdusFull
<1> QED BY <1>16, <1>17, <1>19, <1>20, <1>21 DEF StreamInv

\* The largest of a nonempty set of numbers is one of them.
LEMMA MaxIn ==
  ASSUME NEW n \in Nat, NEW A \in SUBSET (1 .. n), A # {} PROVE Max(A) \in A
<1> DEFINE B == {k \in Nat : \E a \in A : k = n - a}
<1>1. PICK a \in A : TRUE
  OBVIOUS
<1>2. n - a \in B
  <2>1. a \in 1 .. n
    BY <1>1
  <2>2. n - a \in Nat
    BY <2>1, SMT
  <2> QED BY <1>1, <2>2
<1>3. PICK b \in B : \A k \in B : b <= k
  <2>1. B \in SUBSET Nat
    OBVIOUS
  <2> HIDE DEF B
  <2> QED BY <1>2, <2>1, NatMin
<1>4. PICK m \in A : b = n - m
  BY <1>3
<1>5. \A x \in A : m >= x
  <2> TAKE x \in A
  <2>1. x \in 1 .. n /\ m \in 1 .. n
    BY <1>4
  <2>2. n - x \in Nat
    BY <2>1, SMT
  <2>3. b <= n - x
    BY <1>3, <2>2
  <2> QED BY <1>4, <2>1, <2>3, SMT
<1> QED BY <1>4, <1>5, Zenon DEF Max

LEMMA FillInv == StreamInv /\ ReadLowSideFills => StreamInv'
<1> SUFFICES ASSUME StreamInv, ReadLowSideFills PROVE StreamInv'
  OBVIOUS
<1> DEFINE n == Len(written)
           filled == fillPduData(mConfig, tx)
           sn == Numbered(tx)
           about == About(filled.pdu)
           p == [sn |-> sn, pdu |-> filled.pdu, about |-> about]
           old == {i \in 1 .. n : i \notin Pending(tx) \cup dropped}
<1>1. /\ tx' = filled.trans
      /\ mVTUS' = (IF mConfig.rlcMode = "UM" THEN incSN(sn) ELSE mVTUS)
      /\ air' = Append(air, p)
      /\ reader' = "idle"
      /\ mConfig' = mConfig /\ rx' = rx /\ mVRUS' = mVRUS /\ written' = written
      /\ lost' = lost /\ dropped' = dropped /\ damaged' = damaged
  BY DEF ReadLowSideFills
<1>2. /\ mConfig \in Configs /\ tx \in Transmitter /\ mVTUS \in SN /\ mVRUS \in SN
      /\ rx \in Receiver
      /\ air \in Seq(AirPdu) /\ written \in Seq(SduSizes)
      /\ dropped \in SUBSET (1 .. MaxSdus) /\ damaged \in SUBSET (1 .. MaxSdus)
  BY TypeOKIs DEF StreamInv
<1>3. /\ n <= MaxSdus /\ Apart(All(tx), n) /\ dropped \subseteq 1 .. n
      /\ (\A x \in dropped : x \notin Pending(tx))
      /\ tx.mLILeftOver # 0 => old # {}
  BY DEF StreamInv, SdusKept
<1>4. n \in Nat /\ MaxSdus \in Nat /\ \A x : x \in 1 .. n => x \in 1 .. MaxSdus
  <2>1. n \in Nat /\ MaxSdus \in Nat
    BY <1>2, LenProperties, SizesType
  <2> HIDE DEF n
  <2> QED BY <1>3, <2>1, SMT
<1>5. /\ filled.trans \in Transmitter /\ filled.pdu \in Pdu
      /\ Len(filled.pdu.vli) * mConfig.libytes + Len(filled.pdu.data) = mConfig.payload
  BY <1>2, ConfigType, Filled
<1>6. /\ Apart(All(filled.trans), n)
      /\ \A x : x \in SdusOf(filled.pdu.data) => x \in 1 .. n
      /\ \A k \in 1 .. Len(All(filled.trans)) : \A x : x \in SdusOf(All(filled.trans)[k]) =>
           \E j \in 1 .. Len(All(tx)) : x \in SdusOf(All(tx)[j])
      /\ filled.trans.mLILeftOver # 0 =>
           \E j \in 1 .. Len(All(tx)) : \A k \in 1 .. Len(All(filled.trans)) : \A x :
              x \in SdusOf(All(filled.trans)[k]) => x \notin SdusOf(All(tx)[j])
  BY <1>2, <1>3, <1>4, ConfigType, FillApart
<1>7. about \in SUBSET (1 .. MaxSdus)
  <2>1. about = SdusOf(filled.pdu.data) \cup (IF tx.mLILeftOver = 0 THEN {} ELSE {Max(old)})
    BY DEF About
  <2>2. tx.mLILeftOver # 0 => Max(old) \in 1 .. n
    <3>1. old \in SUBSET (1 .. n)
      OBVIOUS
    <3> HIDE DEF old
    <3> QED BY <1>3, <1>4, <3>1, MaxIn
  <2> HIDE DEF about, old, filled
  <2>3. \A x : x \in about => x \in 1 .. n
    BY <1>6, <2>1, <2>2
  <2> QED BY <1>4, <2>3
<1> HIDE DEF filled, about
<1>8. sn \in SN
  <2>1. 0 \in SN
    BY <1>2, IncSNType
  <2> QED BY <1>2, <2>1 DEF Numbered
<1> HIDE DEF sn
<1>9. p \in AirPdu /\ p.pdu = filled.pdu
  BY <1>5, <1>7, <1>8 DEF AirPdu
<1>10. mVTUS' \in SN
  BY <1>1, <1>2, <1>8, IncSNType
<1> HIDE DEF p
<1>11. /\ air' \in Seq(AirPdu)
       /\ \A i \in DOMAIN air' : (i \in DOMAIN air /\ air'[i] = air[i]) \/ air'[i] = p
  <2> DEFINE l == Len(air)
             a == Append(air, p)
  <2>1. /\ a \in Seq(AirPdu) /\ Len(a) = l + 1
        /\ (\A i \in 1 .. l : a[i] = air[i]) /\ a[l + 1] = p
    BY <1>2, <1>9, AppendProperties
  <2>2. DOMAIN a = 1 .. Len(a) /\ DOMAIN air = 1 .. l /\ l \in Nat
    BY <1>2, <2>1, LenProperties
  <2> HIDE DEF a, l
  <2>3. \A i \in 1 .. Len(a) : i \in 1 .. l \/ i = l + 1
    BY <2>1, <2>2, SMT
  <2>4. \A i \in DOMAIN a : (i \in DOMAIN air /\ a[i] = air[i]) \/ a[i] = p
    BY <2>1, <2>2, <2>3
  <2>5. air' = a
    BY <1>1 DEF a
  <2> QED BY <2>1, <2>4, <2>5
<1>12. Pending(tx)' = Pending(tx') /\ All(tx)' = All(tx')
  BY DEF Pending, InProgress, SdusOf, All
<1>13. ASSUME NEW x, x \in Pending(tx)' PROVE x \in Pending(tx)
  <2>1. \E k \in 1 .. Len(All(tx')) : x \in SdusOf(All(tx')[k])
    BY <1>1, <1>5, <1>12, <1>13, PendingIs
  <2>2. \E j \in 1 .. Len(All(tx)) : x \in SdusOf(All(tx)[j])
    BY <1>1, <1>6, <2>1
  <2> QED BY <1>2, <2>2, PendingIs
\* An SDU whose end is still to be told has all its octets in PDUs.
<1>14. ASSUME tx'.mLILeftOver # 0
       PROVE  \E i \in 1 .. n : i \notin Pending(tx)' \cup dropped
  <2>1. PICK j \in 1 .. Len(All(tx)) : \A k \in 1 .. Len(All(tx')) : \A x :
          x \in SdusOf(All(tx')[k]) => x \notin SdusOf(All(tx)[j])
    BY <1>1, <1>6, <1>14
  <2>2. All(tx)[j] \in SduData
    BY <1>2, <2>1, AllType, ElementOfSeq
  <2>3. PICK x : x \in SdusOf(All(tx)[j])
    BY <2>2, SduHasNumber
  <2>4. x \in 1 .. n
    BY <1>3, <2>1, <2>3 DEF Apart
  <2>5. x \in Pending(tx)
    BY <1>2, <2>1, <2>3, PendingIs
  <2>6. x \notin Pending(tx')
    BY <1>1, <1>5, <2>1, <2>3, PendingIs
  <2> QED BY <1>3, <1>12, <2>4, <2>5, <2>6
<1>15. TypeOK'
  <2>1. /\ mConfig' \in Configs /\ tx' \in Transmitter /\ mVTUS' \in SN /\ mVRUS' \in SN
        /\ reader' \in {"idle", "filling", "aborted"} /\ rx' \in Receiver
        /\ air' \in Seq(AirPdu) /\ written' \in Seq(SduSizes)
        /\ dropped' \in SUBSET (1 .. MaxSdus) /\ damaged' \in SUBSET (1 .. MaxSdus)
    BY <1>1, <1>2, <1>5, <1>10, <1>11
  <2> QED BY <2>1 DEF TypeOK, AirPdu
<1>16. SdusKept'
  <2>1. Apart(All(tx'), n)
    BY <1>1, <1>6
  <2> QED BY <1>1, <1>3, <1>12, <1>13, <1>14, <2>1 DEF SdusKept
<1>17. PdusFull'
  <2> SUFFICES ASSUME NEW i \in DOMAIN air'
               PROVE  Len(air'[i].pdu.vli) * mConfig'.libytes + Len(air'[i].pdu.data)
                        = mConfig'.payload
    BY DEF PdusFull
  <2>1. CASE i \in DOMAIN air /\ air'[i] = air[i]
    BY <1>1, <2>1 DEF StreamInv, PdusFull
  <2>2. CASE air'[i] = p
    <3>1. air'[i].pdu = filled.pdu
      BY <1>9, <2>2
    <3> QED BY <1>1, <1>5, <3>1
  <2> QED BY <1>11, <2>1, <2>2
<1>18. SomethingToSend' /\ NeverAborts' /\ Clean(rx)'
  BY <1>1 DEF StreamInv, SomethingToSend, NeverAborts, Clean
<1> QED BY <1>15, <1>16, <1>17, <1>18 DEF StreamInv

\* A PDU that leaves takes none of the others with it.
LEMMA AirTail ==
  ASSUME air \in Seq(AirPdu), air # <<>>, air' = Tail(air), PdusFull, mConfig' = mConfig
  PROVE  Head(air) \in AirPdu /\ air' \in Seq(AirPdu) /\ PdusFull'
<1>1. /\ Head(air) \in AirPdu /\ Tail(air) \in Seq(AirPdu) /\ Len(Tail(air)) = Len(air) - 1
      /\ \A i \in 1 .. Len(Tail(air)) : Tail(air)[i] = air[i + 1]
  BY HeadTailProperties
<1>2. DOMAIN air = 1 .. Len(air) /\ Len(air) \in Nat /\ DOMAIN air' = 1 .. Len(air')
  BY <1>1, LenProperties
<1>3. \A i \in DOMAIN air' : i + 1 \in DOMAIN air /\ air'[i] = air[i + 1]
  <2>1. \A i \in 1 .. Len(air') : i + 1 \in 1 .. Len(air)
    BY <1>1, <1>2, SMT
  <2> QED BY <1>1, <1>2, <2>1
<1> QED BY <1>1, <1>3 DEF PdusFull

LEMMA SameSdus ==
  ASSUME StreamInv, UNCHANGED <<tx, written, dropped, mConfig>>
  PROVE  SdusKept' /\ (TooLong' <=> TooLong) /\ (pdusFinished(tx)' <=> pdusFinished(tx))
BY DEF StreamInv, SdusKept, Apart, All, InProgress, Pending, SdusOf, TooLong, pdusFinished, getSduCnt

LEMMA WriteLowSideInv == StreamInv /\ WriteLowSide => StreamInv'
<1> SUFFICES ASSUME StreamInv, WriteLowSide PROVE StreamInv'
  OBVIOUS
<1>1. /\ air # <<>> /\ air' = Tail(air) /\ rx' = Received(rx, Head(air).sn, Head(air).pdu)
      /\ mVRUS' = (IF mConfig.rlcMode = "UM" THEN incSN(Head(air).sn) ELSE mVRUS)
      /\ UNCHANGED <<mConfig, tx, mVTUS, reader, written, dropped, damaged>>
  BY DEF WriteLowSide
<1>2. /\ mConfig \in Configs /\ tx \in Transmitter /\ mVTUS \in SN /\ mVRUS \in SN
      /\ reader \in {"idle", "filling", "aborted"}
      /\ air \in Seq(AirPdu) /\ written \in Seq(SduSizes)
      /\ dropped \in SUBSET (1 .. MaxSdus) /\ damaged \in SUBSET (1 .. MaxSdus)
  BY TypeOKIs DEF StreamInv
<1>3. Head(air) \in AirPdu /\ air' \in Seq(AirPdu) /\ PdusFull'
  BY <1>1, <1>2, AirTail DEF StreamInv
<1>4. Head(air).sn \in SN /\ Head(air).pdu \in Pdu
  BY <1>3 DEF AirPdu
<1>5. Clean(rx')
  BY <1>1, <1>4, ReceivedClean DEF StreamInv
<1>6. Clean(rx)' /\ rx' \in Receiver
  BY <1>5 DEF Clean
<1>7. mVRUS' \in SN
  BY <1>1, <1>2, <1>4, IncSNType
<1>8. TypeOK'
  <2>1. /\ mConfig' \in Configs /\ tx' \in Transmitter /\ mVTUS' \in SN /\ mVRUS' \in SN
        /\ reader' \in {"idle", "filling", "aborted"} /\ rx' \in Receiver
        /\ air' \in Seq(AirPdu) /\ written' \in Seq(SduSizes)
        /\ dropped' \in SUBSET (1 .. MaxSdus) /\ damaged' \in SUBSET (1 .. MaxSdus)
    BY <1>1, <1>2, <1>3, <1>6, <1>7
  <2> QED BY <2>1 DEF TypeOK, AirPdu
<1>9. SdusKept' /\ (TooLong' <=> TooLong) /\ (pdusFinished(tx)' <=> pdusFinished(tx))
  BY <1>1, SameSdus
<1>10. SomethingToSend' /\ NeverAborts'
  BY <1>1, <1>9 DEF StreamInv, SomethingToSend, NeverAborts, TooLong
<1> QED BY <1>3, <1>6, <1>8, <1>9, <1>10 DEF StreamInv

LEMMA LoseInv == StreamInv /\ Lose => StreamInv'
<1> SUFFICES ASSUME StreamInv, Lose PROVE StreamInv'
  OBVIOUS
<1>1. /\ air # <<>> /\ air' = Tail(air) /\ damaged' = damaged \cup Head(air).about
      /\ UNCHANGED <<mConfig, tx, mVTUS, reader, rx, mVRUS, written, dropped>>
  BY DEF Lose
<1>2. /\ mConfig \in Configs /\ tx \in Transmitter /\ mVTUS \in SN /\ mVRUS \in SN
      /\ reader \in {"idle", "filling", "aborted"} /\ rx \in Receiver
      /\ air \in Seq(AirPdu) /\ written \in Seq(SduSizes)
      /\ dropped \in SUBSET (1 .. MaxSdus) /\ damaged \in SUBSET (1 .. MaxSdus)
  BY TypeOKIs DEF StreamInv
<1>3. Head(air) \in AirPdu /\ air' \in Seq(AirPdu) /\ PdusFull'
  BY <1>1, <1>2, AirTail DEF StreamInv
<1>4. damaged' \in SUBSET (1 .. MaxSdus)
  BY <1>1, <1>2, <1>3 DEF AirPdu
<1>5. TypeOK'
  <2>1. /\ mConfig' \in Configs /\ tx' \in Transmitter /\ mVTUS' \in SN /\ mVRUS' \in SN
        /\ reader' \in {"idle", "filling", "aborted"} /\ rx' \in Receiver
        /\ air' \in Seq(AirPdu) /\ written' \in Seq(SduSizes)
        /\ dropped' \in SUBSET (1 .. MaxSdus) /\ damaged' \in SUBSET (1 .. MaxSdus)
    BY <1>1, <1>2, <1>3, <1>4
  <2> QED BY <2>1 DEF TypeOK, AirPdu
<1>6. SdusKept' /\ (TooLong' <=> TooLong) /\ (pdusFinished(tx)' <=> pdusFinished(tx))
  BY <1>1, SameSdus
<1>7. SomethingToSend' /\ NeverAborts' /\ Clean(rx)'
  BY <1>1, <1>6 DEF StreamInv, SomethingToSend, NeverAborts, TooLong, Clean
<1> QED BY <1>3, <1>5, <1>6, <1>7 DEF StreamInv

\* The steps that change nothing but where the reader is.
LEMMA ReaderInv ==
  StreamInv /\ (ReadLowSideChecks \/ ReadLowSideAsserts \/ UNCHANGED vars) => StreamInv'
<1> SUFFICES ASSUME StreamInv, ReadLowSideChecks \/ ReadLowSideAsserts \/ UNCHANGED vars
             PROVE  StreamInv'
  OBVIOUS
<1>1. UNCHANGED <<mConfig, tx, mVTUS, air, rx, mVRUS, written, lost, dropped, damaged>>
  BY DEF ReadLowSideChecks, ReadLowSideAsserts, vars
<1>2. SdusKept' /\ (TooLong' <=> TooLong) /\ (pdusFinished(tx)' <=> pdusFinished(tx))
  BY <1>1, SameSdus
<1>3. TypeOK' /\ Clean(rx)' /\ PdusFull'
  <2>1. reader' \in {"idle", "filling", "aborted"}
    BY DEF StreamInv, TypeOK, ReadLowSideChecks, ReadLowSideAsserts, vars
  <2> QED BY <1>1, <2>1 DEF StreamInv, TypeOK, Clean, PdusFull
<1>4. SomethingToSend' /\ NeverAborts'
  <2>1. SomethingToSend /\ (reader = "aborted" => TooLong)
    BY DEF StreamInv, NeverAborts, TooLong
  <2>2. CASE ReadLowSideChecks
    <3>1. reader' = "filling" /\ ~pdusFinished(tx)
      BY <2>2 DEF ReadLowSideChecks
    <3> QED BY <1>2, <3>1 DEF SomethingToSend, NeverAborts
  <2>3. CASE ReadLowSideAsserts
    <3>1. reader = "filling" /\ reader' = "aborted" /\ pdusFinished(tx)
      BY <2>3 DEF ReadLowSideAsserts
    <3>2. TooLong'
      BY <1>2, <2>1, <3>1 DEF SomethingToSend
    <3> QED BY <3>1, <3>2 DEF SomethingToSend, NeverAborts, TooLong
  <2>4. CASE UNCHANGED vars
    <3>1. reader' = reader
      BY <2>4 DEF vars
    <3>2. reader' = "aborted" => TooLong'
      BY <1>2, <2>1, <3>1
    <3> QED BY <1>2, <2>1, <3>1, <3>2 DEF SomethingToSend, NeverAborts, TooLong
  <2> QED BY <2>2, <2>3, <2>4
<1> QED BY <1>2, <1>3, <1>4 DEF StreamInv

LEMMA SpecStreamInv == Spec => []StreamInv
<1>1. StreamInv /\ [Next]_vars => StreamInv'
  BY WriteInv, FillInv, WriteLowSideInv, LoseInv, ReaderInv DEF Next
<1> QED BY InitInv, <1>1, PTL DEF Spec

\* Both ends and the PDUs between them keep their shape: what fillPduData and
\* parsePduData make of any PDU is a PDU and a receiver again, and numbers wrap.
THEOREM SpecTypeOK == Spec => []TypeOK
<1>1. StreamInv => TypeOK
  BY DEF StreamInv
<1> QED BY SpecStreamInv, <1>1, PTL

\* fillPduData accounts for each octet of a PDU (URlcTransAmUm.cpp:19-167),
\* whatever SDUs there are and whichever indicator comes first.
THEOREM SpecPdusFull == Spec => []PdusFull
<1>1. StreamInv => PdusFull
  BY DEF StreamInv
<1> QED BY SpecStreamInv, <1>1, PTL

\* The assertion at URlcRecvAmUm.cpp:198 holds, whatever is lost and whatever
\* the length indicators of a PDU say.
THEOREM SpecNoPartialSduWhenLost == Spec => []NoPartialSduWhenLost
<1>1. StreamInv => NoPartialSduWhenLost
  BY DEF StreamInv, Clean, NoPartialSduWhenLost
<1> QED BY SpecStreamInv, <1>1, PTL

\* fillPduData never asserts (URlcTransAmUm.cpp:45) unless an SDU is longer than
\* the whole buffer, although SDUs may be dropped after pdusFinished looked.
THEOREM SpecNeverAborts == Spec => []NeverAborts
<1>1. StreamInv => NeverAborts
  BY DEF StreamInv
<1> QED BY SpecStreamInv, <1>1, PTL
==============================================================================
