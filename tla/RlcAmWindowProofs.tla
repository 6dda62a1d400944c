------------------------- MODULE RlcAmWindowProofs --------------------------
(***************************************************************************)
(* The windows of the two ends of an acknowledged-mode link fit each       *)
(* other.  Places in the number space are counted from mVTA of the sender, *)
(* so that they compare like integers (Pos); the window is less than half  *)
(* of the space, which is what deltaSN needs.                              *)
(*                                                                         *)
(* What must hold between the two ends is a fact about four things,        *)
(* Aligned: the window, the peer's reception window and the PDUs under way *)
(* in both directions.  Every operation preserves it but the resets, which *)
(* are the subject of the second half of the module.                       *)
(***************************************************************************)
EXTENDS RlcAmProofs

\* The size of the transmission window.
W == mConfig.mConfigured_Tx_Window_Size

LEMMA WindowSize == W \in Nat /\ W < Half
BY ConfigAssumption, SMT DEF W, Half

\* Where sn is, seen from the oldest PDU that is not acknowledged.
Pos(w, sn) == deltaSN(sn, w.mVTA)

\* The window holds the PDUs from mVTA to mVTS, W of them at most.
SenderOk(w) ==
  /\ 0 <= Pos(w, w.mVTS) /\ Pos(w, w.mVTS) <= W
  /\ \A sn \in SN : w.mPduTxQ[sn] # NoPdu <=>
                      0 <= Pos(w, sn) /\ Pos(w, sn) < Pos(w, w.mVTS)

\* The reception window lies in it: mVTA <= mVRR <= mVRH <= mVTS.
ReceiverOk(w, r) ==
  /\ 0 <= Pos(w, r.mVRR) /\ Pos(w, r.mVRR) <= Pos(w, r.mVRH)
  /\ Pos(w, r.mVRH) <= Pos(w, w.mVTS)
  /\ 0 <= Pos(w, r.mStatusSN) /\ Pos(w, r.mStatusSN) <= Pos(w, r.mVRH)
  /\ \A sn \in SN : r.mPduRxQ[sn] # NoPdu =>
        Pos(w, r.mVRR) <= Pos(w, sn) /\ Pos(w, sn) < Pos(w, r.mVRH)

\* A data PDU under way is one sent, and not so old that its number could be
\* taken for a new one: below mVRH, and behind any PDU in front of it, by less
\* than a window.
DataOk(w, r, q) ==
  /\ \A i \in 1 .. Len(q) : q[i].type = "DATA" =>
       Pos(w, r.mVRH) - W <= Pos(w, q[i].sn) /\ Pos(w, q[i].sn) < Pos(w, w.mVTS)
  /\ \A i, j \in 1 .. Len(q) :
       i < j /\ q[i].type = "DATA" /\ q[j].type = "DATA" =>
         Pos(w, q[i].sn) - W < Pos(w, q[j].sn)

\* A status PDU under way names numbers of the window, and nothing that a report
\* without gaps in front of it acknowledges.
StatusOk(w, q) ==
  /\ \A i \in 1 .. Len(q) : q[i].type = "STATUS" =>
       /\ 0 <= Pos(w, q[i].lsn) /\ Pos(w, q[i].lsn) <= Pos(w, w.mVTS)
       /\ q[i].nacks # {} => q[i].first \in q[i].nacks
       /\ \A n \in q[i].nacks : 0 <= Pos(w, n) /\ Pos(w, n) <= Pos(w, w.mVTS)
  /\ \A i, j \in 1 .. Len(q) :
       i < j /\ q[i].type = "STATUS" /\ q[j].type = "STATUS" /\ q[i].nacks = {} =>
         \A n \in q[j].nacks \cup {q[j].lsn} : Pos(w, q[i].lsn) <= Pos(w, n)

\* What a report without gaps acknowledges the receiver has had, and it will
\* start no report before that.
AcksOk(w, r, q) ==
  \A i \in 1 .. Len(q) : q[i].type = "STATUS" /\ q[i].nacks = {} =>
    Pos(w, q[i].lsn) <= Pos(w, r.mVRR) /\ Pos(w, q[i].lsn) <= Pos(w, r.mStatusSN)

\* The inductive invariant of one direction: a transmission window, the peer's
\* reception window, the data PDUs on their way there and the status PDUs back.
Aligned(w, r, dq, sq) ==
  /\ SenderOk(w) /\ ReceiverOk(w, r) /\ DataOk(w, r, dq)
  /\ StatusOk(w, sq) /\ AcksOk(w, r, sq)

LEMMA PosType ==
  ASSUME NEW w \in Window, NEW sn \in SN
  PROVE  Pos(w, sn) \in Int /\ -Half <= Pos(w, sn) /\ Pos(w, sn) <= Half
BY PduSnType, DeltaSNCases, HalfType, SMT DEF Pos

LEMMA PosZero ==
  ASSUME NEW w \in Window, NEW sn \in SN
  PROVE  Pos(w, sn) = 0 <=> sn = w.mVTA
BY PduSnType, DeltaZero, Zenon DEF Pos

\* Numbers of the window are compared as their places are.
LEMMA PosDelta ==
  ASSUME NEW w \in Window, NEW x \in SN, NEW y \in SN,
         Pos(w, x) - Pos(w, y) < Half, -Half < Pos(w, x) - Pos(w, y)
  PROVE  deltaSN(x, y) = Pos(w, x) - Pos(w, y)
BY PduSnType, DeltaShift DEF Pos

LEMMA PosEqual ==
  ASSUME NEW w \in Window, NEW x \in SN, NEW y \in SN, Pos(w, x) = Pos(w, y)
  PROVE  x = y
<1>1. deltaSN(x, y) = 0
  BY PosDelta, PosType, HalfType, SMT
<1> QED BY <1>1, DeltaZero

LEMMA PosInc ==
  ASSUME NEW w \in Window, NEW sn \in SN,
         -Half < Pos(w, sn), Pos(w, sn) < Half - 1
  PROVE  incSN(sn) \in SN /\ Pos(w, incSN(sn)) = Pos(w, sn) + 1
BY PduSnType, DeltaInc DEF Pos

LEMMA PosSpan ==
  ASSUME NEW w \in Window, NEW from \in SN, NEW to \in SN, NEW sn \in SN,
         0 <= Pos(w, from), Pos(w, from) <= Pos(w, to), Pos(w, to) <= W
  PROVE  sn \in Span(from, to) <=> Pos(w, from) <= Pos(w, sn) /\ Pos(w, sn) < Pos(w, to)
<1>1. /\ Pos(w, from) \in Int /\ Pos(w, to) \in Int /\ Pos(w, sn) \in Int
      /\ -Half <= Pos(w, sn) /\ Pos(w, sn) <= Half
      /\ W \in Nat /\ W < Half /\ Half \in Nat
  BY PosType, WindowSize, HalfType
<1>2. deltaSN(to, from) = Pos(w, to) - Pos(w, from)
  BY <1>1, PosDelta, SMT
<1>3. sn \in Span(from, to) <=>
        0 <= deltaSN(sn, from) /\ deltaSN(sn, from) < deltaSN(to, from)
  BY <1>1, <1>2, SpanDelta, SMT
<1>4. ASSUME Pos(w, from) <= Pos(w, sn), Pos(w, sn) < Pos(w, to)
      PROVE  sn \in Span(from, to)
  <2>1. deltaSN(sn, from) = Pos(w, sn) - Pos(w, from)
    BY <1>1, <1>4, PosDelta, SMT
  <2> QED BY <1>1, <1>2, <1>3, <1>4, <2>1, SMT
<1>5. ASSUME 0 <= deltaSN(sn, from), deltaSN(sn, from) < deltaSN(to, from)
      PROVE  Pos(w, from) <= Pos(w, sn) /\ Pos(w, sn) < Pos(w, to)
  <2>1. deltaSN(w.mVTA, from) = - Pos(w, from)
    BY <1>1, PduSnType, DeltaSNCases, HalfType, SMT DEF Pos
  <2>2. deltaSN(sn, from) \in Int
    BY DeltaSNCases
  <2>3. deltaSN(sn, w.mVTA) = deltaSN(sn, from) - deltaSN(w.mVTA, from)
    <3>1. /\ deltaSN(sn, from) - deltaSN(w.mVTA, from) < Half
          /\ -Half < deltaSN(sn, from) - deltaSN(w.mVTA, from)
      BY <1>1, <1>2, <1>5, <2>1, <2>2, SMT
    <3> QED BY <3>1, DeltaShift, PduSnType
  <2> QED BY <1>1, <1>2, <1>5, <2>1, <2>2, <2>3, SMT DEF Pos
<1> QED BY <1>3, <1>4, <1>5

\* Seen from another mVTA all places shift.
LEMMA PosRebase ==
  ASSUME NEW w \in Window, NEW v \in Window, NEW sn \in SN,
         Pos(w, sn) - Pos(w, v.mVTA) < Half, -Half < Pos(w, sn) - Pos(w, v.mVTA)
  PROVE  Pos(v, sn) = Pos(w, sn) - Pos(w, v.mVTA)
BY PduSnType, DeltaShift DEF Pos

-----------------------------------------------------------------------------
(* What leaves the window as it is, and what enters or leaves a link.      *)

\* Two windows that differ in what NACKs and counts the PDUs have.
SameWindow(w, v) ==
  /\ v.mVTS = w.mVTS /\ v.mVTA = w.mVTA
  /\ \A sn \in SN : v.mPduTxQ[sn] = NoPdu <=> w.mPduTxQ[sn] = NoPdu

LEMMA SameWindowOk ==
  ASSUME NEW w \in Window, NEW v \in Window, SameWindow(w, v)
  PROVE  /\ SenderOk(w) => SenderOk(v)
         /\ \A q : StatusOk(w, q) => StatusOk(v, q)
         /\ \A r, dq, sq : Aligned(w, r, dq, sq) => Aligned(v, r, dq, sq)
<1>1. \A sn : Pos(v, sn) = Pos(w, sn)
  BY Zenon DEF SameWindow, Pos
<1>2. v.mVTS = w.mVTS
  BY DEF SameWindow
<1>3. SenderOk(w) => SenderOk(v)
  BY <1>1, <1>2, SMT DEF SenderOk, SameWindow
<1>4. \A q : StatusOk(w, q) => StatusOk(v, q)
  BY <1>1, <1>2, SMT DEF StatusOk
<1>5. \A r : ReceiverOk(w, r) => ReceiverOk(v, r)
  BY <1>1, <1>2, SMT DEF ReceiverOk
<1>6. \A r, q : DataOk(w, r, q) => DataOk(v, r, q)
  BY <1>1, <1>2, Zenon DEF DataOk
<1>7. \A r, q : AcksOk(w, r, q) => AcksOk(v, r, q)
  BY <1>1, <1>2, Zenon DEF AcksOk
<1> QED
  BY <1>3, <1>4, <1>5, <1>6, <1>7, Zenon DEF Aligned

LEMMA SameWindowTrans ==
  ASSUME NEW w, NEW v, NEW u, SameWindow(w, v), SameWindow(v, u)
  PROVE  SameWindow(w, u)
BY Zenon DEF SameWindow

LEMMA CountTransmissionSame ==
  ASSUME NEW w \in Window, NEW sn \in SN, w.mPduTxQ[sn] \in TxPdu
  PROVE  SameWindow(w, CountTransmission(w, sn))
<1> DEFINE pdu == [w.mPduTxQ[sn] EXCEPT !.mVTDAT = w.mPduTxQ[sn].mVTDAT + 1]
           q   == [w.mPduTxQ EXCEPT ![sn] = pdu]
<1>1. w.mPduTxQ[sn].mVTDAT + 1 \in Nat
  BY SMT DEF TxPdu
<1>2. pdu \in TxPdu
  BY <1>1, Zenon DEF TxPdu
<1>3. pdu # NoPdu /\ w.mPduTxQ[sn] # NoPdu
  BY <1>2, NullAssumption
<1>5. \A x \in SN : q[x] = IF x = sn THEN pdu ELSE w.mPduTxQ[x]
  BY PduSnType, Zenon
<1>6. CountTransmission(w, sn) = [w EXCEPT !.mPduTxQ = q]
  BY Zenon DEF CountTransmission
<1> HIDE DEF pdu, q
<1>7. /\ CountTransmission(w, sn).mPduTxQ = q
      /\ CountTransmission(w, sn).mVTS = w.mVTS
      /\ CountTransmission(w, sn).mVTA = w.mVTA
  BY <1>6, Zenon DEF Window
<1> QED
  BY <1>3, <1>5, <1>7, Zenon DEF SameWindow

LEMMA AdvanceVSSame ==
  ASSUME NEW w \in Window, NEW from \in SN
  PROVE  SameWindow(w, advanceVS(w, from))
<1>1. /\ advanceVS(w, from).mVTS = w.mVTS
      /\ advanceVS(w, from).mVTA = w.mVTA
      /\ advanceVS(w, from).mPduTxQ = w.mPduTxQ
  BY Zenon DEF advanceVS, Window
<1> QED
  BY <1>1, Zenon DEF SameWindow

LEMMA RetransmittedSame ==
  ASSUME NEW w \in Window, w.mNackedBlocksWaiting, NackOk(w)
  PROVE  SameWindow(w, Retransmitted(w))
<1> DEFINE pdu == [w.mPduTxQ[w.mVSNack] EXCEPT !.mNacked = FALSE]
           q   == [w.mPduTxQ EXCEPT ![w.mVSNack] = pdu]
           cleared == [w EXCEPT !.mPduTxQ = q]
<1>1. w.mVSNack \in SN
  BY PduSnType
<1>2. w.mPduTxQ[w.mVSNack] \in TxPdu
  BY <1>1, IsNackedTxPdu, Zenon DEF NackOk
<1>3. pdu \in TxPdu
  BY <1>2, Zenon DEF TxPdu
<1>4. /\ q \in [SN -> TxPdu \cup {NoPdu}]
      /\ \A x \in SN : q[x] = IF x = w.mVSNack THEN pdu ELSE w.mPduTxQ[x]
  BY <1>1, <1>3, PduSnType, Zenon
<1>5. Retransmitted(w) = advanceVS(cleared, incSN(w.mVSNack))
  BY Zenon DEF Retransmitted
<1>6. pdu # NoPdu /\ w.mPduTxQ[w.mVSNack] # NoPdu
  BY <1>2, <1>3, NullAssumption
<1> HIDE DEF pdu, q
<1>7. cleared \in Window /\ cleared.mPduTxQ = q
      /\ cleared.mVTS = w.mVTS /\ cleared.mVTA = w.mVTA
  BY <1>4, Zenon DEF Window
<1>8. SameWindow(w, cleared)
  BY <1>4, <1>6, <1>7, Zenon DEF SameWindow
<1>9. incSN(w.mVSNack) \in SN
  BY <1>1, IncSNType
<1> HIDE DEF cleared
<1> QED
  BY <1>5, <1>7, <1>8, <1>9, AdvanceVSSame, SameWindowTrans, Zenon

LEMMA SetNAckSame ==
  ASSUME NEW w \in Window, NEW nacks \in SUBSET SN
  PROVE  SameWindow(w, setNAck(w, nacks))
<1> DEFINE hit == {sn \in nacks : w.mPduTxQ[sn] # NoPdu}
           q   == [sn \in SN |-> IF sn \in hit
                                 THEN [w.mPduTxQ[sn] EXCEPT !.mNacked = TRUE]
                                 ELSE w.mPduTxQ[sn]]
<1>1. \A sn \in hit : [w.mPduTxQ[sn] EXCEPT !.mNacked = TRUE] \in TxPdu
  BY PduSnType, Zenon DEF TxPdu
<1>2. \A sn \in SN : q[sn] = NoPdu <=> w.mPduTxQ[sn] = NoPdu
  BY <1>1, NullAssumption, Zenon
<1>3. setNAck(w, nacks) =
        [w EXCEPT !.mPduTxQ = q,
                  !.mNackedBlocksWaiting = w.mNackedBlocksWaiting \/ hit # {}]
  BY Zenon DEF setNAck
<1> HIDE DEF q, hit
<1>4. /\ setNAck(w, nacks).mPduTxQ = q
      /\ setNAck(w, nacks).mVTS = w.mVTS /\ setNAck(w, nacks).mVTA = w.mVTA
  BY <1>3, Zenon DEF Window
<1> QED
  BY <1>2, <1>4, Zenon DEF SameWindow

-----------------------------------------------------------------------------
LEMMA TailIndex ==
  ASSUME NEW q \in Seq(Pdu), q # <<>>
  PROVE  /\ Tail(q) \in Seq(Pdu)
         /\ Len(q) \in Nat /\ Len(q) >= 1 /\ Len(Tail(q)) = Len(q) - 1
         /\ \A i \in 1 .. Len(Tail(q)) : i + 1 \in 1 .. Len(q) /\ Tail(q)[i] = q[i + 1]
         /\ Head(q) = q[1]
BY HeadTailProperties, LenProperties, SMT

LEMMA AppendIndex ==
  ASSUME NEW q \in Seq(Pdu), NEW m \in Pdu
  PROVE  /\ Append(q, m) \in Seq(Pdu)
         /\ Len(q) \in Nat /\ Len(Append(q, m)) = Len(q) + 1
         /\ \A i \in 1 .. Len(q) : Append(q, m)[i] = q[i]
         /\ Append(q, m)[Len(q) + 1] = m
BY AppendProperties, LenProperties, SMT

LEMMA TailOk ==
  ASSUME NEW q \in Seq(Pdu), q # <<>>, NEW w, NEW r
  PROVE  /\ DataOk(w, r, q) => DataOk(w, r, Tail(q))
         /\ StatusOk(w, q) => StatusOk(w, Tail(q))
         /\ AcksOk(w, r, q) => AcksOk(w, r, Tail(q))
<1>1. \A i \in 1 .. Len(Tail(q)) : i + 1 \in 1 .. Len(q) /\ Tail(q)[i] = q[i + 1]
  BY TailIndex
<1>2. \A i, j \in 1 .. Len(Tail(q)) : i < j => i + 1 < j + 1
  BY TailIndex, SMT
<1>3. DataOk(w, r, q) => DataOk(w, r, Tail(q))
  BY <1>1, <1>2, Zenon DEF DataOk
<1>4. StatusOk(w, q) => StatusOk(w, Tail(q))
  BY <1>1, <1>2, Zenon DEF StatusOk
<1>5. AcksOk(w, r, q) => AcksOk(w, r, Tail(q))
  BY <1>1, <1>2, Zenon DEF AcksOk
<1> QED
  BY <1>3, <1>4, <1>5

LEMMA AppendOtherOk ==
  ASSUME NEW q \in Seq(Pdu), NEW m \in Pdu, NEW w, NEW r
  PROVE  /\ m.type # "DATA" /\ DataOk(w, r, q) => DataOk(w, r, Append(q, m))
         /\ m.type # "STATUS" /\ StatusOk(w, q) => StatusOk(w, Append(q, m))
         /\ m.type # "STATUS" /\ AcksOk(w, r, q) => AcksOk(w, r, Append(q, m))
<1>1. \A i \in 1 .. Len(Append(q, m)) :
        \/ i \in 1 .. Len(q) /\ Append(q, m)[i] = q[i]
        \/ Append(q, m)[i] = m
  BY AppendIndex, SMT
<1>3. m.type # "DATA" /\ DataOk(w, r, q) => DataOk(w, r, Append(q, m))
  BY <1>1, Zenon DEF DataOk
<1>4. m.type # "STATUS" /\ StatusOk(w, q) => StatusOk(w, Append(q, m))
  BY <1>1, Zenon DEF StatusOk
<1>5. m.type # "STATUS" /\ AcksOk(w, r, q) => AcksOk(w, r, Append(q, m))
  BY <1>1, Zenon DEF AcksOk
<1> QED
  BY <1>3, <1>4, <1>5

-----------------------------------------------------------------------------
(* The sender.                                                             *)

LEMMA NewDataOk ==
  ASSUME NEW w \in Window, NEW payload \in Payload, SenderOk(w), ~stalled(w)
  PROVE  LET v == getDataPdu(w, payload)
         IN  /\ SenderOk(v)
             /\ 0 <= Pos(v, w.mVTS) /\ Pos(v, w.mVTS) < Pos(v, v.mVTS)
             /\ \A q \in Seq(Pdu) : StatusOk(w, q) => StatusOk(v, q)
             /\ \A r \in Rx : \A dq, sq \in Seq(Pdu) :
                  Aligned(w, r, dq, sq) => Aligned(v, r, dq, sq)
<1> DEFINE v == getDataPdu(w, payload)
           pdu == [payload |-> payload, mNacked |-> FALSE, mVTDAT |-> 0]
           n == Pos(w, w.mVTS)
<1>1. pdu # NoPdu
  <2>1. pdu \in TxPdu
    BY SMT DEF TxPdu
  <2> QED BY <2>1, NullAssumption
<1>2. n \in Int /\ 0 <= n /\ n < W /\ W \in Nat /\ W < Half /\ Half \in Nat
  BY PosType, PduSnType, WindowSize, HalfType, SMT DEF SenderOk, stalled, Pos, W
<1>3. incSN(w.mVTS) \in SN /\ Pos(w, incSN(w.mVTS)) = n + 1
  <2>1. -Half < n /\ n < Half - 1
    BY <1>2, SMT
  <2> QED BY <2>1, PosInc, PduSnType
<1>4. v = [w EXCEPT !.mPduTxQ = [w.mPduTxQ EXCEPT ![w.mVTS] = pdu],
                    !.mVTS = incSN(w.mVTS)]
  BY Zenon DEF getDataPdu
<1>5. \A x \in SN : [w.mPduTxQ EXCEPT ![w.mVTS] = pdu][x] =
                      IF x = w.mVTS THEN pdu ELSE w.mPduTxQ[x]
  BY PduSnType, Zenon
<1> HIDE DEF v, pdu, n
<1>6. /\ v.mVTA = w.mVTA /\ v.mVTS = incSN(w.mVTS)
      /\ \A x \in SN : v.mPduTxQ[x] # NoPdu <=> x = w.mVTS \/ w.mPduTxQ[x] # NoPdu
  BY <1>1, <1>4, <1>5, Zenon DEF Window
<1>7. \A x : Pos(v, x) = Pos(w, x)
  BY <1>6, Zenon DEF Pos
<1>8. \A x \in SN : Pos(w, x) \in Int
  BY PosType
<1>9. \A x \in SN : x = w.mVTS <=> Pos(w, x) = n
  BY PosEqual, PduSnType DEF n
<1>10. SenderOk(v)
  <2>1. \A x \in SN : w.mPduTxQ[x] # NoPdu <=> 0 <= Pos(w, x) /\ Pos(w, x) < n
    BY DEF SenderOk, n
  <2> QED
    BY <1>2, <1>3, <1>6, <1>7, <1>8, <1>9, <2>1, SMT DEF SenderOk
<1>11. 0 <= Pos(v, w.mVTS) /\ Pos(v, w.mVTS) < Pos(v, v.mVTS)
  BY <1>2, <1>3, <1>6, <1>7, SMT DEF n
<1>12. Pos(v, v.mVTS) = n + 1
  BY <1>3, <1>6, <1>7
<1>13. ASSUME NEW q \in Seq(Pdu), StatusOk(w, q) PROVE StatusOk(v, q)
  <2>1. \A x \in SN : Pos(w, x) <= n => Pos(v, x) <= n + 1
    BY <1>2, <1>7, <1>8, SMT
  <2>2. \A i \in 1 .. Len(q) : q[i].type = "STATUS" => q[i] \in Status
    BY PduKinds, LenProperties, ElementOfSeq
  <2>3. \A s \in Status : s.lsn \in SN /\ s.nacks \in SUBSET SN
    BY Zenon DEF Status
  <2>4. \A i \in 1 .. Len(q) : q[i].type = "STATUS" =>
          /\ 0 <= Pos(v, q[i].lsn) /\ Pos(v, q[i].lsn) <= Pos(v, v.mVTS)
          /\ q[i].nacks # {} => q[i].first \in q[i].nacks
          /\ \A x \in q[i].nacks : 0 <= Pos(v, x) /\ Pos(v, x) <= Pos(v, v.mVTS)
    BY <1>7, <1>12, <1>13, <2>1, <2>2, <2>3, Zenon DEF StatusOk, n
  <2>5. \A i, j \in 1 .. Len(q) :
          i < j /\ q[i].type = "STATUS" /\ q[j].type = "STATUS" /\ q[i].nacks = {} =>
            \A x \in q[j].nacks \cup {q[j].lsn} : Pos(v, q[i].lsn) <= Pos(v, x)
    BY <1>7, <1>13, SMT DEF StatusOk
  <2> QED BY <2>4, <2>5 DEF StatusOk
<1>14. ASSUME NEW r \in Rx, NEW dq \in Seq(Pdu), NEW sq \in Seq(Pdu),
              Aligned(w, r, dq, sq)
       PROVE  Aligned(v, r, dq, sq)
  <2>1. ReceiverOk(v, r)
    <3>1. Pos(w, r.mVRH) \in Int
      BY <1>8, RxType
    <3> QED
      BY <1>2, <1>7, <1>12, <1>14, <3>1, SMT DEF ReceiverOk, Aligned, n
  <2>2. DataOk(v, r, dq)
    <3>1. \A i \in 1 .. Len(dq) : dq[i].type = "DATA" => dq[i] \in Data
      BY PduKinds, LenProperties, ElementOfSeq
    <3>2. \A d \in Data : d.sn \in SN
      BY SMT DEF Data
    <3>3. \A x \in SN : Pos(w, x) < n => Pos(v, x) < n + 1
      BY <1>2, <1>7, <1>8, SMT
    <3> QED
      BY <1>7, <1>12, <1>14, <3>1, <3>2, <3>3, SMT DEF Aligned, DataOk, n
  <2>3. AcksOk(v, r, sq)
    BY <1>7, <1>14, SMT DEF Aligned, AcksOk
  <2> QED
    BY <1>10, <1>13, <1>14, <2>1, <2>2, <2>3 DEF Aligned
<1> QED
  BY <1>10, <1>11, <1>13, <1>14 DEF v

LEMMA DataSentOk ==
  ASSUME NEW w \in Window, NEW r \in Rx, NEW dq \in Seq(Pdu), NEW sq \in Seq(Pdu),
         NEW m \in Data, Aligned(w, r, dq, sq),
         0 <= Pos(w, m.sn), Pos(w, m.sn) < Pos(w, w.mVTS)
  PROVE  Aligned(w, r, Append(dq, m), sq)
<1>1. m \in Pdu /\ m.sn \in SN
  BY SMT DEF Data, Pdu
<1>2. \A i \in 1 .. Len(Append(dq, m)) :
        \/ i \in 1 .. Len(dq) /\ Append(dq, m)[i] = dq[i]
        \/ i = Len(dq) + 1 /\ Append(dq, m)[i] = m
  <2>1. Len(dq) \in Nat /\ Len(Append(dq, m)) = Len(dq) + 1
    BY <1>1, AppendIndex
  <2>2. \A i \in 1 .. Len(Append(dq, m)) : i \in 1 .. Len(dq) \/ i = Len(dq) + 1
    BY <2>1, SMT
  <2>3. /\ \A i \in 1 .. Len(dq) : Append(dq, m)[i] = dq[i]
        /\ Append(dq, m)[Len(dq) + 1] = m
    BY <1>1, AppendIndex
  <2> QED BY <2>2, <2>3, SMT
<1>3. /\ Pos(w, m.sn) \in Int /\ Pos(w, r.mVRH) \in Int /\ Pos(w, w.mVTS) \in Int
      /\ W \in Nat /\ Len(dq) \in Nat
      /\ Pos(w, r.mVRH) <= Pos(w, w.mVTS) /\ Pos(w, w.mVTS) <= W
  BY <1>1, PosType, RxType, PduSnType, WindowSize, AppendIndex
     DEF Aligned, SenderOk, ReceiverOk
<1>4. \A i \in 1 .. Len(dq) : dq[i].type = "DATA" =>
        /\ Pos(w, r.mVRH) - W <= Pos(w, dq[i].sn)
        /\ Pos(w, dq[i].sn) < Pos(w, w.mVTS)
        /\ Pos(w, dq[i].sn) \in Int
  <2>1. \A i \in 1 .. Len(dq) : dq[i].type = "DATA" => dq[i] \in Data
    BY PduKinds, LenProperties, ElementOfSeq
  <2>2. \A d \in Data : d.sn \in SN
    BY SMT DEF Data
  <2> QED
    BY <2>1, <2>2, PosType, Zenon DEF Aligned, DataOk
<1>5. \A i \in 1 .. Len(Append(dq, m)) : Append(dq, m)[i].type = "DATA" =>
        /\ Pos(w, r.mVRH) - W <= Pos(w, Append(dq, m)[i].sn)
        /\ Pos(w, Append(dq, m)[i].sn) < Pos(w, w.mVTS)
  <2>1. Pos(w, r.mVRH) - W <= Pos(w, m.sn)
    BY <1>3, SMT
  <2> QED BY <1>2, <1>4, <2>1, Zenon
<1>6. \A i, j \in 1 .. Len(Append(dq, m)) :
        i < j /\ Append(dq, m)[i].type = "DATA" /\ Append(dq, m)[j].type = "DATA" =>
          Pos(w, Append(dq, m)[i].sn) - W < Pos(w, Append(dq, m)[j].sn)
  <2> SUFFICES ASSUME NEW i \in 1 .. Len(Append(dq, m)), NEW j \in 1 .. Len(Append(dq, m)),
                      i < j, Append(dq, m)[i].type = "DATA", Append(dq, m)[j].type = "DATA"
               PROVE  Pos(w, Append(dq, m)[i].sn) - W < Pos(w, Append(dq, m)[j].sn)
    OBVIOUS
  <2>1. i \in 1 .. Len(dq) /\ Append(dq, m)[i] = dq[i]
    BY <1>1, <1>2, <1>3, AppendIndex, SMT
  <2>2. CASE j \in 1 .. Len(dq) /\ Append(dq, m)[j] = dq[j]
    BY <2>1, <2>2, Zenon DEF Aligned, DataOk
  <2>3. CASE Append(dq, m)[j] = m
    <3>1. /\ Pos(w, dq[i].sn) < Pos(w, w.mVTS) /\ Pos(w, dq[i].sn) \in Int
      BY <1>4, <2>1
    <3>2. Pos(w, dq[i].sn) - W < Pos(w, m.sn)
      BY <1>3, <3>1, SMT
    <3> QED BY <2>1, <2>3, <3>2
  <2> QED BY <1>2, <2>2, <2>3
<1> QED
  BY <1>5, <1>6, Zenon DEF Aligned, DataOk

\* v is w with mVTA moved on to n and the PDUs before n freed.
AdvancedTo(w, v, n) ==
  /\ v.mVTA = n /\ v.mVTS = w.mVTS
  /\ \A sn \in SN : v.mPduTxQ[sn] # NoPdu <=>
                      w.mPduTxQ[sn] # NoPdu /\ sn \notin Span(w.mVTA, n)

LEMMA AdvanceVTATo ==
  ASSUME NEW w \in Window, NEW n \in SN, 0 <= Pos(w, n), Pos(w, n) <= W
  PROVE  AdvancedTo(w, advanceVTA(w, n), n)
<1>1. /\ W < Half /\ Half \in Nat /\ Half >= 1 /\ W \in Nat
      /\ Pos(w, n) \in Int /\ w.mVTA \in SN
  BY WindowSize, HalfType, PosType, PduSnType
<1>2. Pos(w, w.mVTA) = 0
  BY <1>1, PosZero
<1>3. deltaSN(w.mVTA, n) = - Pos(w, n)
  BY <1>1, <1>2, PosDelta, SMT
<1>4. CASE Pos(w, n) > 0
  <2> DEFINE q == [sn \in SN |-> IF sn \in Span(w.mVTA, n) THEN NoPdu ELSE w.mPduTxQ[sn]]
  <2>1. deltaSN(w.mVTA, n) < 0
    BY <1>1, <1>3, <1>4, SMT
  <2>2. advanceVTA(w, n) = [w EXCEPT !.mVTA = n, !.mPduTxQ = q]
    BY <2>1, Zenon DEF advanceVTA
  <2>3. \A sn \in SN : q[sn] = IF sn \in Span(w.mVTA, n) THEN NoPdu ELSE w.mPduTxQ[sn]
    BY Zenon
  <2> HIDE DEF q
  <2>4. /\ advanceVTA(w, n).mVTA = n /\ advanceVTA(w, n).mVTS = w.mVTS
        /\ advanceVTA(w, n).mPduTxQ = q
    BY <2>2, Zenon DEF Window
  <2> QED
    BY <2>3, <2>4, Zenon DEF AdvancedTo
<1>5. CASE Pos(w, n) = 0
  <2>1. n = w.mVTA
    BY <1>5, PosZero
  <2>2. ~ (deltaSN(w.mVTA, n) < 0)
    BY <1>1, <1>3, <1>5, SMT
  <2>3. advanceVTA(w, n) = w
    BY <2>2, Zenon DEF advanceVTA
  <2>4. Span(w.mVTA, n) = {}
    BY <2>2, Zenon DEF Span
  <2> QED
    BY <2>1, <2>3, <2>4, Zenon DEF AdvancedTo
<1> QED
  BY <1>1, <1>4, <1>5, SMT

LEMMA ProcessSUFIsTo ==
  ASSUME NEW w \in Window, NEW status \in Status,
         0 <= Pos(w, status.lsn), Pos(w, status.lsn) <= W,
         status.nacks # {} => status.first \in status.nacks,
         \A x \in status.nacks : 0 <= Pos(w, x) /\ Pos(w, x) <= W
  PROVE  AdvancedTo(w, processSUFIs2(w, status),
                    IF status.nacks = {} THEN status.lsn ELSE w.mVTA)
<1> DEFINE newva == minSN(w.mVTA, status.first)
           bound == IF status.nacks = {} \/ deltaSN(status.lsn, newva) <= 0
                    THEN status.lsn ELSE newva
           target == IF status.nacks = {} THEN status.lsn ELSE w.mVTA
           s == setNAck(w, status.nacks)
           acked == advanceVTA(s, bound)
<1>1. /\ status.nacks \in SUBSET SN /\ status.first \in SN /\ status.lsn \in SN
      /\ w.mVTA \in SN /\ Pos(w, w.mVTA) = 0
      /\ W \in Nat /\ W < Half /\ Half \in Nat
  BY PduSnType, PosZero, WindowSize, HalfType, Zenon DEF Status
<1>2. bound = target
  <2>1. CASE status.nacks = {}
    BY <2>1
  <2>2. CASE status.nacks # {}
    <3>1. Pos(w, status.first) \in Int /\ 0 <= Pos(w, status.first)
          /\ Pos(w, status.first) <= W
      BY <1>1, <2>2, PosType
    <3>2. deltaSN(w.mVTA, status.first) = - Pos(w, status.first)
      BY <1>1, <3>1, PosDelta, SMT
    <3>3. newva = w.mVTA
      BY <3>1, <3>2, SMT DEF minSN
    <3>4. deltaSN(status.lsn, w.mVTA) = Pos(w, status.lsn)
      BY DEF Pos
    <3>5. CASE Pos(w, status.lsn) = 0
      BY <1>1, <2>2, <3>3, <3>5, PosZero
    <3>6. CASE Pos(w, status.lsn) # 0
      <4>1. ~ (deltaSN(status.lsn, newva) <= 0)
        BY <1>1, <3>3, <3>4, <3>6, PosType, SMT
      <4> QED BY <2>2, <3>3, <4>1, Zenon
    <3> QED BY <3>5, <3>6
  <2> QED BY <2>1, <2>2
<1>3. s \in Window /\ SameWindow(w, s)
  BY <1>1, SetNAckType, SetNAckSame
<1>4. target \in SN /\ 0 <= Pos(w, target) /\ Pos(w, target) <= W
  BY <1>1, SMT
<1>5. acked \in Window
  BY <1>2, <1>3, <1>4, AdvanceVTAType, Zenon
<1>6. AdvancedTo(s, acked, target)
  <2>1. Pos(s, target) = Pos(w, target)
    BY <1>3, Zenon DEF SameWindow, Pos
  <2> HIDE DEF s, target, bound
  <2> QED BY <1>2, <1>3, <1>4, <2>1, AdvanceVTATo
<1>7. processSUFIs2(w, status) =
        IF acked.mNackedBlocksWaiting THEN advanceVS(acked, acked.mVTA) ELSE acked
  BY Zenon DEF processSUFIs2
<1> HIDE DEF acked, s, target
<1>8. SameWindow(acked, processSUFIs2(w, status))
  <2>1. CASE acked.mNackedBlocksWaiting
    BY <1>5, <1>7, <2>1, AdvanceVSSame, PduSnType, Zenon
  <2>2. CASE ~acked.mNackedBlocksWaiting
    BY <1>7, <2>2, Zenon DEF SameWindow
  <2> QED BY <2>1, <2>2
<1>9. AdvancedTo(w, processSUFIs2(w, status), target)
  BY <1>3, <1>6, <1>8, Zenon DEF AdvancedTo, SameWindow
<1> QED
  BY <1>9 DEF target

\* All numbers that matter are seen from the new mVTA as they were from the old
\* one, nearer by the distance it moved.
LEMMA AdvancedPos ==
  ASSUME NEW w \in Window, NEW v \in Window, NEW n \in SN, AdvancedTo(w, v, n),
         SenderOk(w), 0 <= Pos(w, n), Pos(w, n) <= Pos(w, w.mVTS)
  PROVE  /\ Pos(v, v.mVTS) = Pos(w, w.mVTS) - Pos(w, n)
         /\ \A x \in SN : Pos(w, n) - W <= Pos(w, x) /\ Pos(w, x) <= W =>
              Pos(v, x) = Pos(w, x) - Pos(w, n)
         /\ SenderOk(v)
<1> DEFINE d == Pos(w, n)
           t == Pos(w, w.mVTS)
<1>1. /\ d \in Int /\ 0 <= d /\ d <= t /\ t \in Int /\ t <= W /\ W \in Nat
      /\ W < Half /\ Half \in Nat /\ w.mVTS \in SN /\ w.mVTA \in SN
      /\ v.mVTA = n /\ v.mVTS = w.mVTS
  BY PosType, PduSnType, WindowSize, HalfType DEF SenderOk, AdvancedTo
<1>2. \A x \in SN : Pos(w, x) \in Int /\ -Half <= Pos(w, x) /\ Pos(w, x) <= Half
                    /\ Pos(v, x) \in Int
  BY PosType
<1>3. ASSUME NEW x \in SN, d - W <= Pos(w, x), Pos(w, x) <= W
      PROVE  Pos(v, x) = Pos(w, x) - d
  <2>1. Pos(w, x) - d < Half /\ -Half < Pos(w, x) - d
    BY <1>1, <1>2, <1>3, SMT
  <2> HIDE DEF d
  <2> QED BY <1>1, <2>1, PosRebase DEF d
<1>4. Pos(v, v.mVTS) = t - d
  <2>1. d - W <= t
    BY <1>1, SMT
  <2> QED BY <1>1, <1>3, <2>1
<1>5. ASSUME NEW x \in SN
      PROVE  v.mPduTxQ[x] # NoPdu <=> 0 <= Pos(v, x) /\ Pos(v, x) < Pos(v, v.mVTS)
  <2>1. v.mPduTxQ[x] # NoPdu <=> w.mPduTxQ[x] # NoPdu /\ x \notin Span(w.mVTA, n)
    BY DEF AdvancedTo
  <2>2. w.mPduTxQ[x] # NoPdu <=> 0 <= Pos(w, x) /\ Pos(w, x) < t
    BY DEF SenderOk
  <2>3. x \in Span(w.mVTA, n) <=> 0 <= Pos(w, x) /\ Pos(w, x) < d
    <3>1. Pos(w, w.mVTA) = 0 /\ d <= W
      BY <1>1, PosZero, SMT
    <3> QED BY <1>1, <3>1, PosSpan
  <2>4. v.mPduTxQ[x] # NoPdu <=> d <= Pos(w, x) /\ Pos(w, x) < t
    BY <1>1, <1>2, <2>1, <2>2, <2>3, SMT
  <2>5. ASSUME d <= Pos(w, x), Pos(w, x) < t
        PROVE  0 <= Pos(v, x) /\ Pos(v, x) < t - d
    <3>1. Pos(v, x) = Pos(w, x) - d
      BY <1>1, <1>2, <1>3, <2>5, SMT
    <3> QED BY <1>1, <1>2, <2>5, <3>1, SMT
  <2>6. ASSUME 0 <= Pos(v, x), Pos(v, x) < t - d
        PROVE  d <= Pos(w, x) /\ Pos(w, x) < t
    <3>1. Pos(v, w.mVTA) = - d
      BY <1>1, <1>3, PosZero, SMT
    <3>2. Pos(w, x) = Pos(v, x) - Pos(v, w.mVTA)
      <4>1. Pos(v, x) - Pos(v, w.mVTA) < Half /\ -Half < Pos(v, x) - Pos(v, w.mVTA)
        BY <1>1, <1>2, <2>6, <3>1, SMT
      <4> QED BY <4>1, PosRebase
    <3> QED BY <1>1, <1>2, <2>6, <3>1, <3>2, SMT
  <2> QED BY <1>4, <2>4, <2>5, <2>6
<1>6. SenderOk(v)
  <2>1. 0 <= t - d /\ t - d <= W
    BY <1>1, SMT
  <2> QED BY <1>4, <1>5, <2>1, Zenon DEF SenderOk
<1> QED
  BY <1>3, <1>4, <1>6

\* The numbers of a PDU under way.
LEMMA PduNumbers ==
  ASSUME NEW q \in Seq(Pdu), NEW i \in 1 .. Len(q)
  PROVE  /\ q[i].type = "DATA" => q[i].sn \in SN
         /\ q[i].type = "STATUS" => /\ q[i].lsn \in SN /\ q[i].nacks \in SUBSET SN
                                    /\ q[i] \in Status
<1>1. q[i] \in Pdu
  BY LenProperties, ElementOfSeq
<1>2. \A d \in Data : d.sn \in SN
  BY SMT DEF Data
<1>3. \A s \in Status : s.lsn \in SN /\ s.nacks \in SUBSET SN
  BY Zenon DEF Status
<1> QED BY <1>1, <1>2, <1>3, PduKinds

\* mVTA moves to n: what is said of numbers from n on stays true.
LEMMA AdvancedStatusOk ==
  ASSUME NEW w \in Window, NEW v \in Window, NEW n \in SN, AdvancedTo(w, v, n),
         SenderOk(w), 0 <= Pos(w, n), Pos(w, n) <= Pos(w, w.mVTS),
         NEW q \in Seq(Pdu), StatusOk(w, q),
         \A i \in 1 .. Len(q) : q[i].type = "STATUS" =>
           \A x \in q[i].nacks \cup {q[i].lsn} : Pos(w, n) <= Pos(w, x)
  PROVE  StatusOk(v, q)
<1> DEFINE d == Pos(w, n)
           t == Pos(w, w.mVTS)
<1>1. /\ d \in Int /\ 0 <= d /\ d <= t /\ t \in Int /\ t <= W /\ W \in Nat
      /\ Pos(v, v.mVTS) = t - d
  BY PosType, PduSnType, WindowSize, AdvancedPos DEF SenderOk
<1>2. ASSUME NEW x \in SN, d <= Pos(w, x), Pos(w, x) <= t
      PROVE  Pos(v, x) = Pos(w, x) - d /\ 0 <= Pos(v, x) /\ Pos(v, x) <= Pos(v, v.mVTS)
  <2>1. Pos(w, x) \in Int
    BY PosType
  <2>2. d - W <= Pos(w, x) /\ Pos(w, x) <= W
    BY <1>1, <1>2, <2>1, SMT
  <2>3. Pos(v, x) = Pos(w, x) - d
    <3> HIDE DEF t
    <3> QED BY <2>2, AdvancedPos
  <2> HIDE DEF d, t
  <2> QED BY <1>1, <1>2, <2>1, <2>3, SMT
<1>3. ASSUME NEW i \in 1 .. Len(q), q[i].type = "STATUS"
      PROVE  /\ q[i].lsn \in SN /\ d <= Pos(w, q[i].lsn) /\ Pos(w, q[i].lsn) <= t
             /\ \A x \in q[i].nacks : x \in SN /\ d <= Pos(w, x) /\ Pos(w, x) <= t
             /\ q[i].nacks # {} => q[i].first \in q[i].nacks
  BY <1>3, PduNumbers, Zenon DEF StatusOk
<1> HIDE DEF d, t
<1>4. ASSUME NEW i \in 1 .. Len(q), q[i].type = "STATUS"
      PROVE  /\ 0 <= Pos(v, q[i].lsn) /\ Pos(v, q[i].lsn) <= Pos(v, v.mVTS)
             /\ q[i].nacks # {} => q[i].first \in q[i].nacks
             /\ \A x \in q[i].nacks : 0 <= Pos(v, x) /\ Pos(v, x) <= Pos(v, v.mVTS)
  BY <1>2, <1>3, <1>4, Zenon
<1>5. ASSUME NEW i \in 1 .. Len(q), NEW j \in 1 .. Len(q), i < j,
             q[i].type = "STATUS", q[j].type = "STATUS", q[i].nacks = {},
             NEW x \in q[j].nacks \cup {q[j].lsn}
      PROVE  Pos(v, q[i].lsn) <= Pos(v, x)
  <2>1. Pos(w, q[i].lsn) <= Pos(w, x)
    BY <1>5 DEF StatusOk
  <2>2. x \in SN /\ d <= Pos(w, x) /\ Pos(w, x) <= t
    BY <1>3, <1>5, Zenon
  <2>3. q[i].lsn \in SN /\ d <= Pos(w, q[i].lsn) /\ Pos(w, q[i].lsn) <= t
    BY <1>3, <1>5
  <2>4. Pos(w, x) \in Int /\ Pos(w, q[i].lsn) \in Int
    BY <2>2, <2>3, PosType
  <2>5. Pos(v, x) = Pos(w, x) - d /\ Pos(v, q[i].lsn) = Pos(w, q[i].lsn) - d
    BY <1>2, <2>2, <2>3
  <2> QED BY <1>1, <2>1, <2>4, <2>5, SMT
<1> QED BY <1>4, <1>5, Zenon DEF StatusOk

LEMMA AdvancedReceiverOk ==
  ASSUME NEW w \in Window, NEW v \in Window, NEW n \in SN, AdvancedTo(w, v, n),
         SenderOk(w), 0 <= Pos(w, n), NEW r \in Rx, ReceiverOk(w, r),
         Pos(w, n) <= Pos(w, r.mVRR), Pos(w, n) <= Pos(w, r.mStatusSN),
         NEW dq \in Seq(Pdu), DataOk(w, r, dq)
  PROVE  ReceiverOk(v, r) /\ DataOk(v, r, dq)
<1> DEFINE d == Pos(w, n)
           t == Pos(w, w.mVTS)
<1>1. /\ d \in Int /\ 0 <= d /\ t \in Int /\ t <= W /\ W \in Nat
      /\ Pos(w, r.mVRR) \in Int /\ Pos(w, r.mVRH) \in Int
      /\ Pos(w, r.mStatusSN) \in Int
      /\ r.mVRR \in SN /\ r.mVRH \in SN /\ r.mStatusSN \in SN
      /\ d <= Pos(w, r.mVRR) /\ d <= Pos(w, r.mStatusSN)
      /\ Pos(w, r.mVRR) <= Pos(w, r.mVRH) /\ Pos(w, r.mVRH) <= t
      /\ Pos(w, r.mStatusSN) <= Pos(w, r.mVRH)
  BY PosType, PduSnType, WindowSize, RxType DEF SenderOk, ReceiverOk
<1>2. d <= t /\ d <= W
  BY <1>1, SMT
<1>3. Pos(v, v.mVTS) = t - d
  BY <1>2, AdvancedPos
<1>4. ASSUME NEW x \in SN, d - W <= Pos(w, x), Pos(w, x) <= t
      PROVE  Pos(v, x) = Pos(w, x) - d /\ Pos(w, x) \in Int
  <2>1. Pos(w, x) \in Int
    BY PosType
  <2>2. Pos(w, x) <= W
    BY <1>1, <1>4, <2>1, SMT
  <2> QED BY <1>2, <1>4, <2>1, <2>2, AdvancedPos
<1>5. /\ Pos(v, r.mVRR) = Pos(w, r.mVRR) - d /\ Pos(v, r.mVRH) = Pos(w, r.mVRH) - d
      /\ Pos(v, r.mStatusSN) = Pos(w, r.mStatusSN) - d
  <2>1. /\ d - W <= Pos(w, r.mVRR) /\ Pos(w, r.mVRR) <= t
        /\ d - W <= Pos(w, r.mVRH) /\ Pos(w, r.mVRH) <= t
        /\ d - W <= Pos(w, r.mStatusSN) /\ Pos(w, r.mStatusSN) <= t
    BY <1>1, SMT
  <2> QED BY <1>1, <1>4, <2>1
<1>6. ReceiverOk(v, r)
  <2>1. ASSUME NEW x \in SN, r.mPduRxQ[x] # NoPdu
        PROVE  Pos(v, r.mVRR) <= Pos(v, x) /\ Pos(v, x) < Pos(v, r.mVRH)
    <3>1. Pos(w, r.mVRR) <= Pos(w, x) /\ Pos(w, x) < Pos(w, r.mVRH) /\ Pos(w, x) \in Int
      BY <2>1, PosType DEF ReceiverOk
    <3>2. d - W <= Pos(w, x) /\ Pos(w, x) <= t
      BY <1>1, <3>1, SMT
    <3>3. Pos(v, x) = Pos(w, x) - d
      BY <1>4, <3>2
    <3> QED BY <1>1, <1>5, <3>1, <3>3, SMT
  <2>2. /\ 0 <= Pos(v, r.mVRR) /\ Pos(v, r.mVRR) <= Pos(v, r.mVRH)
        /\ Pos(v, r.mVRH) <= Pos(v, v.mVTS)
        /\ 0 <= Pos(v, r.mStatusSN) /\ Pos(v, r.mStatusSN) <= Pos(v, r.mVRH)
    BY <1>1, <1>3, <1>5, SMT
  <2> QED BY <2>1, <2>2 DEF ReceiverOk
<1>7. ASSUME NEW i \in 1 .. Len(dq), dq[i].type = "DATA"
      PROVE  /\ Pos(w, dq[i].sn) \in Int /\ Pos(v, dq[i].sn) = Pos(w, dq[i].sn) - d
             /\ Pos(w, r.mVRH) - W <= Pos(w, dq[i].sn) /\ Pos(w, dq[i].sn) < t
  <2>1. /\ dq[i].sn \in SN
        /\ Pos(w, r.mVRH) - W <= Pos(w, dq[i].sn) /\ Pos(w, dq[i].sn) < t
    BY <1>7, PduNumbers DEF DataOk
  <2>2. Pos(w, dq[i].sn) \in Int
    BY <2>1, PosType
  <2>3. d - W <= Pos(w, dq[i].sn) /\ Pos(w, dq[i].sn) <= t
    BY <1>1, <2>1, <2>2, SMT
  <2> QED BY <1>4, <2>1, <2>2, <2>3
<1>8. ASSUME NEW i \in 1 .. Len(dq), dq[i].type = "DATA"
      PROVE  /\ Pos(v, r.mVRH) - W <= Pos(v, dq[i].sn)
             /\ Pos(v, dq[i].sn) < Pos(v, v.mVTS)
  <2> HIDE DEF d, t
  <2> QED BY <1>1, <1>3, <1>5, <1>7, <1>8, SMTT(20)
<1>9. ASSUME NEW i \in 1 .. Len(dq), NEW j \in 1 .. Len(dq), i < j,
             dq[i].type = "DATA", dq[j].type = "DATA"
      PROVE  Pos(v, dq[i].sn) - W < Pos(v, dq[j].sn)
  <2>1. Pos(w, dq[i].sn) - W < Pos(w, dq[j].sn)
    BY <1>9 DEF DataOk
  <2>2. /\ Pos(w, dq[i].sn) \in Int /\ Pos(v, dq[i].sn) = Pos(w, dq[i].sn) - d
        /\ Pos(w, dq[j].sn) \in Int /\ Pos(v, dq[j].sn) = Pos(w, dq[j].sn) - d
    BY <1>7, <1>9
  <2> HIDE DEF d
  <2> QED BY <1>1, <2>1, <2>2, SMT
<1> QED BY <1>6, <1>8, <1>9, Zenon DEF DataOk

\* The window after the status report at the head of the link.
LEMMA StatusReceivedOk ==
  ASSUME NEW w \in Window, NEW q \in Seq(Pdu), q # <<>>, Head(q).type = "STATUS",
         SenderOk(w), StatusOk(w, q)
  PROVE  LET v == processSUFIs2(w, Head(q))
         IN  /\ SenderOk(v) /\ StatusOk(v, Tail(q))
             /\ \A r \in Rx, dq \in Seq(Pdu) :
                  Aligned(w, r, dq, q) => Aligned(v, r, dq, Tail(q))
<1> DEFINE v == processSUFIs2(w, Head(q))
           m == Head(q)
           n == IF m.nacks = {} THEN m.lsn ELSE w.mVTA
           t == Pos(w, w.mVTS)
<1>1. /\ 1 \in 1 .. Len(q) /\ q[1] = m /\ m \in Status
      /\ m.lsn \in SN /\ m.nacks \in SUBSET SN /\ Len(q) \in Nat
      /\ Tail(q) \in Seq(Pdu)
  <2>1. Len(q) \in Nat /\ Len(q) >= 1 /\ m = q[1] /\ Tail(q) \in Seq(Pdu)
    BY TailIndex
  <2>2. 1 \in 1 .. Len(q)
    BY <2>1, SMT
  <2> QED BY <2>1, <2>2, PduNumbers
<1>2. /\ 0 <= Pos(w, m.lsn) /\ Pos(w, m.lsn) <= t
      /\ m.nacks # {} => m.first \in m.nacks
      /\ \A x \in m.nacks : 0 <= Pos(w, x) /\ Pos(w, x) <= t
  BY <1>1 DEF StatusOk
<1>3. t \in Int /\ t <= W /\ W \in Nat /\ w.mVTA \in SN /\ 0 <= t
  BY PosType, PduSnType, WindowSize DEF SenderOk
<1>4. \A x \in SN : Pos(w, x) <= t => Pos(w, x) <= W
  BY <1>3, PosType, SMT
<1> HIDE DEF m, t
<1>5. v \in Window /\ AdvancedTo(w, v, n)
  BY <1>1, <1>2, <1>4, ProcessSUFIsTo, ProcessSUFIsType, Zenon DEF m
<1>6. n \in SN /\ 0 <= Pos(w, n) /\ Pos(w, n) <= t
  BY <1>1, <1>2, <1>3, PosZero, SMT
<1>7. SenderOk(v)
  <2> HIDE DEF v, n
  <2> QED BY <1>5, <1>6, AdvancedPos DEF t
<1>8. ASSUME NEW i \in 1 .. Len(Tail(q)), Tail(q)[i].type = "STATUS",
             NEW x \in Tail(q)[i].nacks \cup {Tail(q)[i].lsn}
      PROVE  Pos(w, n) <= Pos(w, x)
  <2>1. /\ i + 1 \in 1 .. Len(q) /\ Tail(q)[i] = q[i + 1] /\ 1 < i + 1
    BY TailIndex, SMT
  <2>2. CASE m.nacks = {}
    <3>1. /\ q[1].type = "STATUS" /\ q[1].nacks = {} /\ q[1].lsn = m.lsn
          /\ q[i + 1].type = "STATUS" /\ x \in q[i + 1].nacks \cup {q[i + 1].lsn}
      BY <1>1, <1>8, <2>1, <2>2 DEF m
    <3>2. Pos(w, q[1].lsn) <= Pos(w, x)
      BY <1>1, <2>1, <3>1, Zenon DEF StatusOk
    <3> QED BY <2>2, <3>1, <3>2, Zenon DEF n
  <2>3. CASE m.nacks # {}
    <3>1. Pos(w, n) = 0
      BY <1>3, <2>3, PosZero
    <3> QED BY <1>8, <2>1, <3>1, Zenon DEF StatusOk
  <2> QED BY <2>2, <2>3
<1>9. StatusOk(w, Tail(q))
  BY TailOk
<1> HIDE DEF v, n
<1>10. StatusOk(v, Tail(q))
  BY <1>1, <1>5, <1>6, <1>8, <1>9, AdvancedStatusOk DEF t
<1>11. ASSUME NEW r \in Rx, NEW dq \in Seq(Pdu), Aligned(w, r, dq, q)
       PROVE  Aligned(v, r, dq, Tail(q))
  <2>1. /\ ReceiverOk(w, r) /\ DataOk(w, r, dq) /\ AcksOk(w, r, q)
    BY <1>11 DEF Aligned
  <2>2. Pos(w, n) <= Pos(w, r.mVRR) /\ Pos(w, n) <= Pos(w, r.mStatusSN)
    <3>1. CASE m.nacks = {}
      <4>1. m.type = "STATUS"
        BY DEF m
      <4> QED BY <1>1, <2>1, <3>1, <4>1, Zenon DEF AcksOk, n
    <3>2. CASE m.nacks # {}
      <4>1. Pos(w, n) = 0
        BY <1>3, <3>2, PosZero DEF n
      <4> QED BY <2>1, <4>1 DEF ReceiverOk
    <3> QED BY <3>1, <3>2
  <2>3. ReceiverOk(v, r) /\ DataOk(v, r, dq)
    BY <1>5, <1>6, <2>1, <2>2, AdvancedReceiverOk
  <2>4. AcksOk(w, r, Tail(q))
    BY <2>1, TailOk
  <2>5. AcksOk(v, r, Tail(q))
    <3> SUFFICES ASSUME NEW i \in 1 .. Len(Tail(q)), Tail(q)[i].type = "STATUS",
                        Tail(q)[i].nacks = {}
                 PROVE  /\ Pos(v, Tail(q)[i].lsn) <= Pos(v, r.mVRR)
                        /\ Pos(v, Tail(q)[i].lsn) <= Pos(v, r.mStatusSN)
      BY DEF AcksOk
    <3> DEFINE x == Tail(q)[i].lsn
    <3>1. x \in SN /\ Pos(w, n) <= Pos(w, x)
      BY <1>1, <1>8, PduNumbers
    <3>2. Pos(w, x) <= Pos(w, r.mVRR) /\ Pos(w, x) <= Pos(w, r.mStatusSN)
      BY <2>4 DEF AcksOk
    <3> HIDE DEF x
    <3>3. /\ r.mVRR \in SN /\ r.mStatusSN \in SN /\ r.mVRH \in SN
          /\ Pos(w, n) \in Int /\ Pos(w, x) \in Int
          /\ Pos(w, r.mVRR) \in Int /\ Pos(w, r.mStatusSN) \in Int /\ Pos(w, r.mVRH) \in Int
      BY <1>6, <3>1, RxType, PosType
    <3>4. /\ Pos(w, r.mVRR) <= Pos(w, r.mVRH) /\ Pos(w, r.mVRH) <= t
          /\ Pos(w, r.mStatusSN) <= Pos(w, r.mVRH)
      BY <2>1 DEF ReceiverOk, t
    <3>5. \A y \in {x, r.mVRR, r.mStatusSN} :
            Pos(w, n) - W <= Pos(w, y) /\ Pos(w, y) <= W
      BY <1>3, <2>2, <3>1, <3>2, <3>3, <3>4, SMT
    <3>6. \A y \in {x, r.mVRR, r.mStatusSN} : Pos(v, y) = Pos(w, y) - Pos(w, n)
      BY <1>5, <1>6, <3>1, <3>3, <3>5, AdvancedPos DEF t
    <3>7. Pos(v, x) <= Pos(v, r.mVRR) /\ Pos(v, x) <= Pos(v, r.mStatusSN)
      BY <3>2, <3>3, <3>6, SMT
    <3> QED BY <3>7 DEF x
  <2> QED BY <1>7, <1>10, <2>3, <2>5 DEF Aligned
<1> QED BY <1>7, <1>10, <1>11 DEF v

-----------------------------------------------------------------------------
(* The receiver.                                                           *)

LEMMA PosAdd ==
  ASSUME NEW w \in Window, NEW x \in SN, NEW k \in Nat,
         -W <= Pos(w, x), Pos(w, x) + k <= W
  PROVE  addSN(x, k) \in SN /\ Pos(w, addSN(x, k)) = Pos(w, x) + k
<1>1. -Half < deltaSN(x, w.mVTA) /\ deltaSN(x, w.mVTA) + k < Half
  BY PosType, WindowSize, HalfType, SMT DEF Pos
<1> QED BY <1>1, DeltaAdd, PduSnType DEF Pos

LEMMA PosOffset ==
  ASSUME NEW w \in Window, NEW from \in SN, NEW sn \in SN,
         0 <= Pos(w, from), Pos(w, from) <= Pos(w, sn), Pos(w, sn) <= W
  PROVE  Offset(from, sn) = Pos(w, sn) - Pos(w, from)
<1>1. /\ Pos(w, from) \in Int /\ Pos(w, sn) \in Int
      /\ W \in Nat /\ W < Half /\ Half \in Nat
  BY PosType, WindowSize, HalfType
<1>2. deltaSN(sn, from) = Pos(w, sn) - Pos(w, from)
  BY <1>1, PosDelta, SMT
<1>3. 0 <= deltaSN(sn, from) /\ deltaSN(sn, from) < Half
  BY <1>1, <1>2, SMT
<1> QED BY <1>2, <1>3, DeltaOffset

\* What ReceiverOk says of the numbers of the reception window.
LEMMA ReceiverPos ==
  ASSUME NEW w \in Window, SenderOk(w), NEW r \in Rx, ReceiverOk(w, r)
  PROVE  /\ r.mVRR \in SN /\ r.mVRH \in SN /\ r.mStatusSN \in SN
         /\ Pos(w, r.mVRR) \in Int /\ Pos(w, r.mVRH) \in Int
         /\ Pos(w, r.mStatusSN) \in Int
         /\ 0 <= Pos(w, r.mVRR) /\ Pos(w, r.mVRR) <= Pos(w, r.mVRH)
         /\ 0 <= Pos(w, r.mStatusSN) /\ Pos(w, r.mStatusSN) <= Pos(w, r.mVRH)
         /\ Pos(w, r.mVRH) <= W
         /\ Pos(w, w.mVTS) \in Int /\ Pos(w, w.mVTS) <= W
         /\ Pos(w, r.mVRH) <= Pos(w, w.mVTS)
         /\ W \in Nat /\ W < Half /\ Half \in Nat
<1>1. /\ r.mVRR \in SN /\ r.mVRH \in SN /\ r.mStatusSN \in SN
      /\ Pos(w, r.mVRR) \in Int /\ Pos(w, r.mVRH) \in Int
      /\ Pos(w, r.mStatusSN) \in Int
      /\ Pos(w, w.mVTS) \in Int /\ Pos(w, w.mVTS) <= W
      /\ W \in Nat /\ W < Half /\ Half \in Nat
  BY RxType, PosType, PduSnType, WindowSize, HalfType DEF SenderOk
<1>2. /\ 0 <= Pos(w, r.mVRR) /\ Pos(w, r.mVRR) <= Pos(w, r.mVRH)
      /\ 0 <= Pos(w, r.mStatusSN) /\ Pos(w, r.mStatusSN) <= Pos(w, r.mVRH)
      /\ Pos(w, r.mVRH) <= Pos(w, w.mVTS)
  BY DEF ReceiverOk
<1>3. Pos(w, r.mVRH) <= W
  BY <1>1, <1>2, SMT
<1> QED BY <1>1, <1>2, <1>3

LEMMA ReceiverConsistentOk ==
  ASSUME NEW w \in Window, SenderOk(w), NEW r \in Rx, ReceiverOk(w, r)
  PROVE  isReceiverOk(r)
<1>1. deltaSN(r.mVRH, r.mVRR) = Pos(w, r.mVRH) - Pos(w, r.mVRR)
  <2>1. /\ Pos(w, r.mVRH) - Pos(w, r.mVRR) < Half
        /\ -Half < Pos(w, r.mVRH) - Pos(w, r.mVRR)
    BY ReceiverPos, SMT
  <2> QED BY <2>1, PosDelta, ReceiverPos
<1> QED BY <1>1, ReceiverPos, SMT DEF isReceiverOk

\* A poll.
LEMMA PollSeenOk ==
  ASSUME NEW w \in Window, NEW r \in Rx, NEW p, SenderOk(w), ReceiverOk(w, r)
  PROVE  /\ PollSeen(r, p) \in Rx
         /\ ReceiverOk(w, PollSeen(r, p))
         /\ \A q : DataOk(w, r, q) => DataOk(w, PollSeen(r, p), q)
         /\ \A q : AcksOk(w, r, q) => AcksOk(w, PollSeen(r, p), q)
<1>1. /\ PollSeen(r, p) \in Rx
      /\ PollSeen(r, p).mVRR = r.mVRR /\ PollSeen(r, p).mVRH = r.mVRH
      /\ PollSeen(r, p).mPduRxQ = r.mPduRxQ
      /\ PollSeen(r, p).mStatusSN \in {r.mVRR, r.mStatusSN}
  BY Zenon DEF PollSeen, Rx
<1>2. ReceiverOk(w, PollSeen(r, p))
  BY <1>1, ReceiverPos, SMT DEF ReceiverOk
<1>3. \A q : DataOk(w, r, q) => DataOk(w, PollSeen(r, p), q)
  BY <1>1, Zenon DEF DataOk
<1>4. ASSUME NEW q, AcksOk(w, r, q) PROVE AcksOk(w, PollSeen(r, p), q)
  BY <1>1, <1>4, SMT DEF AcksOk
<1> QED BY <1>1, <1>2, <1>3, <1>4

\* A wanted PDU, stored.
LEMMA StoredOk ==
  ASSUME NEW w \in Window, NEW r \in Rx, SenderOk(w), ReceiverOk(w, r),
         NEW sn \in SN, NEW payload \in Payload, ~Unwanted(r, sn),
         Pos(w, r.mVRH) - W <= Pos(w, sn), Pos(w, sn) < Pos(w, w.mVTS)
  PROVE  LET s == Stored(r, sn, payload)
         IN  /\ s \in Rx /\ ReceiverOk(w, s)
             /\ s.mVRR = r.mVRR /\ s.mStatusSN = r.mStatusSN
             /\ Pos(w, s.mVRH) = Pos(w, r.mVRH) \/ Pos(w, s.mVRH) = Pos(w, sn) + 1
<1> DEFINE s == Stored(r, sn, payload)
           q == [r.mPduRxQ EXCEPT ![sn] = payload]
           vrh == IF RaisesVRH(r, sn) THEN incSN(sn) ELSE r.mVRH
           rr == Pos(w, r.mVRR)
           rh == Pos(w, r.mVRH)
           ts == Pos(w, w.mVTS)
           p == Pos(w, sn)
<1>1. /\ rr \in Int /\ rh \in Int /\ ts \in Int /\ p \in Int
      /\ 0 <= rr /\ rr <= rh /\ rh <= ts /\ ts <= W
      /\ W \in Nat /\ W < Half /\ Half \in Nat /\ r.mVRR \in SN /\ r.mVRH \in SN
  BY ReceiverPos, PosType
<1>2. rh - W <= p /\ p < ts
  OBVIOUS
<1>3. deltaSN(sn, r.mVRR) = p - rr /\ deltaSN(sn, r.mVRH) = p - rh
  <2>1. /\ p - rr < Half /\ -Half < p - rr /\ p - rh < Half /\ -Half < p - rh
    BY <1>1, <1>2, SMT
  <2> QED BY <1>1, <2>1, PosDelta
<1>4. incSN(sn) \in SN /\ Pos(w, incSN(sn)) = p + 1
  <2>1. -Half < p /\ p < Half - 1
    BY <1>1, <1>2, SMT
  <2> QED BY <2>1, PosInc
<1>5. rr <= p
  <2>1. ~ (deltaSN(sn, r.mVRR) < 0)
    BY DEF Unwanted
  <2> HIDE DEF rr, p
  <2> QED BY <1>1, <1>3, <2>1, SMT
<1>6. vrh \in SN /\ Pos(w, vrh) = IF p >= rh THEN p + 1 ELSE rh
  <2>1. RaisesVRH(r, sn) <=> p >= rh
    <3> HIDE DEF rh, p
    <3> QED BY <1>1, <1>3, SMT DEF RaisesVRH
  <2> QED BY <1>1, <1>4, <2>1
<1>7. s = [r EXCEPT !.mPduRxQ = q, !.mVRH = vrh]
  BY Zenon DEF Stored
<1>8. s \in Rx
  BY StoredType
<1>9. \A x \in SN : q[x] # NoPdu => x = sn \/ r.mPduRxQ[x] # NoPdu
  BY RxType, Zenon
<1> HIDE DEF s, q, vrh
<1>10. s.mVRR = r.mVRR /\ s.mStatusSN = r.mStatusSN /\ s.mPduRxQ = q /\ s.mVRH = vrh
  BY <1>7, Zenon DEF Rx
<1>11. /\ 0 <= Pos(w, s.mVRR) /\ Pos(w, s.mVRR) <= Pos(w, s.mVRH)
       /\ Pos(w, s.mVRH) <= Pos(w, w.mVTS)
       /\ 0 <= Pos(w, s.mStatusSN) /\ Pos(w, s.mStatusSN) <= Pos(w, s.mVRH)
  <2>1. 0 <= Pos(w, r.mStatusSN) /\ Pos(w, r.mStatusSN) <= rh /\ Pos(w, r.mStatusSN) \in Int
    BY ReceiverPos
  <2> QED
    <3> HIDE DEF rr, rh, ts, p
    <3>1. rr <= (IF p >= rh THEN p + 1 ELSE rh) /\ (IF p >= rh THEN p + 1 ELSE rh) <= ts
          /\ rh <= (IF p >= rh THEN p + 1 ELSE rh) /\ (IF p >= rh THEN p + 1 ELSE rh) \in Int
      BY <1>1, <1>2, <1>5, SMT
    <3> QED BY <1>1, <1>6, <1>10, <2>1, <3>1, SMT DEF rr, ts
<1>12. ASSUME NEW x \in SN, s.mPduRxQ[x] # NoPdu
       PROVE  Pos(w, s.mVRR) <= Pos(w, x) /\ Pos(w, x) < Pos(w, s.mVRH)
  <2>1. CASE x = sn
    BY <1>1, <1>5, <1>6, <1>10, <2>1, SMT
  <2>2. CASE r.mPduRxQ[x] # NoPdu
    <3>1. rr <= Pos(w, x) /\ Pos(w, x) < rh /\ Pos(w, x) \in Int
      BY <2>2, PosType DEF ReceiverOk
    <3> QED BY <1>1, <1>6, <1>10, <3>1, SMT
  <2> QED BY <1>9, <1>10, <1>12, <2>1, <2>2
<1>13. ReceiverOk(w, s)
  BY <1>11, <1>12 DEF ReceiverOk
<1>14. Pos(w, s.mVRH) = rh \/ Pos(w, s.mVRH) = p + 1
  BY <1>6, <1>10
<1> QED BY <1>8, <1>10, <1>13, <1>14 DEF s

\* The run of PDUs taken off the queue ends at mVRH at the latest.
LEMMA InSequenceFits ==
  ASSUME NEW w \in Window, NEW r \in Rx, SenderOk(w), ReceiverOk(w, r)
  PROVE  InSequence(r) \in Nat /\ InSequence(r) <= Pos(w, r.mVRH) - Pos(w, r.mVRR)
<1> DEFINE n  == InSequence(r)
           rr == Pos(w, r.mVRR)
           rh == Pos(w, r.mVRH)
<1>1. /\ rr \in Int /\ rh \in Int /\ 0 <= rr /\ rr <= rh /\ rh <= W
      /\ W \in Nat /\ W < Half /\ Half \in Nat /\ r.mVRR \in SN /\ r.mVRH \in SN
      /\ rh <= Pos(w, w.mVTS) /\ Pos(w, w.mVTS) \in Int
  BY ReceiverPos
<1>2. /\ n \in Nat
      /\ \A i \in 0 .. (n - 1) : r.mPduRxQ[addSN(r.mVRR, i)] # NoPdu
  BY InSequenceMaximal, SNSAssumption, SMT
<1>3. n <= rh - rr
  <2> SUFFICES ASSUME n > rh - rr PROVE FALSE
    <3> HIDE DEF n, rh, rr
    <3> QED BY <1>1, <1>2, SMT
  <2> DEFINE k == rh - rr
  <2>1. k \in Nat /\ k \in 0 .. (n - 1) /\ -W <= rr /\ rr + k <= W
    <3> HIDE DEF n, rh, rr
    <3> QED BY <1>1, <1>2, SMT
  <2>2. addSN(r.mVRR, k) \in SN /\ Pos(w, addSN(r.mVRR, k)) = rr + k
    <3> HIDE DEF k, n
    <3> QED BY <1>1, <2>1, PosAdd
  <2>3. rr + k = rh
    <3> HIDE DEF rh, rr
    <3> QED BY <1>1, SMT
  <2>4. addSN(r.mVRR, k) = r.mVRH
    <3> HIDE DEF k
    <3> QED BY <1>1, <2>2, <2>3, PosEqual
  <2>5. r.mPduRxQ[r.mVRH] # NoPdu
    BY <1>2, <2>1, <2>4
  <2>6. Pos(w, r.mVRH) < Pos(w, r.mVRH)
    BY <1>1, <2>5 DEF ReceiverOk
  <2> QED BY <1>1, <2>6, SMT
<1> QED BY <1>2, <1>3

\* What is left is still a window within the sender's.
LEMMA AdvanceVRROk ==
  ASSUME NEW w \in Window, NEW r \in Rx, SenderOk(w), ReceiverOk(w, r)
  PROVE  /\ advanceVRR(r) \in Rx /\ ReceiverOk(w, advanceVRR(r))
         /\ Pos(w, r.mVRR) <= Pos(w, advanceVRR(r).mVRR)
         /\ advanceVRR(r).mVRH = r.mVRH /\ advanceVRR(r).mStatusSN = r.mStatusSN
<1> DEFINE n   == InSequence(r)
           vrr == addSN(r.mVRR, n)
           q   == [sn \in SN |-> IF Offset(r.mVRR, sn) < n
                                 THEN NoPdu ELSE r.mPduRxQ[sn]]
           rr == Pos(w, r.mVRR)
           rh == Pos(w, r.mVRH)
<1>1. /\ rr \in Int /\ rh \in Int /\ 0 <= rr /\ rr <= rh /\ rh <= W
      /\ W \in Nat /\ W < Half /\ Half \in Nat /\ r.mVRR \in SN /\ r.mVRH \in SN
      /\ rh <= Pos(w, w.mVTS) /\ Pos(w, w.mVTS) \in Int
  BY ReceiverPos
<1>2. /\ n \in Nat
      /\ \A i \in 0 .. (n - 1) : r.mPduRxQ[addSN(r.mVRR, i)] # NoPdu
  BY InSequenceMaximal, SNSAssumption, SMT
<1>3. n <= rh - rr
  BY InSequenceFits
<1>4. vrr \in SN /\ Pos(w, vrr) = rr + n
  <2>1. -W <= rr /\ rr + n <= W
    <3> HIDE DEF n, rh, rr
    <3> QED BY <1>1, <1>2, <1>3, SMT
  <2> HIDE DEF n
  <2> QED BY <1>1, <1>2, <2>1, PosAdd
<1>5. advanceVRR(r) = [r EXCEPT !.mVRR = vrr, !.mPduRxQ = q]
  BY Zenon DEF advanceVRR
<1>6. \A x \in SN : q[x] = IF Offset(r.mVRR, x) < n THEN NoPdu ELSE r.mPduRxQ[x]
  BY Zenon
<1>7. advanceVRR(r) \in Rx
  BY AdvanceVRRType
<1> HIDE DEF q, vrr
<1>8. /\ advanceVRR(r).mVRR = vrr /\ advanceVRR(r).mPduRxQ = q
      /\ advanceVRR(r).mVRH = r.mVRH /\ advanceVRR(r).mStatusSN = r.mStatusSN
  BY <1>5, Zenon DEF Rx
<1>9. ASSUME NEW x \in SN, q[x] # NoPdu
      PROVE  rr + n <= Pos(w, x) /\ Pos(w, x) < rh
  <2>1. r.mPduRxQ[x] # NoPdu /\ ~ (Offset(r.mVRR, x) < n)
    BY <1>6, <1>9
  <2>2. rr <= Pos(w, x) /\ Pos(w, x) < rh /\ Pos(w, x) \in Int
    BY <2>1, PosType DEF ReceiverOk
  <2>3. Pos(w, x) <= W
    BY <1>1, <2>2, SMT
  <2>4. Offset(r.mVRR, x) = Pos(w, x) - rr
    BY <1>1, <2>2, <2>3, PosOffset
  <2> HIDE DEF n, rr, rh
  <2> QED BY <1>1, <1>2, <2>1, <2>2, <2>4, SMT
<1>10. ReceiverOk(w, advanceVRR(r))
  <2>1. 0 <= Pos(w, r.mStatusSN) /\ Pos(w, r.mStatusSN) <= rh
    BY ReceiverPos
  <2>2. 0 <= rr + n /\ rr + n <= rh
    <3> HIDE DEF n, rh, rr
    <3> QED BY <1>1, <1>2, <1>3, SMT
  <2> QED BY <1>1, <1>4, <1>8, <1>9, <2>1, <2>2 DEF ReceiverOk
<1>11. rr <= rr + n
  <2> HIDE DEF n, rr
  <2> QED BY <1>1, <1>2, SMT
<1> QED BY <1>4, <1>7, <1>8, <1>10, <1>11

LEMMA DataReceivedOk ==
  ASSUME NEW w \in Window, NEW r \in Rx, NEW dq \in Seq(Pdu), NEW sq \in Seq(Pdu),
         Aligned(w, r, dq, sq), dq # <<>>, Head(dq).type = "DATA"
  PROVE  LET m == Head(dq)
             p == PollSeen(r, m.poll)
             s == Stored(p, m.sn, m.payload)
         IN  Aligned(w, IF Unwanted(p, m.sn) THEN p ELSE Accepted(s, m.sn), Tail(dq), sq)
<1> DEFINE m == Head(dq)
           p == PollSeen(r, m.poll)
           s == Stored(p, m.sn, m.payload)
           a == Accepted(s, m.sn)
<1>1. /\ SenderOk(w) /\ ReceiverOk(w, r) /\ DataOk(w, r, dq)
      /\ StatusOk(w, sq) /\ AcksOk(w, r, sq)
  BY DEF Aligned
<1>2. /\ 1 \in 1 .. Len(dq) /\ dq[1] = m /\ m.sn \in SN /\ m.payload \in Payload
      /\ Tail(dq) \in Seq(Pdu)
  <2>1. Len(dq) \in Nat /\ Len(dq) >= 1 /\ m = dq[1] /\ Tail(dq) \in Seq(Pdu)
    BY TailIndex
  <2>2. 1 \in 1 .. Len(dq)
    BY <2>1, SMT
  <2>3. m \in Data
    BY <2>1, <2>2, LenProperties, ElementOfSeq, PduKinds
  <2> QED BY <2>1, <2>2, <2>3, SMT DEF Data
<1>3. /\ p \in Rx /\ ReceiverOk(w, p) /\ DataOk(w, p, dq) /\ AcksOk(w, p, sq)
  BY <1>1, PollSeenOk
<1>4. DataOk(w, p, Tail(dq))
  BY <1>3, TailOk
<1>5. CASE Unwanted(p, m.sn)
  BY <1>1, <1>3, <1>4, <1>5 DEF Aligned
<1>6. CASE ~Unwanted(p, m.sn)
  <2>1. Pos(w, p.mVRH) - W <= Pos(w, m.sn) /\ Pos(w, m.sn) < Pos(w, w.mVTS)
    BY <1>2, <1>3, Zenon DEF DataOk, m
  <2> HIDE DEF p
  <2>2. /\ s \in Rx /\ ReceiverOk(w, s)
        /\ s.mVRR = p.mVRR /\ s.mStatusSN = p.mStatusSN
        /\ Pos(w, s.mVRH) = Pos(w, p.mVRH) \/ Pos(w, s.mVRH) = Pos(w, m.sn) + 1
    <3> HIDE DEF m
    <3> QED BY <1>1, <1>2, <1>3, <1>6, <2>1, StoredOk
  <2> HIDE DEF s
  <2>3. /\ a \in Rx /\ ReceiverOk(w, a) /\ Pos(w, s.mVRR) <= Pos(w, a.mVRR)
        /\ a.mVRH = s.mVRH /\ a.mStatusSN = s.mStatusSN
    <3>1. CASE m.sn = s.mVRR
      BY <1>1, <2>2, <3>1, AdvanceVRROk, Zenon DEF Accepted
    <3>2. CASE m.sn # s.mVRR
      <4>1. a = s
        BY <3>2 DEF Accepted
      <4>2. Pos(w, s.mVRR) <= Pos(w, s.mVRR)
        BY <1>1, <2>2, ReceiverPos, SMT
      <4> QED BY <2>2, <4>1, <4>2
    <3> QED BY <3>1, <3>2
  <2> HIDE DEF a
  <2>4. AcksOk(w, a, sq)
    <3>1. Pos(w, s.mVRR) \in Int /\ Pos(w, a.mVRR) \in Int
      BY <1>1, <2>2, <2>3, ReceiverPos
    <3> SUFFICES ASSUME NEW i \in 1 .. Len(sq), sq[i].type = "STATUS", sq[i].nacks = {}
                 PROVE  /\ Pos(w, sq[i].lsn) <= Pos(w, a.mVRR)
                        /\ Pos(w, sq[i].lsn) <= Pos(w, a.mStatusSN)
      BY DEF AcksOk
    <3>2. /\ Pos(w, sq[i].lsn) <= Pos(w, s.mVRR)
          /\ Pos(w, sq[i].lsn) <= Pos(w, a.mStatusSN)
      BY <1>3, <2>2, <2>3 DEF AcksOk
    <3>3. Pos(w, sq[i].lsn) \in Int
      BY PduNumbers, PosType
    <3>4. Pos(w, sq[i].lsn) <= Pos(w, a.mVRR)
      BY <2>3, <3>1, <3>2, <3>3, SMT
    <3> QED BY <3>2, <3>4
  <2>5. DataOk(w, a, Tail(dq))
    <3>1. ASSUME NEW i \in 1 .. Len(Tail(dq)), Tail(dq)[i].type = "DATA"
          PROVE  Pos(w, a.mVRH) - W <= Pos(w, Tail(dq)[i].sn)
      <4>1. /\ i + 1 \in 1 .. Len(dq) /\ Tail(dq)[i] = dq[i + 1] /\ 1 < i + 1
        BY TailIndex, SMT
      <4>2. Pos(w, m.sn) - W < Pos(w, Tail(dq)[i].sn)
        <5>1. dq[i + 1].type = "DATA" /\ dq[1].type = "DATA"
          BY <1>2, <3>1, <4>1 DEF m
        <5>2. Pos(w, dq[1].sn) - W < Pos(w, dq[i + 1].sn)
          BY <1>1, <1>2, <4>1, <5>1, Zenon DEF DataOk
        <5> QED BY <1>2, <4>1, <5>2
      <4>3. Pos(w, p.mVRH) - W <= Pos(w, Tail(dq)[i].sn)
        BY <1>4, <3>1 DEF DataOk
      <4>4. Tail(dq)[i].sn \in SN
        BY <1>2, <3>1, PduNumbers
      <4>5. Pos(w, Tail(dq)[i].sn) \in Int /\ Pos(w, m.sn) \in Int
        BY <1>2, <4>4, PosType
      <4>6. W \in Nat
        BY WindowSize
      <4>7. CASE Pos(w, s.mVRH) = Pos(w, p.mVRH)
        BY <2>3, <4>3, <4>7
      <4>8. CASE Pos(w, s.mVRH) = Pos(w, m.sn) + 1
        <5> HIDE DEF m
        <5> QED BY <2>3, <4>2, <4>5, <4>6, <4>8, SMT
      <4> QED BY <2>2, <4>7, <4>8
    <3> QED BY <1>4, <3>1, Zenon DEF DataOk
  <2> QED BY <1>1, <1>6, <2>3, <2>4, <2>5 DEF Aligned, a, s, p
<1> QED BY <1>5, <1>6

-----------------------------------------------------------------------------
\* A status report starts at the later of mVRR and mStatusSN and stops between
\* that and mVRH.
LEMMA StatusBounds ==
  ASSUME NEW w \in Window, NEW r \in Rx, SenderOk(w), ReceiverOk(w, r)
  PROVE  /\ StatusStart(r) \in SN /\ StatusEnd(r) \in SN
         /\ Pos(w, StatusStart(r)) \in Int /\ Pos(w, StatusEnd(r)) \in Int
         /\ Pos(w, r.mVRR) <= Pos(w, StatusStart(r))
         /\ Pos(w, r.mStatusSN) <= Pos(w, StatusStart(r))
         /\ firstStatusReport(r) <=> Pos(w, r.mStatusSN) <= Pos(w, r.mVRR)
         /\ Pos(w, StatusStart(r)) <= Pos(w, StatusEnd(r))
         /\ Pos(w, StatusEnd(r)) <= Pos(w, r.mVRH)
         /\ \A sn \in SN : sn \in Span(StatusStart(r), r.mVRH) <=>
              Pos(w, StatusStart(r)) <= Pos(w, sn) /\ Pos(w, sn) < Pos(w, r.mVRH)
<1> DEFINE rr == Pos(w, r.mVRR)
           rh == Pos(w, r.mVRH)
           ss == Pos(w, r.mStatusSN)
           f  == StatusStart(r)
           e  == StatusEnd(r)
<1>1. /\ rr \in Int /\ rh \in Int /\ ss \in Int /\ 0 <= rr /\ rr <= rh /\ rh <= W
      /\ 0 <= ss /\ ss <= rh
      /\ W \in Nat /\ W < Half /\ Half \in Nat
      /\ r.mVRR \in SN /\ r.mVRH \in SN /\ r.mStatusSN \in SN
  BY ReceiverPos
<1>2. f \in SN /\ e \in SN /\ Pos(w, f) \in Int /\ Pos(w, e) \in Int
  BY StatusEndType, PosType
<1>3. firstStatusReport(r) <=> ss <= rr
  <2>1. rr - ss < Half /\ -Half < rr - ss
    <3> HIDE DEF rr, ss, rh
    <3> QED BY <1>1, SMT
  <2>2. deltaSN(r.mVRR, r.mStatusSN) = rr - ss
    BY <1>1, <2>1, PosDelta
  <2> HIDE DEF rr, ss
  <2> QED BY <1>1, <2>2, SMT DEF firstStatusReport
<1>4. rr <= Pos(w, f) /\ ss <= Pos(w, f) /\ Pos(w, f) <= rh
  <2>1. Pos(w, f) = IF ss <= rr THEN rr ELSE ss
    BY <1>3 DEF StatusStart
  <2> HIDE DEF rr, ss, rh, f
  <2> QED BY <1>1, <2>1, SMT
<1>5. \A sn \in SN : sn \in Span(f, r.mVRH) <=> Pos(w, f) <= Pos(w, sn) /\ Pos(w, sn) < rh
  <2>1. 0 <= Pos(w, f)
    BY <1>1, <1>2, <1>4, SMT
  <2> HIDE DEF f
  <2> QED BY <1>1, <1>2, <1>4, <2>1, PosSpan
<1>6. e = r.mVRH \/ e \in Span(f, r.mVRH)
  <2>1. CASE BeyondRoom(r, f) = {}
    BY <2>1 DEF StatusEnd
  <2>2. CASE BeyondRoom(r, f) # {}
    <3>1. BeyondRoom(r, f) \in SUBSET SN
      BY Zenon DEF BeyondRoom, Span
    <3>2. e = Nearest(f, BeyondRoom(r, f))
      BY <2>2, Zenon DEF StatusEnd
    <3>3. e \in BeyondRoom(r, f)
      BY <1>2, <2>2, <3>1, <3>2, NearestType, Zenon
    <3> QED BY <3>3, Zenon DEF BeyondRoom
  <2> QED BY <2>1, <2>2
<1>7. Pos(w, f) <= Pos(w, e) /\ Pos(w, e) <= rh
  BY <1>1, <1>2, <1>4, <1>5, <1>6, SMT
<1> QED BY <1>2, <1>3, <1>4, <1>5, <1>7

LEMMA StatusReportedOk ==
  ASSUME NEW w \in Window, NEW r \in Rx, NEW dq, NEW sq \in Seq(Pdu),
         Aligned(w, r, dq, sq), NextMissing(r)
  PROVE  Aligned(w, StatusReported(r), dq, Append(sq, addAckNack(r)))
<1> DEFINE f == StatusStart(r)
           e == StatusEnd(r)
           nacks == Missing(r, f) \ Span(e, r.mVRH)
           m == addAckNack(r)
           v == StatusReported(r)
           q == Append(sq, m)
           rr == Pos(w, r.mVRR)
           rh == Pos(w, r.mVRH)
           ts == Pos(w, w.mVTS)
<1>1. /\ SenderOk(w) /\ ReceiverOk(w, r) /\ DataOk(w, r, dq)
      /\ StatusOk(w, sq) /\ AcksOk(w, r, sq)
  BY DEF Aligned
<1>2. /\ rr \in Int /\ rh \in Int /\ ts \in Int /\ 0 <= rr /\ rr <= rh /\ rh <= ts
      /\ r.mVRR \in SN /\ r.mVRH \in SN
  BY <1>1, ReceiverPos
<1>3. /\ f \in SN /\ e \in SN /\ Pos(w, f) \in Int /\ Pos(w, e) \in Int
      /\ rr <= Pos(w, f) /\ Pos(w, r.mStatusSN) <= Pos(w, f)
      /\ Pos(w, f) <= Pos(w, e) /\ Pos(w, e) <= rh
      /\ \A sn \in SN : sn \in Span(f, r.mVRH) <=>
           Pos(w, f) <= Pos(w, sn) /\ Pos(w, sn) < rh
      /\ firstStatusReport(r) => f = r.mVRR
  <2>1. firstStatusReport(r) => f = r.mVRR
    BY DEF StatusStart
  <2> QED BY <1>1, <2>1, StatusBounds
<1>4. /\ m \in Pdu /\ m.type = "STATUS" /\ m.nacks = nacks
      /\ nacks # {} => m.first = Nearest(f, nacks)
      /\ m.lsn = AckLsn(r)
  <2>1. m \in Pdu
    BY AddAckNackType, Zenon DEF Pdu
  <2>2. m = [ type |-> "STATUS", nacks |-> nacks,
              first |-> IF nacks = {} THEN 0 ELSE Nearest(f, nacks),
              lsn |-> AckLsn(r) ]
    BY Zenon DEF addAckNack
  <2> HIDE DEF m, nacks
  <2> QED BY <2>1, <2>2, SMT
<1>5. ASSUME NEW x \in nacks
      PROVE  x \in SN /\ Pos(w, f) <= Pos(w, x) /\ Pos(w, x) < rh /\ Pos(w, x) \in Int
  <2>1. x \in Span(f, r.mVRH)
    BY DEF Missing
  <2>2. x \in SN
    BY <2>1 DEF Span
  <2> QED BY <1>3, <2>1, <2>2, PosType
<1>6. nacks # {} => m.first \in nacks
  <2>1. nacks \in SUBSET SN
    BY <1>5
  <2> HIDE DEF nacks, m, f
  <2> QED BY <1>3, <1>4, <2>1, NearestType
<1>7. m.lsn \in SN /\ (m.lsn = r.mVRR \/ m.lsn = r.mVRH)
  BY <1>2, <1>4 DEF AckLsn
<1>8. rr <= Pos(w, m.lsn) /\ Pos(w, m.lsn) <= rh /\ Pos(w, m.lsn) \in Int
  BY <1>2, <1>7, SMT
\* A report without gaps acknowledges what has been received in sequence.
<1>9. ASSUME nacks = {}
      PROVE  Pos(w, m.lsn) <= rr /\ Pos(w, m.lsn) <= Pos(w, e)
  <2>1. CASE firstStatusReport(r) /\ lastStatusReport(r)
    <3>1. m.lsn = r.mVRH /\ e = r.mVRH /\ f = r.mVRR
      BY <1>3, <1>4, <2>1 DEF AckLsn, lastStatusReport
    <3>2. ~ (rr < rh)
      <4> SUFFICES ASSUME rr < rh PROVE FALSE
        OBVIOUS
      <4>1. r.mVRR \in Span(f, r.mVRH)
        BY <1>2, <1>3, <3>1, SMT
      <4>2. r.mVRR \in Missing(r, f)
        BY <4>1 DEF Missing, NextMissing
      <4>3. Span(e, r.mVRH) = {}
        <5>1. deltaSN(r.mVRH, r.mVRH) = 0
          BY <1>2, DeltaZero
        <5> QED BY <3>1, <5>1, SMT DEF Span
      <4> QED BY <1>9, <4>2, <4>3
    <3> HIDE DEF rr, rh, e, m
    <3> QED BY <1>2, <3>1, <3>2, SMT DEF rh
  <2>2. CASE ~ (firstStatusReport(r) /\ lastStatusReport(r))
    <3>1. m.lsn = r.mVRR
      BY <1>4, <2>2 DEF AckLsn
    <3> HIDE DEF e, f, m
    <3> QED BY <1>2, <1>3, <3>1, SMT
  <2> QED BY <2>1, <2>2
<1>10. /\ v.mVRR = r.mVRR /\ v.mVRH = r.mVRH /\ v.mPduRxQ = r.mPduRxQ
       /\ v.mStatusSN = e
  <2> HIDE DEF e
  <2> QED BY Zenon DEF StatusReported, Rx, e
<1>11. \A i \in 1 .. Len(q) :
         \/ i \in 1 .. Len(sq) /\ q[i] = sq[i]
         \/ i = Len(sq) + 1 /\ q[i] = m
  <2>1. Len(sq) \in Nat /\ Len(q) = Len(sq) + 1
    BY <1>4, AppendIndex
  <2>2. \A i \in 1 .. Len(q) : i \in 1 .. Len(sq) \/ i = Len(sq) + 1
    BY <2>1, SMT
  <2>3. /\ \A i \in 1 .. Len(sq) : q[i] = sq[i]
        /\ q[Len(sq) + 1] = m
    BY <1>4, AppendIndex
  <2> QED BY <2>2, <2>3, SMT
<1> HIDE DEF f, e, nacks, m, v, q
<1>12. ReceiverOk(w, v)
  <2>1. 0 <= Pos(w, e)
    BY <1>2, <1>3, SMT
  <2> QED BY <1>1, <1>3, <1>10, <2>1 DEF ReceiverOk
<1>13. DataOk(w, v, dq)
  BY <1>1, <1>10, Zenon DEF DataOk
<1>14. ASSUME NEW i \in 1 .. Len(sq), sq[i].type = "STATUS", sq[i].nacks = {}
       PROVE  /\ Pos(w, sq[i].lsn) <= rr /\ Pos(w, sq[i].lsn) <= Pos(w, f)
              /\ Pos(w, sq[i].lsn) <= Pos(w, e) /\ Pos(w, sq[i].lsn) \in Int
  <2>1. Pos(w, sq[i].lsn) <= rr
    BY <1>1, <1>14 DEF AcksOk
  <2>2. Pos(w, sq[i].lsn) \in Int
    BY <1>14, PduNumbers, PosType
  <2> QED BY <1>2, <1>3, <2>1, <2>2, SMT
<1>15. AcksOk(w, v, q)
  <2> SUFFICES ASSUME NEW i \in 1 .. Len(q), q[i].type = "STATUS", q[i].nacks = {}
               PROVE  Pos(w, q[i].lsn) <= rr /\ Pos(w, q[i].lsn) <= Pos(w, e)
    BY <1>10 DEF AcksOk
  <2>1. CASE i \in 1 .. Len(sq) /\ q[i] = sq[i]
    BY <1>14, <2>1
  <2>2. CASE q[i] = m
    BY <1>4, <1>9, <2>2
  <2> QED BY <1>11, <2>1, <2>2
<1>16. StatusOk(w, q)
  <2>1. ASSUME NEW i \in 1 .. Len(q), q[i].type = "STATUS"
        PROVE  /\ 0 <= Pos(w, q[i].lsn) /\ Pos(w, q[i].lsn) <= ts
               /\ q[i].nacks # {} => q[i].first \in q[i].nacks
               /\ \A n \in q[i].nacks : 0 <= Pos(w, n) /\ Pos(w, n) <= ts
    <3>1. CASE i \in 1 .. Len(sq) /\ q[i] = sq[i]
      BY <1>1, <2>1, <3>1, Zenon DEF StatusOk
    <3>2. CASE q[i] = m
      <4>1. 0 <= Pos(w, m.lsn) /\ Pos(w, m.lsn) <= ts
        BY <1>2, <1>8, SMT
      <4>2. \A n \in nacks : 0 <= Pos(w, n) /\ Pos(w, n) <= ts
        BY <1>2, <1>3, <1>5, SMT
      <4> QED BY <1>4, <1>6, <3>2, <4>1, <4>2
    <3> QED BY <1>11, <3>1, <3>2
  <2>2. ASSUME NEW i \in 1 .. Len(q), NEW j \in 1 .. Len(q), i < j,
               q[i].type = "STATUS", q[j].type = "STATUS", q[i].nacks = {},
               NEW n \in q[j].nacks \cup {q[j].lsn}
        PROVE  Pos(w, q[i].lsn) <= Pos(w, n)
    <3>1. i \in 1 .. Len(sq) /\ q[i] = sq[i]
      <4>1. Len(sq) \in Nat /\ Len(q) = Len(sq) + 1
        BY <1>4, AppendIndex DEF q
      <4>2. i # Len(sq) + 1
        BY <2>2, <4>1, SMT
      <4> QED BY <1>11, <4>2
    <3>2. CASE j \in 1 .. Len(sq) /\ q[j] = sq[j]
      BY <1>1, <2>2, <3>1, <3>2, Zenon DEF StatusOk
    <3>3. CASE q[j] = m
      <4>1. n \in nacks \/ n = m.lsn
        BY <1>4, <2>2, <3>3
      <4>2. CASE n \in nacks
        BY <1>3, <1>5, <1>14, <2>2, <3>1, <4>2, SMT
      <4>3. CASE n = m.lsn
        BY <1>2, <1>8, <1>14, <2>2, <3>1, <4>3, SMT
      <4> QED BY <4>1, <4>2, <4>3
    <3> QED BY <1>11, <3>2, <3>3
  <2> QED BY <2>1, <2>2, Zenon DEF StatusOk
<1> QED BY <1>1, <1>12, <1>13, <1>15, <1>16 DEF Aligned, v, q, m

-----------------------------------------------------------------------------
(* The two entities: every action but the two that receive a reset.        *)

\* TransmitWindow, ReceiverConsistent and WindowsNested, of one window each.
WindowOk(w) ==
  /\ deltaSN(w.mVTS, w.mVTA) \in 0 .. mConfig.mConfigured_Tx_Window_Size
  /\ {sn \in SN : w.mPduTxQ[sn] # NoPdu} = Span(w.mVTA, w.mVTS)

ReportOk(r) ==
  /\ isReceiverOk(r)
  /\ r.mVRR = r.mVRH => firstStatusReport(r)
  /\ deltaSN(r.mVRH, StatusStart(r)) >= 0

Nested(w, r) ==
  /\ deltaSN(r.mVRR, w.mVTA) >= 0
  /\ deltaSN(r.mVRH, r.mVRR) >= 0
  /\ deltaSN(w.mVTS, r.mVRH) >= 0
  /\ \A sn \in Span(r.mVRR, w.mVTS) :
       r.mPduRxQ[sn] = NoPdu => w.mPduTxQ[sn] # NoPdu

LEMMA SenderWindowOk ==
  ASSUME NEW w \in Window, SenderOk(w) PROVE WindowOk(w)
<1>1. /\ W \in Nat /\ Pos(w, w.mVTS) \in Int /\ 0 <= Pos(w, w.mVTS)
      /\ Pos(w, w.mVTS) <= W /\ w.mVTA \in SN /\ w.mVTS \in SN
      /\ Pos(w, w.mVTA) = 0
  BY PosType, PduSnType, PosZero, WindowSize DEF SenderOk
<1>2. deltaSN(w.mVTS, w.mVTA) \in 0 .. mConfig.mConfigured_Tx_Window_Size
  BY <1>1, SMT DEF Pos, W
<1>3. \A sn \in SN : sn \in Span(w.mVTA, w.mVTS) <=> w.mPduTxQ[sn] # NoPdu
  <2>1. \A sn \in SN : sn \in Span(w.mVTA, w.mVTS) <=>
                         Pos(w, w.mVTA) <= Pos(w, sn) /\ Pos(w, sn) < Pos(w, w.mVTS)
    BY <1>1, PosSpan
  <2> QED BY <1>1, <2>1, SMT DEF SenderOk
<1>4. Span(w.mVTA, w.mVTS) \subseteq SN
  BY Zenon DEF Span
<1> QED BY <1>2, <1>3, <1>4, Zenon DEF WindowOk

LEMMA ReceiverReportOk ==
  ASSUME NEW w \in Window, SenderOk(w), NEW r \in Rx, ReceiverOk(w, r)
  PROVE  ReportOk(r)
<1> DEFINE f == StatusStart(r)
<1>1. r.mVRR = r.mVRH => firstStatusReport(r)
  BY StatusBounds, ReceiverPos, SMT
<1>2. deltaSN(r.mVRH, f) = Pos(w, r.mVRH) - Pos(w, f)
      /\ Pos(w, r.mVRH) - Pos(w, f) >= 0
  <2>1. /\ f \in SN /\ r.mVRH \in SN /\ Pos(w, f) \in Int /\ Pos(w, r.mVRH) \in Int
        /\ Pos(w, r.mVRR) \in Int /\ 0 <= Pos(w, r.mVRR) /\ Pos(w, StatusEnd(r)) \in Int
        /\ Pos(w, r.mVRR) <= Pos(w, f) /\ Pos(w, f) <= Pos(w, StatusEnd(r))
        /\ Pos(w, StatusEnd(r)) <= Pos(w, r.mVRH)
        /\ Pos(w, r.mVRH) <= W /\ W \in Nat /\ W < Half /\ Half \in Nat
    BY StatusBounds, ReceiverPos
  <2> HIDE DEF f
  <2>2. /\ Pos(w, r.mVRH) - Pos(w, f) < Half /\ -Half < Pos(w, r.mVRH) - Pos(w, f)
        /\ Pos(w, r.mVRH) - Pos(w, f) >= 0
    BY <2>1, SMT
  <2> QED BY <2>1, <2>2, PosDelta
<1>3. deltaSN(r.mVRH, f) >= 0
  <2> HIDE DEF f
  <2> QED BY <1>2
<1> QED BY <1>1, <1>3, ReceiverConsistentOk DEF ReportOk

LEMMA AlignedNested ==
  ASSUME NEW w \in Window, SenderOk(w), NEW r \in Rx, ReceiverOk(w, r)
  PROVE  Nested(w, r)
<1> DEFINE rr == Pos(w, r.mVRR)
           rh == Pos(w, r.mVRH)
           ts == Pos(w, w.mVTS)
<1>1. /\ rr \in Int /\ rh \in Int /\ ts \in Int /\ 0 <= rr /\ rr <= rh /\ rh <= ts
      /\ ts <= W /\ W \in Nat /\ W < Half /\ Half \in Nat
      /\ r.mVRR \in SN /\ r.mVRH \in SN /\ w.mVTS \in SN
  BY ReceiverPos, PduSnType
<1>2. deltaSN(r.mVRR, w.mVTA) >= 0
  BY <1>1, SMT DEF Pos
<1>3. deltaSN(r.mVRH, r.mVRR) >= 0
  BY ReceiverConsistentOk DEF isReceiverOk
<1>4. deltaSN(w.mVTS, r.mVRH) >= 0
  <2>1. ts - rh < Half /\ -Half < ts - rh /\ ts - rh >= 0
    <3> HIDE DEF rr, rh, ts
    <3> QED BY <1>1, SMT
  <2> QED BY <1>1, <2>1, PosDelta
<1>5. ASSUME NEW sn \in Span(r.mVRR, w.mVTS) PROVE w.mPduTxQ[sn] # NoPdu
  <2>1. sn \in SN
    BY Zenon DEF Span
  <2>2. rr <= Pos(w, sn) /\ Pos(w, sn) < ts
    <3>1. rr <= ts
      <4> HIDE DEF rr, rh, ts
      <4> QED BY <1>1, SMT
    <3> QED BY <1>1, <1>5, <2>1, <3>1, PosSpan
  <2>3. 0 <= Pos(w, sn)
    <3> HIDE DEF rr
    <3> QED BY <1>1, <2>1, <2>2, PosType, SMT
  <2> QED BY <2>1, <2>2, <2>3 DEF SenderOk
<1> QED BY <1>2, <1>3, <1>4, <1>5 DEF Nested

\* Both ends at zero.
LEMMA InitAligned ==
  ASSUME NEW dq, NEW sq, \A i \in 1 .. Len(dq) : dq[i].type # "DATA",
         \A i \in 1 .. Len(sq) : sq[i].type # "STATUS"
  PROVE  /\ SenderOk(windowInit) /\ ReceiverOk(windowInit, recvAmInit)
         /\ Aligned(windowInit, recvAmInit, dq, sq)
<1>1. /\ windowInit.mVTA = 0 /\ windowInit.mVTS = 0
      /\ \A sn \in SN : windowInit.mPduTxQ[sn] = NoPdu
      /\ recvAmInit.mVRR = 0 /\ recvAmInit.mVRH = 0 /\ recvAmInit.mStatusSN = 0
      /\ \A sn \in SN : recvAmInit.mPduRxQ[sn] = NoPdu
  BY SMT DEF windowInit, recvAmInit
<1>2. Pos(windowInit, 0) = 0
  BY <1>1, ZeroSN, DeltaZero DEF Pos
<1>3. SenderOk(windowInit)
  <2>1. \A sn \in SN : ~ (0 <= Pos(windowInit, sn) /\ Pos(windowInit, sn) < 0)
    BY WindowInitType, PosType, SMT
  <2> QED BY <1>1, <1>2, <2>1, WindowSize, SMT DEF SenderOk
<1>4. ReceiverOk(windowInit, recvAmInit)
  BY <1>1, <1>2, SMT DEF ReceiverOk
<1>5. /\ DataOk(windowInit, recvAmInit, dq) /\ StatusOk(windowInit, sq)
      /\ AcksOk(windowInit, recvAmInit, sq)
  BY Zenon DEF DataOk, StatusOk, AcksOk
<1> QED BY <1>3, <1>4, <1>5 DEF Aligned

-----------------------------------------------------------------------------
LEMMA TwoEntities ==
  ASSUME NEW e \in Entity
  PROVE  /\ Peer(e) \in Entity /\ Peer(e) # e /\ Peer(Peer(e)) = e
         /\ \A x \in Entity : x = e \/ x = Peer(e)
<1>1. PICK x \in Entity, y \in Entity : x # y /\ Entity = {x, y}
  BY LinkAssumption
<1>2. Peer(x) = y /\ Peer(y) = x
  BY <1>1, Zenon DEF Peer
<1>3. \A z \in Entity : z = x \/ z = y
  BY <1>1
<1> QED BY <1>1, <1>2, <1>3

\* What entity a sends and its peer receives fits together.
Two(a) == Aligned(win[a], recv[Peer(a)], link[Peer(a)], link[a])

LEMMA StateTypes ==
  ASSUME Inv, NEW e \in Entity
  PROVE  /\ win[e] \in Window /\ recv[e] \in Rx /\ link[e] \in Seq(Pdu)
         /\ source[e] \in Source /\ ctl[e] \in Control /\ poll[e] \in Polling
         /\ NackOk(win[e]) /\ NextMissing(recv[e])
BY Zenon DEF Inv, TypeOK, NackPointerValid, NackOk, NextPduMissing, NextMissing

LEMMA LinkSent ==
  ASSUME Inv, NEW e \in Entity, NEW msg, Send(e, msg)
  PROVE  /\ link'[Peer(e)] = Append(link[Peer(e)], msg)
         /\ \A x \in Entity : x # Peer(e) => link'[x] = link[x]
BY TwoEntities, Zenon DEF Inv, TypeOK, Send

LEMMA LinkTaken ==
  ASSUME Inv, NEW e \in Entity, Take(e)
  PROVE  /\ link'[e] = Tail(link[e])
         /\ \A x \in Entity : x # e => link'[x] = link[x]
BY Zenon DEF Inv, TypeOK, Take

LEMMA TailAligned ==
  ASSUME NEW w, NEW r, NEW dq \in Seq(Pdu), NEW sq \in Seq(Pdu), Aligned(w, r, dq, sq)
  PROVE  /\ dq # <<>> => Aligned(w, r, Tail(dq), sq)
         /\ sq # <<>> => Aligned(w, r, dq, Tail(sq))
<1>1. dq # <<>> => Aligned(w, r, Tail(dq), sq)
  BY TailOk DEF Aligned
<1>2. sq # <<>> => Aligned(w, r, dq, Tail(sq))
  BY TailOk DEF Aligned
<1> QED BY <1>1, <1>2

LEMMA AppendAligned ==
  ASSUME NEW w, NEW r, NEW dq \in Seq(Pdu), NEW sq \in Seq(Pdu), NEW m \in Pdu,
         Aligned(w, r, dq, sq)
  PROVE  /\ m.type # "DATA" => Aligned(w, r, Append(dq, m), sq)
         /\ m.type # "STATUS" => Aligned(w, r, dq, Append(sq, m))
<1>1. m.type # "DATA" => Aligned(w, r, Append(dq, m), sq)
  BY AppendOtherOk DEF Aligned
<1>2. m.type # "STATUS" => Aligned(w, r, dq, Append(sq, m))
  BY AppendOtherOk DEF Aligned
<1> QED BY <1>1, <1>2

\* A PDU leaves a link, read without effect on the windows, or lost.
LEMMA TakenTwo ==
  ASSUME Inv, NEW a \in Entity, Two(a), NEW e \in Entity, link[e] # <<>>, Take(e),
         UNCHANGED <<win, recv>>
  PROVE  Two(a)'
<1>1. link[e] \in Seq(Pdu)
  BY StateTypes
<1>2. link[a] \in Seq(Pdu) /\ link[Peer(a)] \in Seq(Pdu) /\ Peer(a) \in Entity
      /\ Peer(a) # a
  BY StateTypes, TwoEntities
<1>3. CASE e = a
  <2>1. link'[a] = Tail(link[a]) /\ link'[Peer(a)] = link[Peer(a)]
    BY <1>2, <1>3, LinkTaken
  <2> QED BY <1>2, <1>3, <2>1, TailAligned DEF Two
<1>4. CASE e = Peer(a)
  <2>1. link'[Peer(a)] = Tail(link[Peer(a)]) /\ link'[a] = link[a]
    BY <1>2, <1>4, LinkTaken
  <2> QED BY <1>2, <1>4, <2>1, TailAligned DEF Two
<1> QED BY <1>3, <1>4, TwoEntities

\* A PDU enters a link: control PDUs say nothing of either window.
LEMMA SentAligned ==
  ASSUME Inv, NEW a \in Entity, NEW e \in Entity, NEW msg \in Pdu, Send(e, msg),
         NEW w, NEW r, Aligned(w, r, link[Peer(a)], link[a]),
         e = a => msg.type # "DATA", e # a => msg.type # "STATUS"
  PROVE  Aligned(w, r, link'[Peer(a)], link'[a])
<1>1. link[Peer(a)] \in Seq(Pdu) /\ link[a] \in Seq(Pdu)
  BY StateTypes, TwoEntities
<1>2. CASE e = a
  <2>1. link'[Peer(a)] = Append(link[Peer(a)], msg) /\ link'[a] = link[a]
    BY <1>2, LinkSent, TwoEntities
  <2> QED BY <1>1, <1>2, <2>1, AppendAligned
<1>3. CASE e = Peer(a)
  <2>1. link'[a] = Append(link[a], msg) /\ link'[Peer(a)] = link[Peer(a)] /\ e # a
    BY <1>3, LinkSent, TwoEntities
  <2> QED BY <1>1, <2>1, AppendAligned
<1> QED BY <1>2, <1>3, TwoEntities

LEMMA EmitResetAligned ==
  ASSUME Inv, NEW a \in Entity, NEW e \in Entity, EmitReset(e),
         NEW w, NEW r, Aligned(w, r, link[Peer(a)], link[a])
  PROVE  Aligned(w, r, link'[Peer(a)], link'[a])
<1> DEFINE c == ResetStarted(ctl[e])
           msg == ResetMsg("RESET", c.mResetTransRSN)
<1>1. c.mResetTransRSN \in Nat
  BY StateTypes, ResetStartedType, Zenon DEF Control
<1>2. msg \in Pdu /\ msg.type = "RESET"
  <2> HIDE DEF c
  <2>1. msg \in Pdu
    BY <1>1, ResetMsgType
  <2>2. msg.type = "RESET"
    BY DEF ResetMsg
  <2> QED BY <2>1, <2>2
<1>3. link' = link \/ Send(e, msg)
  BY Zenon DEF EmitReset
<1> HIDE DEF msg
<1> QED BY <1>2, <1>3, SentAligned, SMT

\* A data PDU that is in the window.
LEMMA TransmitTwo ==
  ASSUME Inv, NEW a \in Entity, NEW e \in Entity, NEW w \in Window, NEW p,
         NEW sn \in SN, w.mPduTxQ[sn] \in TxPdu, Transmit(e, w, p, sn),
         e = a => /\ Aligned(w, recv[Peer(a)], link[Peer(a)], link[a])
                  /\ 0 <= Pos(w, sn) /\ Pos(w, sn) < Pos(w, w.mVTS),
         e # a => Two(a)
  PROVE  Two(a)'
<1> DEFINE counted == CountTransmission(w, sn)
           asked   == IsPollTriggered(p, source'[e])
           polls   == asked.mPollTriggered /\ ~PollProhibited(asked)
           u       == IF e = a THEN w ELSE win[a]
           msg     == DataMsg(w, sn, polls)
<1>1. counted \in Window /\ SameWindow(w, counted)
  BY CountTransmissionType, CountTransmissionSame
<1>2. /\ win' = [win EXCEPT ![e] = counted] /\ recv' = recv
      /\ EmitReset(e) \/ Send(e, msg)
  BY Zenon DEF Transmit
<1>3. polls \in BOOLEAN
  BY Zenon
<1>4. msg \in Data /\ msg \in Pdu /\ msg.type = "DATA" /\ msg.sn = sn
  <2> HIDE DEF polls
  <2>1. w.mPduTxQ[sn].payload \in Payload
    BY Zenon DEF TxPdu
  <2> QED BY <1>3, <2>1, SMT DEF DataMsg, Data, Pdu
<1> HIDE DEF counted, msg
<1>5. /\ Aligned(u, recv[Peer(a)], link[Peer(a)], link[a]) /\ u \in Window
      /\ recv[Peer(a)] \in Rx /\ link[Peer(a)] \in Seq(Pdu) /\ link[a] \in Seq(Pdu)
  BY StateTypes, TwoEntities DEF Two
<1>6. Aligned(u, recv[Peer(a)], link'[Peer(a)], link'[a])
  <2>1. CASE EmitReset(e)
    BY <1>5, <2>1, EmitResetAligned, Zenon
  <2>2. CASE Send(e, msg) /\ e # a
    BY <1>4, <1>5, <2>2, SentAligned, Zenon
  <2>3. CASE Send(e, msg) /\ e = a
    <3>1. link'[Peer(a)] = Append(link[Peer(a)], msg) /\ link'[a] = link[a]
      BY <2>3, LinkSent, TwoEntities
    <3>2. 0 <= Pos(w, msg.sn) /\ Pos(w, msg.sn) < Pos(w, w.mVTS)
      BY <1>4, <2>3
    <3> QED BY <1>4, <1>5, <2>3, <3>1, <3>2, DataSentOk
  <2> QED BY <1>2, <2>1, <2>2, <2>3
<1>7. Aligned(win'[a], recv[Peer(a)], link'[Peer(a)], link'[a])
  <2>1. CASE e = a
    <3>1. win'[a] = counted
      BY <1>2, <2>1, Zenon DEF Inv, TypeOK
    <3> QED BY <1>1, <1>6, <2>1, <3>1, SameWindowOk
  <2>2. CASE e # a
    <3>1. win'[a] = win[a]
      BY <1>2, <2>2, Zenon DEF Inv, TypeOK
    <3> QED BY <1>6, <2>2, <3>1
  <2> QED BY <2>1, <2>2
<1> QED BY <1>2, <1>7 DEF Two

LEMMA ReadRetransmissionTwo ==
  ASSUME Inv, NEW a \in Entity, NEW e \in Entity, Two(a), ReadRetransmission(e)
  PROVE  Two(a)'
<1> DEFINE w == Retransmitted(win[e])
           sn == win[e].mVSNack
           p == PollAskedIf(poll[e], /\ ~w.mNackedBlocksWaiting
                                     /\ mConfig.mLastRetransmissionPduPoll)
<1>1. win[e] \in Window /\ NackOk(win[e]) /\ win[e].mNackedBlocksWaiting
  BY StateTypes DEF ReadRetransmission
<1>2. w \in Window /\ w.mPduTxQ[sn] \in TxPdu /\ SameWindow(win[e], w)
  BY <1>1, RetransmittedType, RetransmittedSame
<1>3. sn \in SN
  BY <1>1, PduSnType
<1>4. Transmit(e, w, p, sn)
  BY Zenon DEF ReadRetransmission
<1>5. ASSUME e = a
      PROVE  /\ Aligned(w, recv[Peer(a)], link[Peer(a)], link[a])
             /\ 0 <= Pos(w, sn) /\ Pos(w, sn) < Pos(w, w.mVTS)
  <2>1. Aligned(w, recv[Peer(a)], link[Peer(a)], link[a])
    <3> HIDE DEF w
    <3> QED BY <1>1, <1>2, <1>5, SameWindowOk DEF Two
  <2>2. SenderOk(w) /\ w.mPduTxQ[sn] # NoPdu
    BY <1>2, <2>1, NullAssumption DEF Aligned
  <2> QED BY <1>3, <2>1, <2>2, Zenon DEF SenderOk
<1> HIDE DEF w, sn, p
<1> QED BY <1>2, <1>3, <1>4, <1>5, TransmitTwo

LEMMA ReadNewDataTwo ==
  ASSUME Inv, NEW a \in Entity, NEW e \in Entity, Two(a), ReadNewData(e)
  PROVE  Two(a)'
<1> DEFINE payload == FilledPayload(source[e])
           w == getDataPdu(win[e], payload)
           sn == win[e].mVTS
           p == PollAskedIf(poll[e], /\ pdusFinished(source'[e])
                                     /\ mConfig.mLastTransmissionPduPoll)
<1>1. win[e] \in Window /\ ~stalled(win[e]) /\ payload \in Payload
  BY StateTypes, FilledPayloadType DEF ReadNewData, NoNewData
<1> HIDE DEF payload
<1>2. w \in Window /\ w.mPduTxQ[sn] \in TxPdu
  BY <1>1, GetDataPduType
<1>3. sn \in SN
  BY <1>1, PduSnType
<1>4. Transmit(e, w, p, sn)
  BY Zenon DEF ReadNewData, payload
<1>5. ASSUME e = a
      PROVE  /\ Aligned(w, recv[Peer(a)], link[Peer(a)], link[a])
             /\ 0 <= Pos(w, sn) /\ Pos(w, sn) < Pos(w, w.mVTS)
  <2>1. /\ recv[Peer(a)] \in Rx /\ link[Peer(a)] \in Seq(Pdu) /\ link[a] \in Seq(Pdu)
    BY StateTypes, TwoEntities
  <2>2. SenderOk(win[e]) /\ Aligned(win[e], recv[Peer(a)], link[Peer(a)], link[a])
    BY <1>5 DEF Two, Aligned
  <2> QED BY <1>1, <2>1, <2>2, NewDataOk
<1> HIDE DEF w, sn, p
<1> QED BY <1>2, <1>3, <1>4, <1>5, TransmitTwo

LEMMA ReadPollOnlyTwo ==
  ASSUME Inv, NEW a \in Entity, NEW e \in Entity, Two(a), ReadPollOnly(e)
  PROVE  Two(a)'
<1> DEFINE asked == IsPollTriggered(poll[e], source[e])
           sn == LastSent(e)
           msg == DataMsg(win[e], sn, TRUE)
<1>1. UNCHANGED <<win, recv>>
  BY Zenon DEF ReadPollOnly
<1>2. CASE link' = link
  BY <1>1, <1>2, Zenon DEF Two
<1>3. CASE PollRepeats(e, asked) /\ Send(e, msg)
  <2>1. win[e] \in Window /\ sn \in SN
    <3>1. win[e] \in Window /\ win[e].mVTS \in SN
      BY StateTypes, PduSnType
    <3>2. win[e].mVTS \in Int
      BY <3>1, SNSAssumption, SMT DEF SN
    <3> QED BY <3>1, <3>2, AddSNType, SMT DEF LastSent
  <2>2. win[e].mPduTxQ[sn] # NoPdu
    BY <1>3, Zenon DEF PollRepeats
  <2>3. msg \in Data /\ msg \in Pdu /\ msg.sn = sn /\ msg.type = "DATA"
    <3>1. win[e].mPduTxQ[sn] \in TxPdu
      BY <2>1, <2>2, PduSnType, Zenon
    <3>2. win[e].mPduTxQ[sn].payload \in Payload
      BY <3>1, Zenon DEF TxPdu
    <3> HIDE DEF sn
    <3> QED BY <2>1, <3>2, SMT DEF DataMsg, Data, Pdu
  <2> HIDE DEF msg, sn
  <2>4. CASE e # a
    <3>1. Aligned(win[a], recv[Peer(a)], link'[Peer(a)], link'[a])
      BY <1>3, <2>3, <2>4, SentAligned DEF Two
    <3> QED BY <1>1, <3>1 DEF Two
  <2>5. CASE e = a
    <3>1. link'[Peer(a)] = Append(link[Peer(a)], msg) /\ link'[a] = link[a]
      BY <1>3, <2>5, LinkSent, TwoEntities
    <3>2. SenderOk(win[a])
      BY DEF Two, Aligned
    <3>3. 0 <= Pos(win[a], msg.sn) /\ Pos(win[a], msg.sn) < Pos(win[a], win[a].mVTS)
      BY <2>1, <2>2, <2>3, <2>5, <3>2 DEF SenderOk
    <3>4. /\ win[a] \in Window /\ recv[Peer(a)] \in Rx
          /\ link[Peer(a)] \in Seq(Pdu) /\ link[a] \in Seq(Pdu)
      BY StateTypes, TwoEntities
    <3>5. Aligned(win[a], recv[Peer(a)], Append(link[Peer(a)], msg), link[a])
      BY <2>3, <3>3, <3>4, DataSentOk DEF Two
    <3> QED BY <1>1, <3>1, <3>5 DEF Two
  <2> QED BY <2>4, <2>5
<1>4. link' = link \/ (PollRepeats(e, asked) /\ Send(e, msg))
  BY Zenon DEF ReadPollOnly
<1> QED BY <1>2, <1>3, <1>4

LEMMA ReadResetTwo ==
  ASSUME Inv, NEW a \in Entity, NEW e \in Entity, Two(a),
         ReadReset(e) \/ ReadResetAck(e)
  PROVE  Two(a)'
<1>1. UNCHANGED <<win, recv>>
  BY Zenon DEF ReadReset, ReadResetAck
<1>2. Aligned(win[a], recv[Peer(a)], link'[Peer(a)], link'[a])
  <2>1. CASE ReadReset(e)
    BY <2>1, EmitResetAligned DEF ReadReset, Two
  <2>2. CASE ReadResetAck(e)
    <3> DEFINE msg == ResetMsg("RESET_ACK", ctl[e].mResetAckRSN)
    <3>1. ctl[e].mResetAckRSN \in Nat
      <4>1. ctl[e].mResetAckRSN \in {0, 1}
        BY StateTypes, Zenon DEF Control
      <4> QED BY <4>1, SMT
    <3>2. msg \in Pdu /\ msg.type = "RESET_ACK" /\ Send(e, msg)
      BY <2>2, <3>1, ResetMsgType DEF ReadResetAck, ResetMsg
    <3> HIDE DEF msg
    <3> QED BY <3>2, SentAligned, SMT DEF Two
  <2> QED BY <2>1, <2>2
<1> QED BY <1>1, <1>2 DEF Two

LEMMA ReadStatusTwo ==
  ASSUME Inv, NEW a \in Entity, NEW e \in Entity, Two(a), ReadStatus(e)
  PROVE  Two(a)'
<1> DEFINE msg == addAckNack(recv[e])
<1>1. /\ recv[e] \in Rx /\ NextMissing(recv[e]) /\ msg \in Pdu /\ msg.type = "STATUS"
  <2>1. recv[e] \in Rx /\ NextMissing(recv[e])
    BY StateTypes
  <2>2. msg \in Status
    BY <2>1, AddAckNackType
  <2>3. msg \in Pdu
    BY <2>2, Zenon DEF Pdu
  <2>4. msg.type = "STATUS"
    BY <2>2, SMT DEF Status
  <2> QED BY <2>1, <2>3, <2>4
<1>2. /\ win' = win /\ Send(e, msg)
      /\ recv' = [recv EXCEPT ![e] = StatusReported(recv[e])]
  BY Zenon DEF ReadStatus
<1> HIDE DEF msg
<1>3. CASE e = a
  <2>1. recv'[Peer(a)] = recv[Peer(a)]
    BY <1>2, <1>3, TwoEntities, Zenon DEF Inv, TypeOK
  <2>2. Aligned(win[a], recv[Peer(a)], link'[Peer(a)], link'[a])
    BY <1>1, <1>2, <1>3, SentAligned, SMT DEF Two
  <2> QED BY <1>2, <2>1, <2>2 DEF Two
<1>4. CASE e = Peer(a)
  <2>1. recv'[Peer(a)] = StatusReported(recv[e])
    BY <1>2, <1>4, Zenon DEF Inv, TypeOK
  <2>2. link'[a] = Append(link[a], msg) /\ link'[Peer(a)] = link[Peer(a)]
    BY <1>2, <1>4, LinkSent, TwoEntities
  <2>3. win[a] \in Window /\ link[a] \in Seq(Pdu)
    BY StateTypes
  <2>4. Aligned(win[a], StatusReported(recv[e]), link[Peer(a)], Append(link[a], msg))
    BY <1>1, <1>4, <2>3, StatusReportedOk DEF Two, msg
  <2> QED BY <1>2, <2>1, <2>2, <2>4 DEF Two
<1> QED BY <1>3, <1>4, TwoEntities

LEMMA ReadTwo ==
  ASSUME Inv, NEW a \in Entity, NEW e \in Entity, Two(a), RlcReadLowSide(e)
  PROVE  Two(a)'
BY ReadResetTwo, ReadStatusTwo, ReadRetransmissionTwo, ReadNewDataTwo,
   ReadPollOnlyTwo DEF RlcReadLowSide

LEMMA ReceiveDataTwo ==
  ASSUME Inv, NEW a \in Entity, NEW e \in Entity, Two(a), ReceiveData(e)
  PROVE  Two(a)'
<1> DEFINE m == Head(link[e])
           p == PollSeen(recv[e], m.poll)
           s == Stored(p, m.sn, m.payload)
           r == IF Unwanted(p, m.sn) THEN p ELSE Accepted(s, m.sn)
<1>1. /\ link[e] # <<>> /\ m.type = "DATA" /\ Take(e) /\ win' = win
      /\ recv' = [recv EXCEPT ![e] = r]
  BY Zenon DEF ReceiveData, Arrived
<1>2. /\ link[a] \in Seq(Pdu) /\ link[Peer(a)] \in Seq(Pdu) /\ Peer(a) \in Entity
      /\ Peer(a) # a /\ win[a] \in Window /\ recv[Peer(a)] \in Rx
  BY StateTypes, TwoEntities
<1>3. CASE e = a
  <2> HIDE DEF r
  <2>1. link'[a] = Tail(link[a]) /\ link'[Peer(a)] = link[Peer(a)]
        /\ recv'[Peer(a)] = recv[Peer(a)]
    BY <1>1, <1>2, <1>3, LinkTaken, Zenon DEF Inv, TypeOK
  <2> QED BY <1>1, <1>2, <1>3, <2>1, TailAligned DEF Two
<1>4. CASE e = Peer(a)
  <2>1. Aligned(win[a], r, Tail(link[e]), link[a])
    BY <1>1, <1>2, <1>4, DataReceivedOk DEF Two
  <2> HIDE DEF r
  <2>2. link'[Peer(a)] = Tail(link[Peer(a)]) /\ link'[a] = link[a]
    BY <1>1, <1>2, <1>4, LinkTaken
  <2>3. recv'[Peer(a)] = r
    BY <1>1, <1>2, <1>4, Zenon DEF Inv, TypeOK
  <2> QED BY <1>1, <1>4, <2>1, <2>2, <2>3 DEF Two
<1> QED BY <1>3, <1>4, TwoEntities

LEMMA ReceiveStatusTwo ==
  ASSUME Inv, NEW a \in Entity, NEW e \in Entity, Two(a), ReceiveStatus(e)
  PROVE  Two(a)'
<1> DEFINE w == processSUFIs2(win[e], Head(link[e]))
<1>1. /\ link[e] # <<>> /\ Head(link[e]).type = "STATUS" /\ Take(e) /\ recv' = recv
      /\ win' = [win EXCEPT ![e] = w]
  BY Zenon DEF ReceiveStatus, Arrived
<1>2. /\ link[a] \in Seq(Pdu) /\ link[Peer(a)] \in Seq(Pdu) /\ Peer(a) \in Entity
      /\ Peer(a) # a /\ win[a] \in Window /\ recv[Peer(a)] \in Rx
  BY StateTypes, TwoEntities
<1>3. CASE e = a
  <2>1. Aligned(w, recv[Peer(a)], link[Peer(a)], Tail(link[a]))
    <3>1. SenderOk(win[a]) /\ StatusOk(win[a], link[a])
      BY DEF Two, Aligned
    <3> QED BY <1>1, <1>2, <1>3, <3>1, StatusReceivedOk DEF Two
  <2> HIDE DEF w
  <2>2. link'[a] = Tail(link[a]) /\ link'[Peer(a)] = link[Peer(a)]
    BY <1>1, <1>2, <1>3, LinkTaken
  <2>3. win'[a] = w
    BY <1>1, <1>3, Zenon DEF Inv, TypeOK
  <2> QED BY <1>1, <2>1, <2>2, <2>3 DEF Two
<1>4. CASE e = Peer(a)
  <2> HIDE DEF w
  <2>1. link'[Peer(a)] = Tail(link[Peer(a)]) /\ link'[a] = link[a]
    BY <1>1, <1>2, <1>4, LinkTaken
  <2>2. win'[a] = win[a]
    BY <1>1, <1>2, <1>4, Zenon DEF Inv, TypeOK
  <2> QED BY <1>1, <1>2, <1>4, <2>1, <2>2, TailAligned DEF Two
<1> QED BY <1>3, <1>4, TwoEntities

\* Of all the steps only a reset can part the two windows.
LEMMA NextTwo ==
  ASSUME Inv, NEW a \in Entity, Two(a), [Next]_vars
  PROVE  Two(a)' \/ \E e \in Entity : Arrived(e, "RESET") \/ Arrived(e, "RESET_ACK")
<1>1. CASE UNCHANGED <<win, recv, link>>
  BY <1>1, Zenon DEF Two
<1>2. ASSUME NEW e \in Entity, link[e] # <<>>, Take(e), UNCHANGED <<win, recv>>
      PROVE  Two(a)'
  BY <1>2, TakenTwo
<1>3. ASSUME NEW e \in Entity, RlcReadLowSide(e)
      PROVE  Two(a)'
  BY <1>3, ReadTwo
<1>4. ASSUME NEW e \in Entity, ReceiveData(e) \/ ReceiveStatus(e)
      PROVE  Two(a)'
  BY <1>4, ReceiveDataTwo, ReceiveStatusTwo
<1>5. ASSUME NEW e \in Entity, ReceiveReset(e) \/ ReceiveResetAck(e)
      PROVE  Arrived(e, "RESET") \/ Arrived(e, "RESET_ACK")
  BY <1>5, Zenon DEF ReceiveReset, ReceiveResetAck
<1>7. ASSUME NEW e \in Entity,
             \/ \E sdu \in Sdu : RlcWriteHighSide(e, sdu)
             \/ TriggerReset(e)
             \/ RstTimerExpires(e)
             \/ \E timer \in PollTimers : PollTimerExpires(e, timer)
      PROVE  UNCHANGED <<win, recv, link>>
  BY <1>7, Zenon DEF RlcWriteHighSide, TriggerReset, RstTimerExpires, PollTimerExpires
<1>8. ASSUME NEW e \in Entity, LosePdu(e)
      PROVE  Two(a)'
  <2>1. link[e] # <<>> /\ Take(e) /\ UNCHANGED <<win, recv>>
    BY <1>8, Zenon DEF LosePdu, tran
  <2> QED BY <1>2, <2>1
<1>9. UNCHANGED vars => UNCHANGED <<win, recv, link>>
  BY Zenon DEF vars, tran
<1> QED
  BY <1>1, <1>3, <1>4, <1>5, <1>7, <1>8, <1>9 DEF Next, RlcWriteLowSide

-----------------------------------------------------------------------------
(* No reset: what the actions do to the control records and the links.     *)

\* No RESET has been sent so far.
NeverReset ==
  \A e \in Entity : ctl[e].mVTRST = 0 /\ ctl[e].mResetTransRSN = 0

\* Nor is there any other trace of a reset.
Calm ==
  \A e \in Entity :
    /\ ctl[e].mTimer_RST = "off" /\ ctl[e].state = "RUN" /\ ~ctl[e].mSendResetAck
    /\ \A i \in 1 .. Len(link[e]) : link[e][i].type \in {"DATA", "STATUS"}

CalmInv == NeverReset => Calm /\ \A e \in Entity : Two(e)

\* What a step that sends no RESET leaves of a control record.
Steady(c, d, ack) ==
  /\ d.mVTRST = c.mVTRST /\ d.mResetTransRSN = c.mResetTransRSN
  /\ c.mTimer_RST = "off" => d.mTimer_RST = "off"
  /\ d.state = c.state
  /\ d.mSendResetAck => c.mSendResetAck \/ ack

ResetArrived == \E e \in Entity : Arrived(e, "RESET")

LEMMA EmitResetCounted ==
  ASSUME Inv, NEW e \in Entity, EmitReset(e) PROVE ~NeverReset'
<1>1. ctl[e] \in Control /\ ctl[e].mVTRST \in Nat
  BY StateTypes, Zenon DEF Control
<1>2. ctl'[e] = ResetStarted(ctl[e])
  BY Zenon DEF EmitReset, Inv, TypeOK
<1>3. ctl'[e].mVTRST = ctl[e].mVTRST + 1
  BY <1>1, <1>2, Zenon DEF ResetStarted, Control
<1> QED BY <1>1, <1>3, SMT DEF NeverReset

LEMMA SteadyUpdate ==
  ASSUME Inv, NEW e \in Entity, NEW c, Steady(ctl[e], c, ResetArrived),
         ctl' = [ctl EXCEPT ![e] = c]
  PROVE  \A x \in Entity : Steady(ctl[x], ctl'[x], ResetArrived)
BY Zenon DEF Inv, TypeOK, Steady

LEMMA SteadyCtl ==
  ASSUME Inv, [Next]_vars, NeverReset'
  PROVE  \A x \in Entity : Steady(ctl[x], ctl'[x], ResetArrived)
<1> DEFINE Goal == \A x \in Entity : Steady(ctl[x], ctl'[x], ResetArrived)
<1>1. UNCHANGED ctl => Goal
  BY Zenon DEF Steady
<1>2. ASSUME NEW e \in Entity PROVE ~EmitReset(e)
  BY EmitResetCounted
<1>3. ASSUME NEW e \in Entity
      PROVE  /\ \A v, ack : Steady(ctl[e], [ctl[e] EXCEPT !.mResetTriggered = v], ack)
             /\ \A v, ack : Steady(ctl[e], [ctl[e] EXCEPT !.mStatusTriggered = v], ack)
             /\ \A ack : Steady(ctl[e], [ctl[e] EXCEPT !.mSendResetAck = FALSE], ack)
             /\ ctl[e].mTimer_RST = "running" =>
                  \A v, ack : Steady(ctl[e], [ctl[e] EXCEPT !.mTimer_RST = v], ack)
             /\ \A ack : Steady(ctl[e], controlReset(ctl[e]), ack)
             /\ controlReset(ctl[e]) \in Control
             /\ \A d \in Control : \A r : Steady(d, [d EXCEPT !.mResetAckRSN = r,
                   !.mResetReceived = TRUE, !.mSendResetAck = TRUE], TRUE)
  <2>1. ctl[e] \in Control /\ controlReset(ctl[e]) \in Control
    BY StateTypes, ControlResetType
  <2>2. \A ack : Steady(ctl[e], controlReset(ctl[e]), ack)
    BY <2>1, Zenon DEF Control, controlReset, Steady
  <2> QED BY <2>1, <2>2, Zenon DEF Control, Steady
<1> HIDE DEF Goal
<1>4. ASSUME NEW e \in Entity, RlcReadLowSide(e) PROVE Goal
  <2>1. CASE ReadResetAck(e)
    BY <1>3, <2>1, SteadyUpdate, Zenon DEF ReadResetAck, Goal
  <2>2. CASE ReadReset(e)
    BY <1>2, <2>2, Zenon DEF ReadReset
  <2>3. CASE ReadStatus(e)
    BY <1>3, <2>3, SteadyUpdate, Zenon DEF ReadStatus, Goal
  <2>4. CASE ReadRetransmission(e)
    BY <1>1, <1>2, <2>4, Zenon DEF ReadRetransmission, Transmit
  <2>5. CASE ReadNewData(e)
    BY <1>1, <1>2, <2>5, Zenon DEF ReadNewData, Transmit
  <2>6. CASE ReadPollOnly(e)
    BY <1>1, <2>6, Zenon DEF ReadPollOnly
  <2> QED BY <1>4, <2>1, <2>2, <2>3, <2>4, <2>5, <2>6 DEF RlcReadLowSide
<1>5. ASSUME NEW e \in Entity, ReceiveData(e) PROVE Goal
  BY <1>3, <1>5, SteadyUpdate, Zenon DEF ReceiveData, Goal
<1>6. ASSUME NEW e \in Entity, ReceiveStatus(e) PROVE Goal
  BY <1>1, <1>6, Zenon DEF ReceiveStatus
<1>7. ASSUME NEW e \in Entity, ReceiveReset(e) PROVE Goal
  <2> DEFINE rsn == Head(link[e]).rsn
             Acknowledge(d) == [d EXCEPT !.mResetAckRSN = rsn,
                      !.mResetReceived = TRUE, !.mSendResetAck = TRUE]
  <2>1. \/ ctl' = [ctl EXCEPT ![e] = Acknowledge(controlReset(ctl[e]))]
        \/ ctl' = [ctl EXCEPT ![e] = Acknowledge(ctl[e])]
    BY <1>7, Zenon DEF ReceiveReset, FullReset, ResetTo
  <2>2. /\ Steady(ctl[e], Acknowledge(ctl[e]), TRUE)
        /\ Steady(controlReset(ctl[e]), Acknowledge(controlReset(ctl[e])), TRUE)
    BY <1>3, StateTypes
  <2> HIDE DEF Acknowledge
  <2>3. Steady(ctl[e], Acknowledge(controlReset(ctl[e])), TRUE)
    BY <1>3, <2>2, Zenon DEF Steady
  <2>4. ResetArrived
    BY <1>7, Zenon DEF ReceiveReset, ResetArrived
  <2>5. /\ Steady(ctl[e], Acknowledge(ctl[e]), ResetArrived)
        /\ Steady(ctl[e], Acknowledge(controlReset(ctl[e])), ResetArrived)
    BY <2>2, <2>3, <2>4, Zenon DEF Steady
  <2> QED BY <2>1, <2>5, SteadyUpdate DEF Goal
<1>8. ASSUME NEW e \in Entity, ReceiveResetAck(e) PROVE Goal
  <2> DEFINE d == [controlReset(ctl[e]) EXCEPT
                     !.mVTRST = 0, !.mTimer_RST = "off",
                     !.mResetTransRSN = ctl[e].mResetTransRSN + 1]
  <2>1. UNCHANGED ctl \/ ctl' = [ctl EXCEPT ![e] = d]
    BY <1>8, Zenon DEF ReceiveResetAck, FullReset, ResetTo, tran
  <2>2. CASE ctl' = [ctl EXCEPT ![e] = d]
    <3>1. ctl'[e] = d
      BY <2>2, Zenon DEF Inv, TypeOK
    <3>2. d.mResetTransRSN = ctl[e].mResetTransRSN + 1
      BY <1>3, Zenon DEF Control
    <3>3. ctl[e].mResetTransRSN \in Nat
      BY StateTypes, Zenon DEF Control
    <3> HIDE DEF d
    <3>4. ctl'[e].mResetTransRSN # 0
      BY <3>1, <3>2, <3>3, SMT
    <3> QED BY <3>4, Zenon DEF NeverReset
  <2> QED BY <1>1, <2>1, <2>2
<1>9. ASSUME NEW e \in Entity, TriggerReset(e) PROVE Goal
  BY <1>3, <1>9, SteadyUpdate, Zenon DEF TriggerReset, Goal
<1>10. ASSUME NEW e \in Entity, RstTimerExpires(e) PROVE Goal
  BY <1>3, <1>10, SteadyUpdate, Zenon DEF RstTimerExpires, Goal
<1>11. ASSUME NEW e \in Entity,
              \/ \E sdu \in Sdu : RlcWriteHighSide(e, sdu)
              \/ \E timer \in PollTimers : PollTimerExpires(e, timer)
              \/ LosePdu(e)
       PROVE  Goal
  BY <1>1, <1>11, Zenon DEF RlcWriteHighSide, PollTimerExpires, LosePdu, tran
<1>12. ASSUME UNCHANGED vars PROVE Goal
  <2>1. UNCHANGED ctl
    BY <1>12 DEF vars, tran
  <2> QED BY <1>1, <2>1
<1>13. ASSUME NEW e \in Entity, RlcWriteLowSide(e) PROVE Goal
  BY <1>5, <1>6, <1>7, <1>8, <1>13 DEF RlcWriteLowSide
<1>14. Goal
  BY <1>4, <1>9, <1>10, <1>11, <1>12, <1>13 DEF Next
<1> QED BY <1>14 DEF Goal

\* What transmitting a data PDU does to the links and to the control flags.
LEMMA TransmitSteps ==
  ASSUME NEW e \in Entity, NEW w \in Window, NEW p,
         NEW sn \in SN, w.mPduTxQ[sn] \in TxPdu, Transmit(e, w, p, sn)
  PROVE  /\ recv' = recv
         /\ \/ EmitReset(e)
            \/ UNCHANGED ctl /\ \E m \in Pdu : m.type = "DATA" /\ Send(e, m)
<1> DEFINE asked == IsPollTriggered(p, source'[e])
           polls == asked.mPollTriggered /\ ~PollProhibited(asked)
<1>1. polls \in BOOLEAN
  BY Zenon
<1>2. \/ EmitReset(e)
      \/ UNCHANGED ctl /\ Send(e, DataMsg(w, sn, polls))
  BY Zenon DEF Transmit
<1>3. recv' = recv
  BY Zenon DEF Transmit
<1> HIDE DEF polls
<1>4. DataMsg(w, sn, polls) \in Pdu /\ DataMsg(w, sn, polls).type = "DATA"
  BY <1>1, DataMsgType DEF DataMsg
<1> QED BY <1>2, <1>3, <1>4

LEMMA DataSteps ==
  ASSUME Inv, NEW e \in Entity,
         ReadRetransmission(e) \/ ReadNewData(e) \/ ReadPollOnly(e)
  PROVE  /\ MayReadOn(e) /\ recv' = recv
         /\ \/ EmitReset(e)
            \/ UNCHANGED <<ctl, link>>
            \/ UNCHANGED ctl /\ \E m \in Pdu : m.type = "DATA" /\ Send(e, m)
<1>1. win[e] \in Window /\ win[e].mVTS \in SN /\ win[e].mVSNack \in SN
  BY StateTypes, PduSnType
<1>2. CASE ReadRetransmission(e)
  <2> DEFINE w == Retransmitted(win[e])
             p == PollAskedIf(poll[e], /\ ~w.mNackedBlocksWaiting
                                       /\ mConfig.mLastRetransmissionPduPoll)
  <2>1. w \in Window /\ w.mPduTxQ[win[e].mVSNack] \in TxPdu
    BY <1>2, StateTypes, RetransmittedType DEF ReadRetransmission
  <2>2. Transmit(e, w, p, win[e].mVSNack) /\ MayReadOn(e)
    BY <1>2, Zenon DEF ReadRetransmission, MayReadData
  <2> HIDE DEF w, p
  <2> QED BY <1>1, <2>1, <2>2, TransmitSteps
<1>3. CASE ReadNewData(e)
  <2> DEFINE payload == FilledPayload(source[e])
             w == getDataPdu(win[e], payload)
             p == PollAskedIf(poll[e], /\ pdusFinished(source'[e])
                                       /\ mConfig.mLastTransmissionPduPoll)
  <2>1. w \in Window /\ w.mPduTxQ[win[e].mVTS] \in TxPdu
    BY <1>1, StateTypes, FilledPayloadType, GetDataPduType
  <2>2. Transmit(e, w, p, win[e].mVTS) /\ MayReadOn(e)
    BY <1>3, Zenon DEF ReadNewData, MayReadData
  <2> HIDE DEF w, p
  <2> QED BY <1>1, <2>1, <2>2, TransmitSteps
<1>4. CASE ReadPollOnly(e)
  <2> DEFINE asked == IsPollTriggered(poll[e], source[e])
             msg == DataMsg(win[e], LastSent(e), TRUE)
  <2>1. /\ MayReadOn(e) /\ recv' = recv /\ UNCHANGED ctl
        /\ link' = link \/ (PollRepeats(e, asked) /\ Send(e, msg))
    BY <1>4, Zenon DEF ReadPollOnly, MayReadData
  <2>2. PollRepeats(e, asked) => msg \in Pdu /\ msg.type = "DATA"
    <3>1. LastSent(e) \in SN
      <4>1. win[e].mVTS \in Int
        BY <1>1, SNSAssumption, SMT DEF SN
      <4> QED BY <4>1, AddSNType, SMT DEF LastSent
    <3>2. PollRepeats(e, asked) => win[e].mPduTxQ[LastSent(e)] \in TxPdu
      BY <1>1, <3>1, PduSnType, Zenon DEF PollRepeats
    <3> QED BY <1>1, <3>1, <3>2, DataMsgType DEF DataMsg
  <2> HIDE DEF msg
  <2> QED BY <2>1, <2>2
<1> QED BY <1>2, <1>3, <1>4

LEMMA StatusSteps ==
  ASSUME Inv, NEW e \in Entity, ReadStatus(e)
  PROVE  \E m \in Pdu : m.type = "STATUS" /\ Send(e, m)
<1>1. addAckNack(recv[e]) \in Status
  BY StateTypes, AddAckNackType
<1>2. addAckNack(recv[e]) \in Pdu
  BY <1>1, Zenon DEF Pdu
<1>3. addAckNack(recv[e]).type = "STATUS"
  BY <1>1, SMT DEF Status
<1> QED BY <1>2, <1>3, Zenon DEF ReadStatus

\* What a step does to the links.
LEMMA LinkSteps ==
  ASSUME Inv, [Next]_vars
  PROVE  \/ UNCHANGED link
         \/ \E e \in Entity : link[e] # <<>> /\ Take(e)
         \/ \E e \in Entity : EmitReset(e) \/ ReadResetAck(e)
         \/ \E e \in Entity : \E m \in Pdu : m.type \in {"DATA", "STATUS"} /\ Send(e, m)
<1> DEFINE Goal ==
         \/ UNCHANGED link
         \/ \E e \in Entity : link[e] # <<>> /\ Take(e)
         \/ \E e \in Entity : EmitReset(e) \/ ReadResetAck(e)
         \/ \E e \in Entity : \E m \in Pdu : m.type \in {"DATA", "STATUS"} /\ Send(e, m)
<1>1. ASSUME NEW e \in Entity, RlcReadLowSide(e) PROVE Goal
  <2>1. CASE ReadResetAck(e)
    BY <2>1
  <2>2. CASE ReadReset(e)
    BY <2>2, Zenon DEF ReadReset
  <2>3. CASE ReadStatus(e)
    BY <2>3, StatusSteps
  <2>4. CASE ReadRetransmission(e) \/ ReadNewData(e) \/ ReadPollOnly(e)
    BY <2>4, DataSteps
  <2> QED BY <1>1, <2>1, <2>2, <2>3, <2>4 DEF RlcReadLowSide
<1>2. ASSUME NEW e \in Entity, RlcWriteLowSide(e) PROVE Goal
  BY <1>2, Zenon DEF RlcWriteLowSide, ReceiveData, ReceiveStatus, ReceiveReset,
                     ReceiveResetAck, Arrived
<1>3. ASSUME NEW e \in Entity, LosePdu(e) PROVE Goal
  BY <1>3, Zenon DEF LosePdu
<1>4. ASSUME NEW e \in Entity,
             \/ \E sdu \in Sdu : RlcWriteHighSide(e, sdu)
             \/ TriggerReset(e)
             \/ RstTimerExpires(e)
             \/ \E timer \in PollTimers : PollTimerExpires(e, timer)
      PROVE  UNCHANGED link
  BY <1>4, Zenon DEF RlcWriteHighSide, TriggerReset, RstTimerExpires, PollTimerExpires
<1>5. ASSUME UNCHANGED vars PROVE UNCHANGED link
  BY <1>5 DEF vars
<1> HIDE DEF Goal
<1>6. UNCHANGED link => Goal
  BY DEF Goal
<1>7. Goal
  BY <1>1, <1>2, <1>3, <1>4, <1>5, <1>6 DEF Next
<1> QED BY <1>7 DEF Goal

-----------------------------------------------------------------------------
LEMMA CalmNext == ASSUME Inv, CalmInv, [Next]_vars PROVE CalmInv'
<1> SUFFICES ASSUME NeverReset' PROVE Calm' /\ \A a \in Entity : Two(a)'
  BY Zenon DEF CalmInv
<1>1. \A x \in Entity : Steady(ctl[x], ctl'[x], ResetArrived)
  BY SteadyCtl
<1>2. NeverReset
  BY <1>1, Zenon DEF NeverReset, Steady
<1>3. Calm /\ \A a \in Entity : Two(a)
  BY <1>2 DEF CalmInv
<1>4. \A e \in Entity : ~EmitReset(e) /\ ~ReadResetAck(e)
  BY <1>3, EmitResetCounted DEF Calm, ReadResetAck
<1>5. \A e \in Entity : link'[e] \in Seq(Pdu) /\
         \A i \in 1 .. Len(link'[e]) : link'[e][i].type \in {"DATA", "STATUS"}
  <2>1. \A e \in Entity : \A i \in 1 .. Len(link[e]) : link[e][i].type \in {"DATA", "STATUS"}
    BY <1>3 DEF Calm
  <2>2. CASE UNCHANGED link
    BY <2>1, <2>2, StateTypes
  <2>3. ASSUME NEW e \in Entity, link[e] # <<>>, Take(e)
        PROVE  \A x \in Entity : link'[x] \in Seq(Pdu) /\
                 \A i \in 1 .. Len(link'[x]) : link'[x][i].type \in {"DATA", "STATUS"}
    <3>1. /\ Tail(link[e]) \in Seq(Pdu)
          /\ \A i \in 1 .. Len(Tail(link[e])) : Tail(link[e])[i].type \in {"DATA", "STATUS"}
      BY <2>1, <2>3, StateTypes, TailIndex
    <3> QED BY <2>1, <2>3, <3>1, LinkTaken, StateTypes
  <2>4. ASSUME NEW e \in Entity, NEW m \in Pdu, m.type \in {"DATA", "STATUS"}, Send(e, m)
        PROVE  \A x \in Entity : link'[x] \in Seq(Pdu) /\
                 \A i \in 1 .. Len(link'[x]) : link'[x][i].type \in {"DATA", "STATUS"}
    <3> DEFINE p == Peer(e)
    <3>1. p \in Entity /\ link[p] \in Seq(Pdu)
      BY StateTypes, TwoEntities
    <3>2. /\ Append(link[p], m) \in Seq(Pdu)
          /\ \A i \in 1 .. Len(Append(link[p], m)) :
               \/ i \in 1 .. Len(link[p]) /\ Append(link[p], m)[i] = link[p][i]
               \/ Append(link[p], m)[i] = m
      BY <3>1, AppendIndex, SMT
    <3>3. \A i \in 1 .. Len(Append(link[p], m)) :
            Append(link[p], m)[i].type \in {"DATA", "STATUS"}
      BY <2>1, <2>4, <3>1, <3>2
    <3>4. /\ link'[p] = Append(link[p], m)
          /\ \A x \in Entity : x # p => link'[x] = link[x]
      BY <2>4, LinkSent
    <3> HIDE DEF p
    <3> QED BY <2>1, <3>2, <3>3, <3>4, StateTypes
  <2> QED BY <1>4, <2>2, <2>3, <2>4, LinkSteps
<1>6. ASSUME NEW e \in Entity
      PROVE  ~Arrived(e, "RESET") /\ ~Arrived(e, "RESET_ACK")
  <2> SUFFICES ASSUME link[e] # <<>> PROVE Head(link[e]).type \in {"DATA", "STATUS"}
    BY DEF Arrived
  <2>1. link[e] \in Seq(Pdu)
    BY StateTypes
  <2>2. 1 \in 1 .. Len(link[e]) /\ Head(link[e]) = link[e][1]
    BY <2>1, TailIndex, SMT
  <2> QED BY <1>3, <2>2 DEF Calm
<1>7. \A a \in Entity : Two(a)'
  BY <1>3, <1>6, NextTwo
<1>8. ASSUME NEW e \in Entity PROVE ~ctl'[e].mSendResetAck
  BY <1>1, <1>3, <1>6, Zenon DEF Steady, ResetArrived, Calm
<1>9. Calm'
  BY <1>1, <1>3, <1>5, <1>8, Zenon DEF Calm, Steady
<1> QED BY <1>7, <1>9

\* The three properties, an entity or a pair of windows at a time.
LEMMA WindowProperties ==
  /\ TransmitWindow <=> \A e \in Entity : WindowOk(win[e])
  /\ ReceiverConsistent <=> \A e \in Entity : ReportOk(recv[e])
  /\ WindowsNested <=>
       (Synchronised => \A e \in Entity : Nested(win[e], recv[Peer(e)]))
BY Zenon DEF TransmitWindow, ReceiverConsistent, WindowsNested, WindowOk, ReportOk, Nested

LEMMA TwoProperties ==
  ASSUME Inv, NEW a \in Entity, Two(a)
  PROVE  /\ WindowOk(win[a]) /\ ReportOk(recv[Peer(a)])
         /\ Nested(win[a], recv[Peer(a)])
<1>1. /\ win[a] \in Window /\ recv[Peer(a)] \in Rx
      /\ SenderOk(win[a]) /\ ReceiverOk(win[a], recv[Peer(a)])
  BY StateTypes, TwoEntities DEF Two, Aligned
<1> QED BY <1>1, SenderWindowOk, ReceiverReportOk, AlignedNested

LEMMA InitTwo == ASSUME Init, NEW a \in Entity PROVE Two(a)
<1>1. /\ win[a] = windowInit /\ recv[Peer(a)] = recvAmInit
      /\ link[Peer(a)] = <<>> /\ link[a] = <<>>
  BY PeerType, Zenon DEF Init
<1>2. \A i \in 1 .. Len(<<>>) : FALSE
  BY EmptySeq, SMT
<1> QED BY <1>1, <1>2, InitAligned DEF Two

LEMMA CalmInit == Init => CalmInv
<1> SUFFICES ASSUME Init PROVE Calm /\ \A a \in Entity : Two(a)
  BY DEF CalmInv
<1>1. \A e \in Entity : ctl[e] = controlInit /\ link[e] = <<>>
  BY Zenon DEF Init
<1>2. controlInit.mTimer_RST = "off" /\ controlInit.state = "RUN" /\ ~controlInit.mSendResetAck
  BY DEF controlInit
<1>3. \A i \in 1 .. Len(<<>>) : FALSE
  BY EmptySeq, SMT
<1> QED BY <1>1, <1>2, <1>3, InitTwo DEF Calm

LEMMA CalmProperties ==
  ASSUME Inv, CalmInv, NeverReset
  PROVE  TransmitWindow /\ ReceiverConsistent /\ WindowsNested
<1>1. \A a \in Entity : Two(a)
  BY DEF CalmInv
<1>2. \A a \in Entity : /\ WindowOk(win[a]) /\ ReportOk(recv[Peer(a)])
                        /\ Nested(win[a], recv[Peer(a)])
  BY <1>1, TwoProperties
<1>3. \A a \in Entity : ReportOk(recv[a])
  BY <1>2, TwoEntities
<1> QED BY <1>2, <1>3, WindowProperties

\* As long as no RESET has been sent, whichever end writes SDUs and whatever is
\* lost: advanceVTA (URlcTransAm.cpp:79) frees no PDU the peer still misses,
\* getDataPdu overwrites none, mVRR never overtakes mVRH (the assertions at
\* URlcRecvAm.cpp:33 and 115), and no PDU is taken for one a window older.
THEOREM SpecCalm ==
  Spec => [](NeverReset => TransmitWindow /\ ReceiverConsistent /\ WindowsNested)
<1>1. Init => CalmInv
  BY CalmInit
<1>2. Inv /\ CalmInv /\ [Next]_vars => CalmInv'
  BY CalmNext
<1>3. Inv /\ CalmInv => (NeverReset => TransmitWindow /\ ReceiverConsistent /\ WindowsNested)
  BY CalmProperties
<1> QED BY <1>1, <1>2, <1>3, SpecInv, PTL DEF Spec

-----------------------------------------------------------------------------
(* The reset procedure brings the windows of the two ends back to each     *)
(* other, when one end sends data and starts the resets.  A reset empties  *)
(* the receiver's windows when the RESET arrives and the sender's when the *)
(* acknowledgement does.  In between RESETs and acknowledgements may be    *)
(* lost or repeated, and old data, status reports and answers to earlier   *)
(* RESETs are still under way.                                             *)
(*                                                                         *)
(* The bit of the reset sequence number tells the two halves of the        *)
(* procedure apart (Before and After).  The links keep order: nothing sent *)
(* before a RESET is still behind it.                                      *)


\* No reset is under way at the sender, and it has not given up.
Idle(c) == c.mTimer_RST = "off" /\ c.state = "RUN"

\* m is a reset PDU with the bit of the reset sequence number k.
IsRsn(m, kind, k) == m.type = kind /\ m.rsn = k % 2

\* What the two directions carry.
LinkTypes(dq, sq) ==
  /\ \A i \in 1 .. Len(dq) : dq[i].type \in {"DATA", "RESET"}
  /\ \A i \in 1 .. Len(sq) : sq[i].type \in {"STATUS", "RESET_ACK"}

\* Behind a RESET, or an acknowledgement, with the bit of k comes nothing else.
NothingAfter(q, kind, k) ==
  \A i, j \in 1 .. Len(q) : i < j /\ IsRsn(q[i], kind, k) => IsRsn(q[j], kind, k)

\* The RESETs under way when the receiver has not seen the one being sent.
ResetsBefore(c, dq) ==
  /\ NothingAfter(dq, "RESET", c.mResetTransRSN)
  /\ \A i \in 1 .. Len(dq) : dq[i].type = "RESET" =>
       /\ Idle(c) => dq[i].rsn # c.mResetTransRSN % 2
       /\ c.mResetTransRSN = 0 => dq[i].rsn = 0

\* The acknowledgements under way then are of earlier resets.
AcksBefore(k, sq) ==
  \A i \in 1 .. Len(sq) : sq[i].type = "RESET_ACK" => k # 0 /\ sq[i].rsn # k % 2

\* The sender receives nothing to report, the receiver starts no reset.
CtlStill(c, d) ==
  /\ ~c.mStatusTriggered /\ ~c.mSendResetAck
  /\ d.mTimer_RST = "off" /\ ~d.mResetTriggered

\* The receiver has not seen the RESET being sent, if any: the windows fit.
Before(w, r, dq, sq, c, d) ==
  LET k == c.mResetTransRSN
  IN  /\ Aligned(w, r, dq, sq)
      /\ k = 0 => ~d.mResetReceived /\ ~d.mSendResetAck
      /\ k # 0 => d.mResetReceived /\ d.mResetAckRSN # k % 2
      /\ ResetsBefore(c, dq)
      /\ AcksBefore(k, sq)

\* It has, and has reset its windows; the sender waits for the answer.
After(w, r, dq, sq, c, d) ==
  LET k == c.mResetTransRSN
  IN  /\ ~Idle(c)
      /\ SenderOk(w) /\ StatusOk(w, sq)
      /\ r = recvAmInit
      /\ \A i \in 1 .. Len(dq) : IsRsn(dq[i], "RESET", k)
      /\ d.mResetReceived /\ d.mResetAckRSN = k % 2 /\ ~d.mStatusTriggered
      /\ NothingAfter(sq, "RESET_ACK", k)

Joined(w, r, dq, sq, c, d) ==
  /\ CtlStill(c, d) /\ LinkTypes(dq, sq)
  /\ Before(w, r, dq, sq, c, d) \/ After(w, r, dq, sq, c, d)

-----------------------------------------------------------------------------
LEMMA TailSays ==
  ASSUME NEW q \in Seq(Pdu), q # <<>>, NEW kind, NEW k
  PROVE  /\ \A i \in 1 .. Len(Tail(q)) : \E j \in 1 .. Len(q) : Tail(q)[i] = q[j]
         /\ NothingAfter(q, kind, k) => NothingAfter(Tail(q), kind, k)
<1>1. /\ \A i \in 1 .. Len(Tail(q)) : i + 1 \in 1 .. Len(q) /\ Tail(q)[i] = q[i + 1]
      /\ Len(Tail(q)) \in Nat
  BY TailIndex, LenProperties
<1>2. \A i, j \in 1 .. Len(Tail(q)) : i < j => i + 1 < j + 1
  BY <1>1, SMT
<1> QED BY <1>1, <1>2, Zenon DEF NothingAfter

LEMMA AppendSays ==
  ASSUME NEW q \in Seq(Pdu), NEW m \in Pdu, NEW kind, NEW k
  PROVE  /\ Append(q, m) \in Seq(Pdu)
         /\ \A i \in 1 .. Len(Append(q, m)) :
              (\E j \in 1 .. Len(q) : Append(q, m)[i] = q[j]) \/ Append(q, m)[i] = m
         /\ NothingAfter(q, kind, k) /\ IsRsn(m, kind, k) =>
              NothingAfter(Append(q, m), kind, k)
         /\ (\A i \in 1 .. Len(q) : ~IsRsn(q[i], kind, k)) =>
              NothingAfter(Append(q, m), kind, k)
<1>1. /\ Append(q, m) \in Seq(Pdu)
      /\ Len(q) \in Nat /\ Len(Append(q, m)) = Len(q) + 1
      /\ \A i \in 1 .. Len(q) : Append(q, m)[i] = q[i]
      /\ Append(q, m)[Len(q) + 1] = m
  BY AppendIndex
<1>2. \A i \in 1 .. Len(Append(q, m)) :
        i \in 1 .. Len(q) \/ i = Len(q) + 1
  BY <1>1, SMT
<1>3. \A i, j \in 1 .. Len(Append(q, m)) : i < j => i \in 1 .. Len(q)
  BY <1>1, SMT
<1>4. ASSUME NothingAfter(q, kind, k), IsRsn(m, kind, k)
      PROVE  NothingAfter(Append(q, m), kind, k)
  BY <1>1, <1>2, <1>3, <1>4, Zenon DEF NothingAfter
<1>5. ASSUME \A i \in 1 .. Len(q) : ~IsRsn(q[i], kind, k)
      PROVE  NothingAfter(Append(q, m), kind, k)
  BY <1>1, <1>3, <1>5, Zenon DEF NothingAfter
<1>6. \A i \in 1 .. Len(Append(q, m)) :
        (\E j \in 1 .. Len(q) : Append(q, m)[i] = q[j]) \/ Append(q, m)[i] = m
  BY <1>1, <1>2, Zenon
<1> QED BY <1>1, <1>4, <1>5, <1>6

\* PDUs that are lost, or read and thrown away.
LEMMA JoinedTailData ==
  ASSUME NEW w, NEW r, NEW dq \in Seq(Pdu), dq # <<>>, NEW sq \in Seq(Pdu), NEW c, NEW d,
         Joined(w, r, dq, sq, c, d)
  PROVE  Joined(w, r, Tail(dq), sq, c, d)
<1> DEFINE k == c.mResetTransRSN
<1>1. CtlStill(c, d) /\ LinkTypes(Tail(dq), sq)
  BY TailSays, Zenon DEF Joined, LinkTypes
<1>2. CASE Before(w, r, dq, sq, c, d)
  <2>1. Aligned(w, r, Tail(dq), sq)
    BY <1>2, TailAligned DEF Before
  <2>2. ResetsBefore(c, Tail(dq))
    BY <1>2, TailSays, Zenon DEF Before, ResetsBefore
  <2> QED BY <1>1, <1>2, <2>1, <2>2, Zenon DEF Joined, Before
<1>3. CASE After(w, r, dq, sq, c, d)
  <2>1. \A i \in 1 .. Len(Tail(dq)) : IsRsn(Tail(dq)[i], "RESET", k)
    BY <1>3, TailSays, Zenon DEF After
  <2> QED BY <1>1, <1>3, <2>1, Zenon DEF Joined, After
<1> QED BY <1>2, <1>3 DEF Joined

LEMMA JoinedTailStatus ==
  ASSUME NEW w, NEW r, NEW dq \in Seq(Pdu), NEW sq \in Seq(Pdu), sq # <<>>, NEW c, NEW d,
         Joined(w, r, dq, sq, c, d)
  PROVE  Joined(w, r, dq, Tail(sq), c, d)
<1> DEFINE k == c.mResetTransRSN
<1>1. CtlStill(c, d) /\ LinkTypes(dq, Tail(sq))
  BY TailSays, Zenon DEF Joined, LinkTypes
<1>2. CASE Before(w, r, dq, sq, c, d)
  <2>1. Aligned(w, r, dq, Tail(sq))
    BY <1>2, TailAligned DEF Before
  <2>2. AcksBefore(k, Tail(sq))
    BY <1>2, TailSays, Zenon DEF Before, AcksBefore
  <2> QED BY <1>1, <1>2, <2>1, <2>2, Zenon DEF Joined, Before
<1>3. CASE After(w, r, dq, sq, c, d)
  <2>1. NothingAfter(Tail(sq), "RESET_ACK", k) /\ StatusOk(w, Tail(sq))
    BY <1>3, TailSays, TailOk, Zenon DEF After
  <2> QED BY <1>1, <1>3, <2>1, Zenon DEF Joined, After
<1> QED BY <1>2, <1>3 DEF Joined

\* Flags of the sender that the reset procedure does not look at.
LEMMA JoinedSender ==
  ASSUME NEW w \in Window, NEW v \in Window, SameWindow(w, v), NEW r, NEW dq, NEW sq,
         NEW c, NEW cc, NEW d, Joined(w, r, dq, sq, c, d),
         cc.mResetTransRSN = c.mResetTransRSN, Idle(cc) <=> Idle(c),
         cc.mStatusTriggered = c.mStatusTriggered, cc.mSendResetAck = c.mSendResetAck
  PROVE  Joined(v, r, dq, sq, cc, d)
<1>1. CtlStill(cc, d) /\ LinkTypes(dq, sq)
  BY DEF Joined, CtlStill
<1>2. CASE Before(w, r, dq, sq, c, d)
  <2>1. Aligned(v, r, dq, sq)
    BY <1>2, SameWindowOk DEF Before
  <2>2. ResetsBefore(cc, dq)
    BY <1>2, Zenon DEF Before, ResetsBefore
  <2> QED BY <1>1, <1>2, <2>1, <2>2, Zenon DEF Joined, Before
<1>3. CASE After(w, r, dq, sq, c, d)
  <2>1. SenderOk(v) /\ StatusOk(v, sq)
    BY <1>3, SameWindowOk DEF After
  <2> QED BY <1>1, <1>3, <2>1, Zenon DEF Joined, After
<1> QED BY <1>2, <1>3 DEF Joined

\* The sender starts or goes on with a reset, or gives up.
LEMMA JoinedEmitReset ==
  ASSUME NEW w, NEW r, NEW dq \in Seq(Pdu), NEW sq \in Seq(Pdu),
         NEW c \in Control, NEW d, Joined(w, r, dq, sq, c, d)
  PROVE  LET cc == ResetStarted(c)
             m == ResetMsg("RESET", cc.mResetTransRSN)
         IN  /\ cc.state = "STOP" => Joined(w, r, dq, sq, cc, d)
             /\ cc.state # "STOP" => Joined(w, r, Append(dq, m), sq, cc, d)
<1> DEFINE k == c.mResetTransRSN
           cc == ResetStarted(c)
           m == ResetMsg("RESET", cc.mResetTransRSN)
<1>1. /\ cc.mResetTransRSN = k /\ k \in Nat
      /\ cc.mStatusTriggered = c.mStatusTriggered /\ cc.mSendResetAck = c.mSendResetAck
      /\ ~Idle(cc)
  BY Zenon DEF ResetStarted, Control, Idle
<1>2. m \in Pdu /\ IsRsn(m, "RESET", k) /\ m.type = "RESET"
  BY <1>1, ResetMsgType DEF ResetMsg, IsRsn
<1>3. k = 0 => m.rsn = 0
  BY <1>2, SMT DEF IsRsn
<1> HIDE DEF cc, m
<1>4. CtlStill(cc, d) /\ LinkTypes(dq, sq)
  BY <1>1 DEF Joined, CtlStill
<1>5. LinkTypes(Append(dq, m), sq)
  BY <1>2, <1>4, AppendSays, Zenon DEF LinkTypes
<1>6. CASE Before(w, r, dq, sq, c, d)
  <2>1. ResetsBefore(cc, dq)
    BY <1>1, <1>6, Zenon DEF Before, ResetsBefore
  <2>2. ResetsBefore(cc, Append(dq, m))
    <3>1. NothingAfter(Append(dq, m), "RESET", k)
      BY <1>2, <1>6, AppendSays DEF Before, ResetsBefore
    <3> QED BY <1>1, <1>2, <1>3, <2>1, <3>1, AppendSays, Zenon DEF ResetsBefore
  <2>3. Aligned(w, r, Append(dq, m), sq)
    BY <1>2, <1>6, AppendAligned, SMT DEF Before
  <2>4. /\ Before(w, r, dq, sq, cc, d) /\ Before(w, r, Append(dq, m), sq, cc, d)
    BY <1>1, <1>6, <2>1, <2>2, <2>3, Zenon DEF Before
  <2> QED BY <1>4, <1>5, <2>4 DEF Joined, cc, m
<1>7. CASE After(w, r, dq, sq, c, d)
  <2>1. \A i \in 1 .. Len(Append(dq, m)) : IsRsn(Append(dq, m)[i], "RESET", k)
    BY <1>2, <1>7, AppendSays, Zenon DEF After
  <2>2. After(w, r, dq, sq, cc, d) /\ After(w, r, Append(dq, m), sq, cc, d)
    BY <1>1, <1>7, <2>1, Zenon DEF After
  <2> QED BY <1>4, <1>5, <2>2 DEF Joined, cc, m
<1> QED BY <1>6, <1>7 DEF Joined

\* The sender sends data while no reset is under way.
LEMMA JoinedSendData ==
  ASSUME NEW w, NEW v, NEW r, NEW dq \in Seq(Pdu), NEW sq, NEW c, NEW d,
         Joined(w, r, dq, sq, c, d), Idle(c), NEW m \in Pdu, m.type = "DATA",
         Aligned(v, r, Append(dq, m), sq)
  PROVE  Joined(v, r, Append(dq, m), sq, c, d)
<1> DEFINE k == c.mResetTransRSN
<1>1. Before(w, r, dq, sq, c, d)
  BY DEF Joined, After
<1>2. CtlStill(c, d) /\ LinkTypes(Append(dq, m), sq)
  BY AppendSays, Zenon DEF Joined, LinkTypes
<1>3. \A i \in 1 .. Len(dq) : ~IsRsn(dq[i], "RESET", k)
  BY <1>1, Zenon DEF Before, ResetsBefore, IsRsn
<1>4. NothingAfter(Append(dq, m), "RESET", k)
  BY <1>3, AppendSays
<1>5. ResetsBefore(c, Append(dq, m))
  <2>1. m.type # "RESET"
    BY SMT
  <2> QED BY <1>1, <1>4, <2>1, AppendSays, Zenon DEF Before, ResetsBefore
<1> QED BY <1>1, <1>2, <1>5, Zenon DEF Joined, Before

LEMMA HeadSays ==
  ASSUME NEW q \in Seq(Pdu), q # <<>>
  PROVE  /\ 1 \in 1 .. Len(q) /\ Head(q) = q[1] /\ Head(q) \in Pdu
         /\ \A kind, k : NothingAfter(q, kind, k) /\ IsRsn(Head(q), kind, k) =>
              \A i \in 1 .. Len(Tail(q)) : IsRsn(Tail(q)[i], kind, k)
<1>1. /\ Len(q) \in Nat /\ Len(q) >= 1 /\ Len(Tail(q)) = Len(q) - 1
      /\ \A i \in 1 .. Len(Tail(q)) : i + 1 \in 1 .. Len(q) /\ Tail(q)[i] = q[i + 1]
      /\ Head(q) = q[1]
  BY TailIndex
<1>2. 1 \in 1 .. Len(q) /\ \A i \in 1 .. Len(Tail(q)) : 1 < i + 1
  BY <1>1, SMT
<1>3. Head(q) \in Pdu
  BY <1>1, <1>2, ElementOfSeq, Zenon
<1> QED BY <1>1, <1>2, <1>3, Zenon DEF NothingAfter

LEMMA Bits ==
  ASSUME NEW k \in Nat
  PROVE  k % 2 \in {0, 1} /\ (k + 1) % 2 # k % 2
BY SMT

\* A reset sequence number is one bit.
LEMMA ResetRsn ==
  ASSUME NEW m \in Pdu, m.type \in {"RESET", "RESET_ACK"}
  PROVE  m.rsn \in {0, 1}
BY PduKinds, Zenon DEF Reset

LEMMA JoinedStatusReceived ==
  ASSUME NEW w \in Window, NEW r \in Rx, NEW dq \in Seq(Pdu), NEW sq \in Seq(Pdu),
         sq # <<>>, Head(sq).type = "STATUS", NEW c, NEW d, Joined(w, r, dq, sq, c, d)
  PROVE  Joined(processSUFIs2(w, Head(sq)), r, dq, Tail(sq), c, d)
<1> DEFINE v == processSUFIs2(w, Head(sq))
<1>1. Joined(w, r, dq, Tail(sq), c, d)
  BY JoinedTailStatus
<1>2. SenderOk(w) /\ StatusOk(w, sq)
  BY DEF Joined, Before, After, Aligned
<1>3. /\ SenderOk(v) /\ StatusOk(v, Tail(sq))
      /\ Aligned(w, r, dq, sq) => Aligned(v, r, dq, Tail(sq))
  BY <1>2, StatusReceivedOk
<1> HIDE DEF v
<1>4. CASE Before(w, r, dq, sq, c, d)
  <2>1. AcksBefore(c.mResetTransRSN, Tail(sq))
    BY <1>4, TailSays, Zenon DEF Before, AcksBefore
  <2> QED BY <1>1, <1>3, <1>4, <2>1, Zenon DEF Joined, Before, v
<1>5. CASE After(w, r, dq, sq, c, d)
  <2>1. NothingAfter(Tail(sq), "RESET_ACK", c.mResetTransRSN)
    BY <1>5, TailSays DEF After
  <2> QED BY <1>1, <1>3, <1>5, <2>1, Zenon DEF Joined, After, v
<1> QED BY <1>4, <1>5 DEF Joined

Acked(d, rsn) ==
  [d EXCEPT !.mResetAckRSN = rsn, !.mResetReceived = TRUE, !.mSendResetAck = TRUE]

IsNewReset(d, rsn) == resetInProgress(d) \/ ~d.mResetReceived \/ rsn # d.mResetAckRSN

LEMMA AckedFields ==
  ASSUME NEW d \in Control, NEW rsn \in {0, 1}
  PROVE  \A x \in {d, controlReset(d)} :
           /\ Acked(x, rsn).mTimer_RST = d.mTimer_RST
           /\ d.mResetTriggered = FALSE => Acked(x, rsn).mResetTriggered = FALSE
           /\ Acked(x, rsn).mResetReceived /\ Acked(x, rsn).mResetAckRSN = rsn
           /\ d.mStatusTriggered = FALSE => Acked(x, rsn).mStatusTriggered = FALSE
           /\ Acked(controlReset(d), rsn).mStatusTriggered = FALSE
BY Zenon DEF Control, controlReset, Acked

LEMMA JoinedReset ==
  ASSUME NEW w, NEW r, NEW dq \in Seq(Pdu), dq # <<>>, NEW sq \in Seq(Pdu),
         NEW c \in Control, NEW d \in Control, Joined(w, r, dq, sq, c, d),
         Head(dq).type = "RESET"
  PROVE  LET rsn == Head(dq).rsn
         IN  /\ IsNewReset(d, rsn) =>
                  /\ Before(w, r, dq, sq, c, d)
                  /\ After(w, recvAmInit, Tail(dq), sq, c, Acked(controlReset(d), rsn))
                  /\ Joined(w, recvAmInit, Tail(dq), sq, c, Acked(controlReset(d), rsn))
             /\ ~IsNewReset(d, rsn) => Joined(w, r, Tail(dq), sq, c, Acked(d, rsn))
<1> DEFINE k == c.mResetTransRSN
           rsn == Head(dq).rsn
           x == Acked(controlReset(d), rsn)
           y == Acked(d, rsn)
<1>1. /\ 1 \in 1 .. Len(dq) /\ Head(dq) = dq[1]
      /\ NothingAfter(dq, "RESET", k) /\ rsn = k % 2 =>
           \A i \in 1 .. Len(Tail(dq)) : IsRsn(Tail(dq)[i], "RESET", k)
  BY HeadSays, Zenon DEF IsRsn
<1>2. rsn \in {0, 1}
  BY HeadSays, ResetRsn
<1>3. k \in Nat /\ d.mResetAckRSN \in {0, 1} /\ d.mResetTriggered \in BOOLEAN
      /\ d.mStatusTriggered \in BOOLEAN
  BY Zenon DEF Control
<1>4. k % 2 \in {0, 1}
  BY <1>3, Bits
<1>5. Joined(w, r, Tail(dq), sq, c, d)
  BY JoinedTailData
<1>6. /\ x.mTimer_RST = d.mTimer_RST /\ y.mTimer_RST = d.mTimer_RST
      /\ ~d.mResetTriggered => ~x.mResetTriggered /\ ~y.mResetTriggered
      /\ x.mResetReceived /\ x.mResetAckRSN = rsn /\ ~x.mStatusTriggered
      /\ y.mResetReceived /\ y.mResetAckRSN = rsn
      /\ ~d.mStatusTriggered => ~y.mStatusTriggered
  BY <1>2, <1>3, AckedFields, Zenon
<1> HIDE DEF x, y
<1>7. CtlStill(c, x) /\ CtlStill(c, y) /\ LinkTypes(Tail(dq), sq)
  BY <1>5, <1>6, Zenon DEF Joined, CtlStill
<1>8. ~resetInProgress(d)
  BY DEF Joined, CtlStill, resetInProgress
<1>9. CASE Before(w, r, dq, sq, c, d)
  <2>1. ResetsBefore(c, dq) /\ AcksBefore(k, sq) /\ Aligned(w, r, dq, sq)
    BY <1>9, Zenon DEF Before
  <2>2. CASE rsn = k % 2
    <3>1. IsNewReset(d, rsn)
      BY <1>3, <1>9, <2>2, Zenon DEF Before, IsNewReset
    <3>2. ~Idle(c) /\ NothingAfter(dq, "RESET", k)
      BY <1>1, <2>1, <2>2, Zenon DEF ResetsBefore
    <3>3. NothingAfter(sq, "RESET_ACK", k)
      BY <2>1, Zenon DEF AcksBefore, NothingAfter, IsRsn
    <3>4. After(w, recvAmInit, Tail(dq), sq, c, x)
      BY <1>1, <1>6, <2>1, <2>2, <3>2, <3>3 DEF After, Aligned
    <3> QED BY <1>7, <1>9, <3>1, <3>4 DEF Joined, x
  <2>3. CASE rsn # k % 2
    <3>1. k # 0
      BY <1>1, <1>4, <2>1, <2>3, SMT DEF ResetsBefore
    <3>2. d.mResetReceived /\ rsn = d.mResetAckRSN
      BY <1>2, <1>3, <1>4, <1>9, <2>3, <3>1, Zenon DEF Before
    <3>3. ~IsNewReset(d, rsn)
      BY <1>8, <3>2 DEF IsNewReset
    <3>4. Aligned(w, r, Tail(dq), sq)
      BY <2>1, TailAligned
    <3>5. ResetsBefore(c, Tail(dq))
      BY <2>1, TailSays, Zenon DEF ResetsBefore
    <3>6. Before(w, r, Tail(dq), sq, c, y)
      BY <1>6, <2>1, <2>3, <3>1, <3>4, <3>5, Zenon DEF Before
    <3> QED BY <1>7, <3>3, <3>6 DEF Joined, y
  <2> QED BY <2>2, <2>3
<1>10. CASE After(w, r, dq, sq, c, d)
  <2>1. rsn = k % 2 /\ rsn = d.mResetAckRSN /\ d.mResetReceived
    BY <1>1, <1>10, Zenon DEF After, IsRsn
  <2>2. ~IsNewReset(d, rsn)
    BY <1>8, <2>1 DEF IsNewReset
  <2>3. \A i \in 1 .. Len(Tail(dq)) : IsRsn(Tail(dq)[i], "RESET", k)
    BY <1>10, TailSays, Zenon DEF After
  <2>4. After(w, r, Tail(dq), sq, c, y)
    BY <1>6, <1>10, <2>1, <2>3, Zenon DEF After
  <2> QED BY <1>7, <2>2, <2>4 DEF Joined, y
<1> QED BY <1>9, <1>10 DEF Joined

\* The acknowledgement that ends the procedure.
LEMMA JoinedResetAck ==
  ASSUME NEW w, NEW r, NEW dq \in Seq(Pdu), NEW sq \in Seq(Pdu), sq # <<>>,
         NEW c \in Control, NEW d \in Control, Joined(w, r, dq, sq, c, d),
         Head(sq).type = "RESET_ACK", Head(sq).rsn = c.mResetTransRSN
  PROVE  LET cc == [controlReset(c) EXCEPT !.mVTRST = 0, !.mTimer_RST = "off",
                      !.mResetTransRSN = c.mResetTransRSN + 1]
         IN  /\ After(w, r, dq, sq, c, d)
             /\ Before(windowInit, r, dq, Tail(sq), cc, d)
             /\ Joined(windowInit, r, dq, Tail(sq), cc, d)
<1> DEFINE k == c.mResetTransRSN
           cc == [controlReset(c) EXCEPT !.mVTRST = 0, !.mTimer_RST = "off",
                   !.mResetTransRSN = c.mResetTransRSN + 1]
<1>1. /\ 1 \in 1 .. Len(sq) /\ Head(sq) = sq[1]
      /\ NothingAfter(sq, "RESET_ACK", k) /\ IsRsn(Head(sq), "RESET_ACK", k) =>
           \A i \in 1 .. Len(Tail(sq)) : IsRsn(Tail(sq)[i], "RESET_ACK", k)
  BY HeadSays, Zenon
<1>2. k \in {0, 1}
  BY HeadSays, ResetRsn
<1>3. k % 2 = k /\ (k + 1) % 2 # k % 2 /\ k + 1 # 0
  BY <1>2, SMT
<1>4. cc.mResetTransRSN = k + 1 /\ ~cc.mStatusTriggered /\ ~cc.mSendResetAck
  BY Zenon DEF Control, controlReset
<1> HIDE DEF cc
<1>5. CtlStill(cc, d) /\ LinkTypes(dq, Tail(sq))
  BY <1>4, TailSays, Zenon DEF Joined, CtlStill, LinkTypes
<1>6. ~Before(w, r, dq, sq, c, d)
  BY <1>1, <1>3, Zenon DEF Before, AcksBefore
<1>7. After(w, r, dq, sq, c, d)
  BY <1>6 DEF Joined
<1>8. \A i \in 1 .. Len(Tail(sq)) : IsRsn(Tail(sq)[i], "RESET_ACK", k)
  BY <1>1, <1>3, <1>7, Zenon DEF After, IsRsn
<1>9. \A i \in 1 .. Len(dq) : IsRsn(dq[i], "RESET", k)
  BY <1>7, Zenon DEF After
<1>10. Aligned(windowInit, recvAmInit, dq, Tail(sq))
  <2>1. "RESET" # "DATA" /\ "RESET_ACK" # "STATUS"
    OBVIOUS
  <2> QED BY <1>8, <1>9, <2>1, InitAligned DEF IsRsn
<1>11. ResetsBefore(cc, dq)
  BY <1>3, <1>4, <1>9, Zenon DEF ResetsBefore, NothingAfter, IsRsn
<1>12. AcksBefore(k + 1, Tail(sq))
  BY <1>3, <1>8, Zenon DEF AcksBefore, IsRsn
<1>13. Before(windowInit, r, dq, Tail(sq), cc, d)
  BY <1>3, <1>4, <1>7, <1>10, <1>11, <1>12, Zenon DEF Before, After
<1> QED BY <1>5, <1>7, <1>13 DEF Joined, cc

\* The acknowledgement sent.
LEMMA JoinedSendAck ==
  ASSUME NEW w, NEW r, NEW dq \in Seq(Pdu), NEW sq \in Seq(Pdu),
         NEW c \in Control, NEW d \in Control, Joined(w, r, dq, sq, c, d), d.mSendResetAck
  PROVE  Joined(w, r, dq, Append(sq, ResetMsg("RESET_ACK", d.mResetAckRSN)), c,
                [d EXCEPT !.mSendResetAck = FALSE])
<1> DEFINE k == c.mResetTransRSN
           rsn == d.mResetAckRSN
           m == ResetMsg("RESET_ACK", rsn)
           x == [d EXCEPT !.mSendResetAck = FALSE]
<1>1. rsn \in {0, 1}
  BY Zenon DEF Control
<1>2. m \in Pdu /\ m.type = "RESET_ACK" /\ m.rsn = rsn % 2
  BY <1>1, ResetMsgType DEF ResetMsg
<1>3. m.rsn = rsn
  BY <1>1, <1>2, SMT
<1>4. /\ x.mTimer_RST = d.mTimer_RST /\ x.mResetTriggered = d.mResetTriggered
      /\ x.mResetReceived = d.mResetReceived /\ x.mResetAckRSN = rsn
      /\ x.mStatusTriggered = d.mStatusTriggered /\ ~x.mSendResetAck
  BY Zenon DEF Control
<1> HIDE DEF m, x
<1>9. \A i \in 1 .. Len(Append(sq, m)) :
        (\E j \in 1 .. Len(sq) : Append(sq, m)[i] = sq[j]) \/ Append(sq, m)[i] = m
  BY <1>2, AppendSays
<1>10. LinkTypes(dq, Append(sq, m))
  BY <1>2, <1>9, Zenon DEF Joined, LinkTypes
<1>5. CtlStill(c, x) /\ LinkTypes(dq, Append(sq, m))
  BY <1>4, <1>10, Zenon DEF Joined, CtlStill
<1>6. m.type # "STATUS"
  BY <1>2
<1>7. CASE Before(w, r, dq, sq, c, d)
  <2>1. Aligned(w, r, dq, Append(sq, m))
    BY <1>2, <1>6, <1>7, AppendAligned DEF Before
  <2>2. k # 0 /\ rsn # k % 2
    BY <1>7, Zenon DEF Before
  <2>3. AcksBefore(k, Append(sq, m))
    BY <1>3, <1>7, <1>9, <2>2, Zenon DEF Before, AcksBefore
  <2>4. Before(w, r, dq, Append(sq, m), c, x)
    BY <1>4, <1>7, <2>1, <2>3, Zenon DEF Before
  <2> QED BY <1>5, <2>4 DEF Joined, m, x
<1>8. CASE After(w, r, dq, sq, c, d)
  <2>1. StatusOk(w, Append(sq, m))
    BY <1>2, <1>6, <1>8, AppendOtherOk DEF After
  <2>2. IsRsn(m, "RESET_ACK", k)
    BY <1>2, <1>3, <1>8, Zenon DEF After, IsRsn
  <2>3. NothingAfter(Append(sq, m), "RESET_ACK", k)
    BY <1>2, <1>8, <2>2, AppendSays DEF After
  <2>4. After(w, r, dq, Append(sq, m), c, x)
    BY <1>4, <1>8, <2>1, <2>3, Zenon DEF After
  <2> QED BY <1>5, <2>4 DEF Joined, m, x
<1> QED BY <1>7, <1>8 DEF Joined

\* A data PDU arrives, or a status report is sent.
LEMMA JoinedReceiver ==
  ASSUME NEW w, NEW r, NEW v, NEW dq \in Seq(Pdu), NEW sq \in Seq(Pdu), NEW c, NEW d, NEW x,
         Before(w, r, dq, sq, c, d), Joined(w, r, dq, sq, c, d),
         x.mTimer_RST = d.mTimer_RST, x.mResetTriggered = d.mResetTriggered,
         x.mResetReceived = d.mResetReceived, x.mResetAckRSN = d.mResetAckRSN,
         x.mSendResetAck = d.mSendResetAck
  PROVE  /\ dq # <<>> /\ Aligned(w, v, Tail(dq), sq) => Joined(w, v, Tail(dq), sq, c, x)
         /\ \A m \in Pdu : m.type = "STATUS" /\ Aligned(w, v, dq, Append(sq, m)) =>
              Joined(w, v, dq, Append(sq, m), c, x)
<1>1. CtlStill(c, x) /\ LinkTypes(dq, sq)
  BY Zenon DEF Joined, CtlStill
<1>2. ASSUME dq # <<>>, Aligned(w, v, Tail(dq), sq) PROVE Joined(w, v, Tail(dq), sq, c, x)
  <2>2. \A i \in 1 .. Len(Tail(dq)) : \E j \in 1 .. Len(dq) : Tail(dq)[i] = dq[j]
    BY <1>2, TailSays
  <2>3. NothingAfter(Tail(dq), "RESET", c.mResetTransRSN)
    BY <1>2, TailSays DEF Before, ResetsBefore
  <2>1. LinkTypes(Tail(dq), sq) /\ ResetsBefore(c, Tail(dq))
    BY <1>1, <2>2, <2>3, Zenon DEF LinkTypes, Before, ResetsBefore
  <2> QED BY <1>1, <1>2, <2>1, Zenon DEF Joined, Before
<1>3. ASSUME NEW m \in Pdu, m.type = "STATUS", Aligned(w, v, dq, Append(sq, m))
      PROVE  Joined(w, v, dq, Append(sq, m), c, x)
  <2>1. m.type # "RESET_ACK"
    BY <1>3
  <2>3. \A i \in 1 .. Len(Append(sq, m)) :
          (\E j \in 1 .. Len(sq) : Append(sq, m)[i] = sq[j]) \/ Append(sq, m)[i] = m
    BY <1>3, AppendSays
  <2>2. LinkTypes(dq, Append(sq, m)) /\ AcksBefore(c.mResetTransRSN, Append(sq, m))
    BY <1>1, <1>3, <2>1, <2>3, Zenon DEF LinkTypes, Before, AcksBefore
  <2> QED BY <1>1, <1>3, <2>2, Zenon DEF Joined, Before
<1> QED BY <1>2, <1>3

-----------------------------------------------------------------------------
(* The state: a sends, its peer receives.                                  *)

\* The peer of a has nothing to send.
Quiet(a) ==
  /\ pdusFinished(source[Peer(a)])
  /\ win[Peer(a)] = windowInit
  /\ recv[a] = recvAmInit

Ends(a) ==
  Joined(win[a], recv[Peer(a)], link[Peer(a)], link[a], ctl[a], ctl[Peer(a)])

\* The inductive invariant.
OneWayInv(a) == Quiet(a) /\ Ends(a)

\* Only a writes SDUs, and only on a is triggerReset called.
OneWay(a) == Writer \subseteq {a} /\ Tester \subseteq {a}

-----------------------------------------------------------------------------
LEMMA EndTypes ==
  ASSUME Inv, NEW a \in Entity
  PROVE  /\ Peer(a) \in Entity /\ Peer(a) # a /\ Peer(Peer(a)) = a
         /\ \A x \in Entity : x = a \/ x = Peer(a)
         /\ \A x \in Entity : /\ win[x] \in Window /\ recv[x] \in Rx /\ link[x] \in Seq(Pdu)
                              /\ ctl[x] \in Control
BY TwoEntities, StateTypes

\* What the two ends may find at the head of their links.
LEMMA EndArrivals ==
  ASSUME Inv, NEW a \in Entity, Ends(a)
  PROVE  /\ ~Arrived(a, "DATA") /\ ~Arrived(a, "RESET")
         /\ ~Arrived(Peer(a), "STATUS") /\ ~Arrived(Peer(a), "RESET_ACK")
         /\ Arrived(Peer(a), "DATA") =>
              Before(win[a], recv[Peer(a)], link[Peer(a)], link[a], ctl[a], ctl[Peer(a)])
<1> DEFINE b == Peer(a)
<1>1. /\ b \in Entity /\ link[a] \in Seq(Pdu) /\ link[b] \in Seq(Pdu)
  BY EndTypes
<1>2. LinkTypes(link[b], link[a])
  BY DEF Ends, Joined
<1>3. /\ link[a] # <<>> => 1 \in 1 .. Len(link[a]) /\ Head(link[a]) = link[a][1]
      /\ link[b] # <<>> => 1 \in 1 .. Len(link[b]) /\ Head(link[b]) = link[b][1]
  BY <1>1, HeadSays
<1>4. /\ link[a] # <<>> => Head(link[a]).type \in {"STATUS", "RESET_ACK"}
      /\ link[b] # <<>> => Head(link[b]).type \in {"DATA", "RESET"}
  BY <1>2, <1>3, Zenon DEF LinkTypes
<1>5. ASSUME Arrived(b, "DATA"),
             After(win[a], recv[b], link[b], link[a], ctl[a], ctl[b])
      PROVE  FALSE
  <2>1. Head(link[b]).type = "RESET"
    BY <1>3, <1>5, Zenon DEF Arrived, After, IsRsn
  <2> QED BY <1>5, <2>1 DEF Arrived
<1> QED BY <1>4, <1>5 DEF Arrived, Ends, Joined

\* The two sides of the procedure exclude each other.
LEMMA BeforeAfter ==
  ASSUME NEW w, NEW r, NEW dq, NEW sq, NEW c, NEW d, Before(w, r, dq, sq, c, d),
         NEW v, NEW t, NEW dr, NEW sr, NEW cc, cc.mResetTransRSN = c.mResetTransRSN
  PROVE  ~After(v, t, dr, sr, cc, d)
BY Zenon DEF Before, After

LEMMA IdleBefore ==
  ASSUME NEW a, Ends(a), Idle(ctl[a])
  PROVE  /\ Before(win[a], recv[Peer(a)], link[Peer(a)], link[a], ctl[a], ctl[Peer(a)])
         /\ Two(a)
BY Zenon DEF Ends, Joined, After, Before, Two

\* The receiving end never has a reason for a RESET.
LEMMA PeerOk ==
  ASSUME Inv, NEW a \in Entity, Ends(a)
  PROVE  isReceiverOk(recv[Peer(a)]) /\ ~ResetDue(Peer(a))
<1> DEFINE b == Peer(a)
<1>1. /\ recv[b] \in Rx /\ win[a] \in Window
  BY EndTypes
<1>2. isReceiverOk(recv[b])
  <2>1. CASE Before(win[a], recv[b], link[b], link[a], ctl[a], ctl[b])
    BY <1>1, <2>1, ReceiverConsistentOk DEF Before, Aligned
  <2>2. CASE recv[b] = recvAmInit
    <3>1. SenderOk(windowInit) /\ ReceiverOk(windowInit, recvAmInit)
      <4>1. \A i \in 1 .. Len(<<>>) : FALSE
        BY EmptySeq, SMT
      <4> QED BY <4>1, InitAligned
    <3> QED BY <2>2, <3>1, <1>1, WindowInitType, ReceiverConsistentOk
  <2> QED BY <2>1, <2>2 DEF Ends, Joined, After
<1>3. ctl[b].mTimer_RST = "off" /\ ~ctl[b].mResetTriggered
  BY DEF Ends, Joined, CtlStill
<1> QED BY <1>2, <1>3 DEF ResetDue

LEMMA OneWayWriteHighSide ==
  ASSUME Inv, NEW a \in Entity, OneWay(a), OneWayInv(a), NEW e \in Entity,
         NEW sdu, RlcWriteHighSide(e, sdu)
  PROVE  OneWayInv(a)'
<1>1. e = a
  BY DEF RlcWriteHighSide, OneWay
<1>2. source'[Peer(a)] = source[Peer(a)]
  BY <1>1, EndTypes, Zenon DEF RlcWriteHighSide, Inv, TypeOK
<1> QED BY <1>2, Zenon DEF OneWayInv, Quiet, Ends, RlcWriteHighSide

LEMMA OneWayCtl ==
  ASSUME Inv, NEW a \in Entity, OneWay(a), OneWayInv(a), NEW e \in Entity,
         TriggerReset(e) \/ RstTimerExpires(e)
  PROVE  OneWayInv(a)'
<1> DEFINE b == Peer(a)
<1>1. b \in Entity /\ b # a /\ (e = a \/ e = b) /\ ctl[a] \in Control /\ win[a] \in Window
  BY EndTypes
<1>2. ctl[b].mTimer_RST = "off"
  BY DEF OneWayInv, Ends, Joined, CtlStill
<1>3. "off" # "running"
  OBVIOUS
<1>4. e = a
  BY <1>1, <1>2, <1>3, Zenon DEF TriggerReset, RstTimerExpires, OneWay
<1>5. ctl'[b] = ctl[b]
  BY <1>1, <1>4, Zenon DEF TriggerReset, RstTimerExpires, Inv, TypeOK
<1>6. \/ ctl'[a] = [ctl[a] EXCEPT !.mResetTriggered = TRUE]
      \/ ctl[a].mTimer_RST = "running" /\ ctl'[a] = [ctl[a] EXCEPT !.mTimer_RST = "expired"]
  BY <1>4, Zenon DEF TriggerReset, RstTimerExpires, Inv, TypeOK
<1>7. /\ ctl'[a].mResetTransRSN = ctl[a].mResetTransRSN
      /\ ctl'[a].mStatusTriggered = ctl[a].mStatusTriggered
      /\ ctl'[a].mSendResetAck = ctl[a].mSendResetAck
      /\ Idle(ctl'[a]) <=> Idle(ctl[a])
  <2>1. CASE ctl'[a] = [ctl[a] EXCEPT !.mResetTriggered = TRUE]
    BY <1>1, <2>1, Zenon DEF Control, Idle
  <2>2. CASE ctl[a].mTimer_RST = "running" /\ ctl'[a] = [ctl[a] EXCEPT !.mTimer_RST = "expired"]
    <3>1. ctl'[a].mTimer_RST = "expired" /\ "expired" # "off"
      BY <1>1, <2>2, Zenon DEF Control
    <3> QED BY <1>1, <1>3, <2>2, <3>1, Zenon DEF Control, Idle
  <2> QED BY <1>6, <2>1, <2>2
<1>8. SameWindow(win[a], win[a])
  BY Zenon DEF SameWindow
<1>9. Joined(win[a], recv[b], link[b], link[a], ctl'[a], ctl[b])
  BY <1>1, <1>7, <1>8, JoinedSender, Zenon DEF OneWayInv, Ends
<1>10. UNCHANGED <<source, win, recv, link>>
  BY Zenon DEF TriggerReset, RstTimerExpires
<1> HIDE DEF b
<1> QED BY <1>5, <1>9, <1>10, Zenon DEF OneWayInv, Quiet, Ends, b

LEMMA OneWayLosePdu ==
  ASSUME Inv, NEW a \in Entity, OneWayInv(a), NEW e \in Entity, link[e] # <<>>, Take(e),
         UNCHANGED <<source, win, recv, ctl>>
  PROVE  OneWayInv(a)'
<1> DEFINE b == Peer(a)
<1>1. /\ b \in Entity /\ b # a /\ (e = a \/ e = b)
      /\ link[a] \in Seq(Pdu) /\ link[b] \in Seq(Pdu)
  BY EndTypes
<1>2. /\ link'[e] = Tail(link[e])
      /\ \A x \in Entity : x # e => link'[x] = link[x]
  BY LinkTaken
<1>3. Joined(win[a], recv[b], link[b], link[a], ctl[a], ctl[b])
  BY DEF OneWayInv, Ends
<1>4. CASE e = a
  <2>1. Joined(win[a], recv[b], link[b], Tail(link[a]), ctl[a], ctl[b])
    BY <1>1, <1>3, <1>4, JoinedTailStatus
  <2>2. link'[a] = Tail(link[a]) /\ link'[b] = link[b]
    BY <1>1, <1>2, <1>4
  <2> HIDE DEF b
  <2> QED BY <2>1, <2>2, Zenon DEF OneWayInv, Quiet, Ends, b
<1>5. CASE e = b
  <2>1. Joined(win[a], recv[b], Tail(link[b]), link[a], ctl[a], ctl[b])
    BY <1>1, <1>3, <1>5, JoinedTailData
  <2>2. link'[b] = Tail(link[b]) /\ link'[a] = link[a]
    BY <1>1, <1>2, <1>5
  <2> HIDE DEF b
  <2> QED BY <2>1, <2>2, Zenon DEF OneWayInv, Quiet, Ends, b
<1> QED BY <1>1, <1>4, <1>5

LEMMA OneWayReadResetAck ==
  ASSUME Inv, NEW a \in Entity, OneWayInv(a), NEW e \in Entity, ReadResetAck(e)
  PROVE  OneWayInv(a)'
<1> DEFINE b == Peer(a)
<1>1. /\ b \in Entity /\ b # a /\ (e = a \/ e = b) /\ Peer(b) = a
      /\ link[a] \in Seq(Pdu) /\ link[b] \in Seq(Pdu)
      /\ ctl[a] \in Control /\ ctl[b] \in Control
  BY EndTypes
<1>2. e = b
  BY <1>1 DEF ReadResetAck, OneWayInv, Ends, Joined, CtlStill
<1>3. /\ ctl'[b] = [ctl[b] EXCEPT !.mSendResetAck = FALSE] /\ ctl'[a] = ctl[a]
      /\ link'[a] = Append(link[a], ResetMsg("RESET_ACK", ctl[b].mResetAckRSN))
      /\ link'[b] = link[b] /\ ctl[b].mSendResetAck
  <2>1. ctl'[b] = [ctl[b] EXCEPT !.mSendResetAck = FALSE] /\ ctl'[a] = ctl[a]
    BY <1>1, <1>2, Zenon DEF ReadResetAck, Inv, TypeOK
  <2>2. Send(b, ResetMsg("RESET_ACK", ctl[b].mResetAckRSN)) /\ ctl[b].mSendResetAck
    BY <1>2 DEF ReadResetAck
  <2> QED BY <1>1, <2>1, <2>2, LinkSent
<1>4. Joined(win[a], recv[b], link[b],
             Append(link[a], ResetMsg("RESET_ACK", ctl[b].mResetAckRSN)), ctl[a],
             [ctl[b] EXCEPT !.mSendResetAck = FALSE])
  BY <1>1, <1>3, JoinedSendAck DEF OneWayInv, Ends
<1>5. UNCHANGED <<source, win, recv>>
  BY DEF ReadResetAck
<1> HIDE DEF b
<1> QED BY <1>3, <1>4, <1>5, Zenon DEF OneWayInv, Quiet, Ends, b

LEMMA OneWayReadReset ==
  ASSUME Inv, NEW a \in Entity, OneWayInv(a), NEW e \in Entity, ReadReset(e)
  PROVE  OneWayInv(a)'
<1> DEFINE b == Peer(a)
           cc == ResetStarted(ctl[a])
           m == ResetMsg("RESET", cc.mResetTransRSN)
<1>1. /\ b \in Entity /\ b # a /\ (e = a \/ e = b) /\ Peer(b) = a
      /\ link[a] \in Seq(Pdu) /\ link[b] \in Seq(Pdu)
      /\ ctl[a] \in Control /\ ctl[b] \in Control
  BY EndTypes
<1>2. e = a
  BY <1>1, PeerOk DEF ReadReset, OneWayInv
<1>3. /\ ctl'[a] = cc /\ ctl'[b] = ctl[b]
      /\ \/ cc.state = "STOP" /\ link' = link
         \/ cc.state # "STOP" /\ Send(a, m)
  BY <1>1, <1>2, Zenon DEF ReadReset, EmitReset, Inv, TypeOK
<1>4. /\ cc.state = "STOP" => Joined(win[a], recv[b], link[b], link[a], cc, ctl[b])
      /\ cc.state # "STOP" => Joined(win[a], recv[b], Append(link[b], m), link[a], cc, ctl[b])
  BY <1>1, JoinedEmitReset DEF OneWayInv, Ends
<1>5. UNCHANGED <<source, win, recv>>
  BY DEF ReadReset
<1> HIDE DEF cc, m
<1>6. Send(a, m) => link'[b] = Append(link[b], m) /\ link'[a] = link[a]
  BY <1>1, LinkSent
<1>7. Joined(win[a], recv[b], link'[b], link'[a], ctl'[a], ctl'[b])
  BY <1>3, <1>4, <1>6
<1> HIDE DEF b
<1> QED BY <1>5, <1>7, Zenon DEF OneWayInv, Quiet, Ends, b

LEMMA OneWayReadStatus ==
  ASSUME Inv, NEW a \in Entity, OneWayInv(a), NEW e \in Entity, ReadStatus(e)
  PROVE  OneWayInv(a)'
<1> DEFINE b == Peer(a)
           x == ctl'[b]
<1>1. /\ b \in Entity /\ b # a /\ (e = a \/ e = b) /\ Peer(b) = a
      /\ link[a] \in Seq(Pdu) /\ link[b] \in Seq(Pdu) /\ ctl[b] \in Control
  BY EndTypes
<1>2. e = b
  BY <1>1 DEF ReadStatus, OneWayInv, Ends, Joined, CtlStill
<1>3. Before(win[a], recv[b], link[b], link[a], ctl[a], ctl[b])
  BY <1>2 DEF ReadStatus, OneWayInv, Ends, Joined, After
<1>4. Two(a)'
  BY <1>3, ReadStatusTwo DEF Before, Two
<1>5. PICK m \in Pdu : m.type = "STATUS" /\ Send(b, m)
  BY <1>2, StatusSteps
<1>6. link'[a] = Append(link[a], m) /\ link'[b] = link[b]
  BY <1>1, <1>5, LinkSent
<1>7. /\ ctl'[a] = ctl[a] /\ recv'[a] = recv[a] /\ UNCHANGED <<source, win>>
      /\ x.mTimer_RST = ctl[b].mTimer_RST /\ x.mResetTriggered = ctl[b].mResetTriggered
      /\ x.mResetReceived = ctl[b].mResetReceived /\ x.mResetAckRSN = ctl[b].mResetAckRSN
      /\ x.mSendResetAck = ctl[b].mSendResetAck
  <2>1. ctl' = [ctl EXCEPT ![b].mStatusTriggered = ~lastStatusReport(recv[b])]
    BY <1>2, Zenon DEF ReadStatus
  <2>2. x = [ctl[b] EXCEPT !.mStatusTriggered = ~lastStatusReport(recv[b])] /\ ctl'[a] = ctl[a]
    BY <1>1, <2>1, Zenon DEF Inv, TypeOK
  <2>3. recv'[a] = recv[a] /\ UNCHANGED <<source, win>>
    BY <1>1, <1>2, Zenon DEF ReadStatus, Inv, TypeOK
  <2> HIDE DEF x
  <2> QED BY <1>1, <2>2, <2>3, Zenon DEF Control
<1>8. Aligned(win[a], recv'[b], link[b], Append(link[a], m))
  BY <1>4, <1>6, <1>7 DEF Two
<1>9. Joined(win[a], recv[b], link[b], link[a], ctl[a], ctl[b])
  BY DEF OneWayInv, Ends
<1> HIDE DEF x
<1>10. Joined(win[a], recv'[b], link[b], Append(link[a], m), ctl[a], x)
  BY <1>1, <1>3, <1>5, <1>7, <1>8, <1>9, JoinedReceiver
<1> HIDE DEF b
<1> QED BY <1>6, <1>7, <1>10, Zenon DEF OneWayInv, Quiet, Ends, b, x

\* The receiving end has no data to send.
LEMMA PeerSendsNothing ==
  ASSUME Inv, NEW a \in Entity, OneWayInv(a), NEW e \in Entity, e = Peer(a),
         ReadRetransmission(e) \/ ReadNewData(e) \/ ReadPollOnly(e)
  PROVE  UNCHANGED <<source, win, ctl, recv, link>>
<1>1. win[e] = windowInit /\ pdusFinished(source[e])
  BY DEF OneWayInv, Quiet
<1>2. ~win[e].mNackedBlocksWaiting /\ win[e].mVTS = win[e].mVTA
  BY <1>1 DEF windowInit
<1>3. NoNewData(e)
  BY <1>1 DEF NoNewData
<1>4. ReadPollOnly(e)
  BY <1>2, <1>3, Zenon DEF ReadRetransmission, ReadNewData
<1>5. \A asked : ~PollRepeats(e, asked)
  BY <1>2 DEF PollRepeats
<1> QED BY <1>4, <1>5, Zenon DEF ReadPollOnly

LEMMA OneWayReadData ==
  ASSUME Inv, NEW a \in Entity, OneWayInv(a), NEW e \in Entity,
         ReadRetransmission(e) \/ ReadNewData(e) \/ ReadPollOnly(e)
  PROVE  OneWayInv(a)'
<1> DEFINE b == Peer(a)
           v == win'[a]
           cc == ctl'[a]
           Dq == link'[b]
           d == ctl[b]
           r == recv[b]
           sq == link[a]
<1>1. /\ b \in Entity /\ b # a /\ (e = a \/ e = b) /\ Peer(b) = a
      /\ link[a] \in Seq(Pdu) /\ link[b] \in Seq(Pdu)
      /\ ctl[a] \in Control /\ ctl[b] \in Control
  BY EndTypes
<1>2. CASE e = b
  BY <1>2, PeerSendsNothing, Zenon DEF OneWayInv, Quiet, Ends
<1>3. CASE e = a
  <2>1. /\ MayReadOn(a) /\ recv' = recv
        /\ \/ EmitReset(a)
           \/ UNCHANGED <<ctl, link>>
           \/ UNCHANGED ctl /\ \E m \in Pdu : m.type = "DATA" /\ Send(a, m)
    BY <1>3, DataSteps
  <2>2. Idle(ctl[a])
    BY <2>1 DEF MayReadOn, MayRead, resetInProgress, Idle
  <2>3. Before(win[a], r, link[b], sq, ctl[a], d) /\ Two(a)
    BY <2>2, IdleBefore DEF OneWayInv
  <2>4. Two(a)'
    BY <2>3, ReadTwo DEF RlcReadLowSide
  <2>5. source'[b] = source[b] /\ win'[b] = win[b] /\ recv'[a] = recv[a]
    <3>1. win' = win \/ \E w : win' = [win EXCEPT ![a] = w]
      BY <1>3, Zenon DEF ReadRetransmission, ReadNewData, ReadPollOnly, Transmit
    <3>2. source' = source \/ source' = [source EXCEPT ![a] = fillPduData(@)]
      BY <1>3, Zenon DEF ReadRetransmission, ReadNewData, ReadPollOnly
    <3> QED BY <1>1, <2>1, <3>1, <3>2, Zenon DEF Inv, TypeOK
  <2>6. Aligned(v, r, Dq, link'[a])
    BY <2>1, <2>4 DEF Two
  <2>7. Joined(win[a], r, link[b], sq, ctl[a], d)
    BY DEF OneWayInv, Ends
  <2>8. CASE EmitReset(a)
    <3> DEFINE m == ResetMsg("RESET", cc.mResetTransRSN)
    <3>1. /\ cc = ResetStarted(ctl[a]) /\ ctl'[b] = ctl[b]
          /\ \/ cc.state = "STOP" /\ link' = link
             \/ cc.state # "STOP" /\ Send(a, m)
      BY <1>1, <2>8, Zenon DEF EmitReset, Inv, TypeOK
    <3>2. cc.mResetTransRSN = ctl[a].mResetTransRSN
      BY <1>1, <3>1, Zenon DEF ResetStarted, Control
    <3>3. /\ cc.state = "STOP" => Joined(win[a], r, link[b], sq, cc, d)
          /\ cc.state # "STOP" => Joined(win[a], r, Append(link[b], m), sq, cc, d)
      BY <1>1, <2>7, <3>1, JoinedEmitReset
    <3> HIDE DEF m, cc
    <3>4. Send(a, m) => link'[b] = Append(link[b], m) /\ link'[a] = link[a]
      BY <1>1, LinkSent
    <3>5. Joined(win[a], r, Dq, sq, cc, d) /\ link'[a] = sq
      BY <3>1, <3>3, <3>4
    <3>6. Before(win[a], r, Dq, sq, cc, d)
      BY <2>3, <3>2, <3>5, BeforeAfter DEF Joined
    <3> HIDE DEF v, Dq, d, r, sq
    <3>7. Joined(v, r, Dq, sq, cc, d)
      BY <2>6, <3>5, <3>6, Zenon DEF Joined, Before
    <3> HIDE DEF b
    <3> QED BY <2>1, <2>5, <3>1, <3>5, <3>7, Zenon
            DEF OneWayInv, Quiet, Ends, b, v, Dq, d, r, sq, cc
  <2>9. CASE UNCHANGED <<ctl, link>>
    <3>1. Before(v, r, link[b], sq, ctl[a], d)
      BY <2>3, <2>6, <2>9, Zenon DEF Before
    <3>2. Joined(v, r, link[b], sq, ctl[a], d)
      BY <2>7, <3>1, Zenon DEF Joined
    <3> HIDE DEF b
    <3> QED BY <2>1, <2>5, <2>9, <3>2, Zenon DEF OneWayInv, Quiet, Ends, b
  <2>10. ASSUME UNCHANGED ctl, NEW m \in Pdu, m.type = "DATA", Send(a, m)
         PROVE  OneWayInv(a)'
    <3>1. Dq = Append(link[b], m) /\ link'[a] = sq
      BY <1>1, <2>10, LinkSent
    <3>2. Joined(v, r, Append(link[b], m), sq, ctl[a], d)
      BY <1>1, <2>2, <2>6, <2>7, <2>10, <3>1, JoinedSendData
    <3> HIDE DEF b
    <3> QED BY <2>1, <2>5, <2>10, <3>1, <3>2, Zenon DEF OneWayInv, Quiet, Ends, b
  <2> QED BY <2>1, <2>8, <2>9, <2>10
<1> QED BY <1>1, <1>2, <1>3

LEMMA OneWayReceiveData ==
  ASSUME Inv, NEW a \in Entity, OneWayInv(a), NEW e \in Entity, ReceiveData(e)
  PROVE  OneWayInv(a)'
<1> DEFINE b == Peer(a)
           x == ctl'[b]
<1>1. /\ b \in Entity /\ b # a /\ (e = a \/ e = b) /\ Peer(b) = a
      /\ link[a] \in Seq(Pdu) /\ link[b] \in Seq(Pdu) /\ ctl[b] \in Control
  BY EndTypes
<1>2. e = b /\ link[b] # <<>> /\ Take(b)
  BY <1>1, EndArrivals DEF ReceiveData, OneWayInv, Arrived
<1>3. Before(win[a], recv[b], link[b], link[a], ctl[a], ctl[b])
  BY <1>2, EndArrivals DEF ReceiveData, OneWayInv
<1>4. Two(a)'
  BY <1>3, ReceiveDataTwo DEF Before, Two
<1>5. link'[b] = Tail(link[b]) /\ link'[a] = link[a]
  BY <1>1, <1>2, LinkTaken
<1>6. /\ ctl'[a] = ctl[a] /\ recv'[a] = recv[a] /\ UNCHANGED <<source, win>>
      /\ x.mTimer_RST = ctl[b].mTimer_RST /\ x.mResetTriggered = ctl[b].mResetTriggered
      /\ x.mResetReceived = ctl[b].mResetReceived /\ x.mResetAckRSN = ctl[b].mResetAckRSN
      /\ x.mSendResetAck = ctl[b].mSendResetAck
  <2>1. PICK g : ctl' = [ctl EXCEPT ![b].mStatusTriggered = g]
    BY <1>2, Zenon DEF ReceiveData
  <2>2. x = [ctl[b] EXCEPT !.mStatusTriggered = g] /\ ctl'[a] = ctl[a]
    BY <1>1, <2>1, Zenon DEF Inv, TypeOK
  <2>3. recv'[a] = recv[a] /\ UNCHANGED <<source, win>>
    BY <1>1, <1>2, Zenon DEF ReceiveData, Inv, TypeOK
  <2> HIDE DEF x
  <2> QED BY <1>1, <2>2, <2>3, Zenon DEF Control
<1>7. Aligned(win[a], recv'[b], Tail(link[b]), link[a])
  BY <1>4, <1>5, <1>6 DEF Two
<1>8. Joined(win[a], recv[b], link[b], link[a], ctl[a], ctl[b])
  BY DEF OneWayInv, Ends
<1> HIDE DEF x
<1>9. Joined(win[a], recv'[b], Tail(link[b]), link[a], ctl[a], x)
  BY <1>1, <1>2, <1>3, <1>6, <1>7, <1>8, JoinedReceiver
<1> HIDE DEF b
<1> QED BY <1>5, <1>6, <1>9, Zenon DEF OneWayInv, Quiet, Ends, b, x

LEMMA OneWayReceiveStatus ==
  ASSUME Inv, NEW a \in Entity, OneWayInv(a), NEW e \in Entity, ReceiveStatus(e)
  PROVE  OneWayInv(a)'
<1> DEFINE b == Peer(a)
<1>1. /\ b \in Entity /\ b # a /\ (e = a \/ e = b) /\ Peer(b) = a
      /\ link[a] \in Seq(Pdu) /\ link[b] \in Seq(Pdu)
      /\ win[a] \in Window /\ recv[b] \in Rx
  BY EndTypes
<1>2. e = a /\ link[a] # <<>> /\ Take(a) /\ Head(link[a]).type = "STATUS"
  BY <1>1, EndArrivals DEF ReceiveStatus, OneWayInv, Arrived
<1>3. link'[a] = Tail(link[a]) /\ link'[b] = link[b]
  BY <1>1, <1>2, LinkTaken
<1>4. /\ win'[a] = processSUFIs2(win[a], Head(link[a])) /\ win'[b] = win[b]
      /\ UNCHANGED <<source, ctl, recv>>
  BY <1>1, <1>2, Zenon DEF ReceiveStatus, Inv, TypeOK
<1>5. Joined(processSUFIs2(win[a], Head(link[a])), recv[b], link[b], Tail(link[a]),
             ctl[a], ctl[b])
  BY <1>1, <1>2, JoinedStatusReceived DEF OneWayInv, Ends
<1> HIDE DEF b
<1> QED BY <1>3, <1>4, <1>5, Zenon DEF OneWayInv, Quiet, Ends, b

LEMMA FullResetFields ==
  ASSUME Inv, NEW e \in Entity, NEW c, FullReset(e, c)
  PROVE  /\ source'[e] = sourceReset(source[e]) /\ win'[e] = windowInit
         /\ ctl'[e] = c /\ recv'[e] = recvAmInit
         /\ pdusFinished(source[e]) => pdusFinished(source'[e])
         /\ \A x \in Entity : x # e =>
              /\ source'[x] = source[x] /\ win'[x] = win[x]
              /\ ctl'[x] = ctl[x] /\ recv'[x] = recv[x]
<1>1. source'[e] = sourceReset(source[e])
  BY Zenon DEF FullReset, ResetTo, Inv, TypeOK
<1>2. pdusFinished(source[e]) => pdusFinished(sourceReset(source[e]))
  BY DEF pdusFinished, sourceReset, sourceInit
<1> QED BY <1>1, <1>2, Zenon DEF FullReset, ResetTo, Inv, TypeOK

LEMMA OneWayReceiveReset ==
  ASSUME Inv, NEW a \in Entity, OneWayInv(a), NEW e \in Entity, ReceiveReset(e)
  PROVE  OneWayInv(a)'
<1> DEFINE b == Peer(a)
           d == ctl[b]
           rsn == Head(link[b]).rsn
<1>1. /\ b \in Entity /\ b # a /\ (e = a \/ e = b) /\ Peer(b) = a
      /\ link[a] \in Seq(Pdu) /\ link[b] \in Seq(Pdu)
      /\ ctl[a] \in Control /\ ctl[b] \in Control
  BY EndTypes
<1>2. e = b /\ link[b] # <<>> /\ Take(b) /\ Head(link[b]).type = "RESET"
  BY <1>1, EndArrivals DEF ReceiveReset, OneWayInv, Arrived
<1>3. link'[b] = Tail(link[b]) /\ link'[a] = link[a]
  BY <1>1, <1>2, LinkTaken
<1>4. /\ IsNewReset(d, rsn) =>
           Joined(win[a], recvAmInit, Tail(link[b]), link[a], ctl[a], Acked(controlReset(d), rsn))
      /\ ~IsNewReset(d, rsn) =>
           Joined(win[a], recv[b], Tail(link[b]), link[a], ctl[a], Acked(d, rsn))
  BY <1>1, <1>2, JoinedReset DEF OneWayInv, Ends
<1>5. \/ IsNewReset(d, rsn) /\ FullReset(b, Acked(controlReset(d), rsn))
      \/ /\ ~IsNewReset(d, rsn)
         /\ ctl' = [ctl EXCEPT ![b] = Acked(d, rsn)]
         /\ UNCHANGED <<source, win, recv>>
  BY <1>2, Zenon DEF ReceiveReset, IsNewReset, Acked
<1> HIDE DEF rsn
<1>6. CASE IsNewReset(d, rsn) /\ FullReset(b, Acked(controlReset(d), rsn))
  <2>1. /\ win'[b] = windowInit /\ recv'[b] = recvAmInit
        /\ ctl'[b] = Acked(controlReset(d), rsn)
        /\ pdusFinished(source[b]) => pdusFinished(source'[b])
        /\ win'[a] = win[a] /\ ctl'[a] = ctl[a] /\ recv'[a] = recv[a]
    BY <1>1, <1>6, FullResetFields
  <2> HIDE DEF b, d
  <2> QED BY <1>3, <1>4, <1>6, <2>1, Zenon DEF OneWayInv, Quiet, Ends, b, d
<1>7. CASE /\ ~IsNewReset(d, rsn)
           /\ ctl' = [ctl EXCEPT ![b] = Acked(d, rsn)]
           /\ UNCHANGED <<source, win, recv>>
  <2>1. ctl'[b] = Acked(d, rsn) /\ ctl'[a] = ctl[a]
    BY <1>1, <1>7, Zenon DEF Inv, TypeOK
  <2> HIDE DEF b, d
  <2> QED BY <1>3, <1>4, <1>7, <2>1, Zenon DEF OneWayInv, Quiet, Ends, b, d
<1> QED BY <1>5, <1>6, <1>7

LEMMA OneWayReceiveResetAck ==
  ASSUME Inv, NEW a \in Entity, OneWayInv(a), NEW e \in Entity, ReceiveResetAck(e)
  PROVE  OneWayInv(a)'
<1> DEFINE b == Peer(a)
           c == ctl[a]
           cc == [controlReset(c) EXCEPT !.mVTRST = 0, !.mTimer_RST = "off",
                    !.mResetTransRSN = c.mResetTransRSN + 1]
<1>1. /\ b \in Entity /\ b # a /\ (e = a \/ e = b) /\ Peer(b) = a
      /\ link[a] \in Seq(Pdu) /\ link[b] \in Seq(Pdu)
      /\ ctl[a] \in Control /\ ctl[b] \in Control
  BY EndTypes
<1>2. e = a /\ link[a] # <<>> /\ Take(a) /\ Head(link[a]).type = "RESET_ACK"
  BY <1>1, EndArrivals DEF ReceiveResetAck, OneWayInv, Arrived
<1>3. link'[a] = Tail(link[a]) /\ link'[b] = link[b]
  BY <1>1, <1>2, LinkTaken
<1>4. \/ Head(link[a]).rsn = c.mResetTransRSN /\ FullReset(a, cc)
      \/ UNCHANGED <<source, win, ctl, recv>>
  BY <1>2, Zenon DEF ReceiveResetAck, tran
<1>5. CASE Head(link[a]).rsn = c.mResetTransRSN /\ FullReset(a, cc)
  <2>1. Joined(windowInit, recv[b], link[b], Tail(link[a]), cc, ctl[b])
    BY <1>1, <1>2, <1>5, JoinedResetAck DEF OneWayInv, Ends
  <2> HIDE DEF cc
  <2>2. /\ win'[a] = windowInit /\ recv'[a] = recvAmInit /\ ctl'[a] = cc
        /\ source'[b] = source[b] /\ win'[b] = win[b]
        /\ ctl'[b] = ctl[b] /\ recv'[b] = recv[b]
    BY <1>1, <1>5, FullResetFields
  <2> HIDE DEF b
  <2> QED BY <1>3, <2>1, <2>2, Zenon DEF OneWayInv, Quiet, Ends, b
<1>6. CASE UNCHANGED <<source, win, ctl, recv>>
  BY <1>2, <1>6, OneWayLosePdu
<1> QED BY <1>4, <1>5, <1>6

LEMMA OneWayInit == ASSUME Init, NEW a \in Entity PROVE OneWayInv(a)
<1> DEFINE b == Peer(a)
<1>1. /\ b \in Entity
      /\ win[a] = windowInit /\ recv[b] = recvAmInit /\ link[b] = <<>> /\ link[a] = <<>>
      /\ ctl[a] = controlInit /\ ctl[b] = controlInit
      /\ source[b] = sourceInit /\ win[b] = windowInit /\ recv[a] = recvAmInit
  BY PeerType, Zenon DEF Init
<1>2. pdusFinished(source[b])
  BY <1>1 DEF pdusFinished, sourceInit
<1>3. \A i \in 1 .. Len(<<>>) : FALSE
  BY EmptySeq, SMT
<1>4. LinkTypes(<<>>, <<>>) /\ ResetsBefore(controlInit, <<>>) /\ AcksBefore(0, <<>>)
  BY <1>3, Zenon DEF LinkTypes, ResetsBefore, NothingAfter, AcksBefore
<1>5. Aligned(windowInit, recvAmInit, <<>>, <<>>)
  BY <1>3, InitAligned
<1>6. /\ CtlStill(controlInit, controlInit) /\ controlInit.mResetTransRSN = 0
      /\ ~controlInit.mResetReceived /\ ~controlInit.mSendResetAck
  BY DEF controlInit, CtlStill
<1>7. Joined(windowInit, recvAmInit, <<>>, <<>>, controlInit, controlInit)
  BY <1>4, <1>5, <1>6, Zenon DEF Joined, Before
<1> HIDE DEF b
<1> QED BY <1>1, <1>2, <1>7, Zenon DEF OneWayInv, Quiet, Ends, b

LEMMA OneWayNext ==
  ASSUME Inv, NEW a \in Entity, OneWay(a), OneWayInv(a), [Next]_vars
  PROVE  OneWayInv(a)'
<1>1. ASSUME NEW e \in Entity, RlcReadLowSide(e) PROVE OneWayInv(a)'
  BY <1>1, OneWayReadResetAck, OneWayReadReset, OneWayReadStatus, OneWayReadData
     DEF RlcReadLowSide
<1>2. ASSUME NEW e \in Entity, RlcWriteLowSide(e) PROVE OneWayInv(a)'
  BY <1>2, OneWayReceiveData, OneWayReceiveStatus, OneWayReceiveReset,
     OneWayReceiveResetAck DEF RlcWriteLowSide
<1>3. ASSUME NEW e \in Entity, LosePdu(e) PROVE OneWayInv(a)'
  BY <1>3, OneWayLosePdu DEF LosePdu, tran
<1>4. ASSUME NEW e \in Entity, NEW timer \in PollTimers, PollTimerExpires(e, timer)
      PROVE  OneWayInv(a)'
  BY <1>4, Zenon DEF PollTimerExpires, OneWayInv, Quiet, Ends
<1>5. ASSUME UNCHANGED vars PROVE OneWayInv(a)'
  BY <1>5, Zenon DEF vars, tran, OneWayInv, Quiet, Ends
<1> QED BY <1>1, <1>2, <1>3, <1>4, <1>5, OneWayWriteHighSide, OneWayCtl DEF Next

LEMMA OneWayProperties ==
  ASSUME Inv, NEW a \in Entity, OneWayInv(a)
  PROVE  TransmitWindow /\ ReceiverConsistent /\ WindowsNested
<1> DEFINE b == Peer(a)
<1>1. /\ b \in Entity /\ Peer(b) = a /\ \A x \in Entity : x = a \/ x = b
      /\ win[a] \in Window /\ recv[b] \in Rx
  BY EndTypes
<1>2. /\ win[b] = windowInit /\ recv[a] = recvAmInit
      /\ SenderOk(windowInit) /\ ReceiverOk(windowInit, recvAmInit)
      /\ windowInit \in Window /\ recvAmInit \in Rx
  <2>1. \A i \in 1 .. Len(<<>>) : FALSE
    BY EmptySeq, SMT
  <2> QED BY <2>1, InitAligned, WindowInitType, RecvAmInitType DEF OneWayInv, Quiet
<1>3. SenderOk(win[a])
  BY DEF OneWayInv, Ends, Joined, Before, After, Aligned
<1>4. WindowOk(win[a]) /\ WindowOk(win[b]) /\ ReportOk(recv[a]) /\ Nested(win[b], recv[a])
  BY <1>1, <1>2, <1>3, SenderWindowOk, ReceiverReportOk, AlignedNested
<1>5. CASE Before(win[a], recv[b], link[b], link[a], ctl[a], ctl[b])
  <2>1. ReceiverOk(win[a], recv[b])
    BY <1>5 DEF Before, Aligned
  <2>2. ReportOk(recv[b]) /\ Nested(win[a], recv[b])
    BY <1>1, <1>3, <2>1, ReceiverReportOk, AlignedNested
  <2> QED BY <1>1, <1>4, <2>2, WindowProperties
<1>6. CASE After(win[a], recv[b], link[b], link[a], ctl[a], ctl[b])
  <2>1. ReportOk(recv[b])
    BY <1>2, <1>6, ReceiverReportOk DEF After
  <2>2. ctl[a].mTimer_RST # "off" \/ ctl[a].state # "RUN"
    BY <1>6 DEF After, Idle
  <2>3. ctl[a].state \in {"RUN", "STOP"}
    BY StateTypes, Zenon DEF Control
  <2>4. ResetPending(a)
    BY <2>2, <2>3 DEF ResetPending, resetInProgress
  <2> QED BY <1>1, <1>4, <2>1, <2>4, WindowProperties DEF Synchronised
<1> QED BY <1>5, <1>6 DEF OneWayInv, Ends, Joined

LEMMA SpecOneWay ==
  ASSUME NEW a \in Entity, OneWay(a)
  PROVE  Spec => [](TransmitWindow /\ ReceiverConsistent /\ WindowsNested)
<1>1. Init => OneWayInv(a)
  BY OneWayInit
<1>2. Inv /\ OneWayInv(a) /\ [Next]_vars => OneWayInv(a)'
  BY OneWayNext
<1>3. Inv /\ OneWayInv(a) => TransmitWindow /\ ReceiverConsistent /\ WindowsNested
  BY OneWayProperties
<1> QED BY <1>1, <1>2, <1>3, SpecInv, PTL DEF Spec

\* mPduTxQ holds exactly the PDUs from mVTA to mVTS, W of them at most, across
\* any number of resets by the sender: getDataPdu (URlcTransAm.cpp:34) never
\* overwrites a PDU that is not acknowledged, and no status report, however old,
\* moves mVTA past mVTS.
THEOREM SpecTransmitWindow ==
  ASSUME NEW a \in Entity, OneWay(a) PROVE Spec => []TransmitWindow
BY SpecOneWay, PTL

\* The assertions of the receiver (URlcRecvAm.cpp:33 and 115) hold, and it never
\* asks for a reset of its own because mVRR overtook mVRH (isReceiverOk).
THEOREM SpecReceiverConsistent ==
  ASSUME NEW a \in Entity, OneWay(a) PROVE Spec => []ReceiverConsistent
BY SpecOneWay, PTL

\* Whenever no reset is under way the windows of the two ends are nested and the
\* sender holds what the receiver misses, also after resets whose RESETs and
\* acknowledgements were lost or repeated (11.4 of 25.322, URlcTransAm.cpp:366).
THEOREM SpecWindowsNested ==
  ASSUME NEW a \in Entity, OneWay(a) PROVE Spec => []WindowsNested
BY SpecOneWay, PTL
=============================================================================
