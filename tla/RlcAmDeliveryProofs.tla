------------------------- MODULE RlcAmDeliveryProofs -------------------------
(***************************************************************************)
(* What an acknowledged-mode entity hands up is what the peer wrote: whole *)
(* SDUs, in order, none twice.  Every PDU of the window stands for a piece *)
(* of the stream of SDUs (TextOk), the receiver holds the same pieces      *)
(* under the same numbers (HeardOk), and what it has made of the stream up *)
(* to mVRR fits what is still to come (UpperAt).  The windows being        *)
(* aligned (RlcAmWindowProofs) is what makes a number mean one PDU.        *)
(***************************************************************************)
EXTENDS RlcAmWindowProofs

InWindow(w, sn) == 0 <= Pos(w, sn) /\ Pos(w, sn) < Pos(w, w.mVTS)

Text(w, sn) == w.mPduTxQ[sn].payload

\* Where the stream of octets is cut between two PDUs: the last segment sent of
\* an SDU that goes on, and whether the next PDU is to mark the end of one that
\* filled its last PDU exactly.
Cut(s) == [split |-> s.mSplitSdu, mark |-> s.mLILeftOver]

CutBefore(p) ==
  [ split |-> IF p.data = NoSdu \/ p.data.part = 1 THEN NoSdu
              ELSE [sdu |-> p.data.sdu, part |-> p.data.part - 1],
    mark |-> p.start ]

CutAfter(p) ==
  [ split |-> IF EndsSdu(p.data) THEN NoSdu ELSE p.data,
    mark |-> EndsSdu(p.data) /\ p.data.sdu.exact ]

CutAt(w, s, sn) == IF sn = w.mVTS THEN Cut(s) ELSE CutBefore(Text(w, sn))

\* The identities of the SDUs of which segments come in the PDUs from sn on.
InSource(s, id) ==
  \/ \E i \in 1 .. Len(s.mSduTxQ) : s.mSduTxQ[i].id = id
  \/ s.mSplitSdu # NoSdu /\ s.mSplitSdu.sdu.id = id

Carries(p, id) == p.data # NoSdu /\ p.data.sdu.id = id

Comes(w, s, sn, id) ==
  \/ InSource(s, id)
  \/ \E x \in SN : InWindow(w, x) /\ Pos(w, sn) <= Pos(w, x) /\ Carries(Text(w, x), id)

Known(wr, sdu) == sdu \in Sdu /\ sdu.id \in 1 .. Len(wr) /\ wr[sdu.id] = sdu

\* What is still to be sent has been written, in this order.
SourceOk(s, wr) ==
  /\ \A i \in 1 .. Len(s.mSduTxQ) : Known(wr, s.mSduTxQ[i])
  /\ \A i, j \in 1 .. Len(s.mSduTxQ) : i < j => s.mSduTxQ[i].id < s.mSduTxQ[j].id
  /\ s.mSplitSdu # NoSdu =>
       /\ Known(wr, s.mSplitSdu.sdu) /\ ~s.mLILeftOver
       /\ 1 <= s.mSplitSdu.part /\ s.mSplitSdu.part < s.mSplitSdu.sdu.pdus
       /\ \A i \in 1 .. Len(s.mSduTxQ) : s.mSplitSdu.sdu.id < s.mSduTxQ[i].id

\* A PDU carries the next piece of the stream, and the stream goes on from there.
SegmentOk(w, s, wr, sn) ==
  LET p == Text(w, sn)
  IN  /\ CutAt(w, s, incSN(sn)) = CutAfter(p)
      /\ p.end <=> EndsSdu(p.data) /\ ~p.data.sdu.exact
      /\ p.data # NoSdu =>
           /\ Known(wr, p.data.sdu)
           /\ 1 <= p.data.part /\ p.data.part <= p.data.sdu.pdus
           /\ p.start => p.data.part = 1
           /\ \A id \in Nat : Comes(w, s, incSN(sn), id) =>
                p.data.sdu.id <= id /\ (EndsSdu(p.data) => p.data.sdu.id < id)

TextOk(w, s, wr) == \A sn \in SN : InWindow(w, sn) => SegmentOk(w, s, wr, sn)

\* The receiver stores, and is still to get, the PDUs the sender keeps.
HeardOk(w, r, q) ==
  /\ \A sn \in SN : r.mPduRxQ[sn] # NoPdu => r.mPduRxQ[sn] = Text(w, sn)
  /\ \A i \in 1 .. Len(q) : q[i].type = "DATA" /\ 0 <= Pos(w, q[i].sn) =>
       q[i].payload = Text(w, q[i].sn)

Part(sdu, k) == [n \in 1 .. k |-> [sdu |-> sdu, part |-> n]]

IdOf(segs) == segs[1].sdu.id

\* Whole SDUs, in the order they were written.
Handed(d, wr) ==
  /\ \A i \in 1 .. Len(d) : \E sdu \in Sdu : Known(wr, sdu) /\ d[i] = WholeSdu(sdu)
  /\ \A i, j \in 1 .. Len(d) : i < j => IdOf(d[i]) < IdOf(d[j])

\* Those handed up, and the one that a length indicator to come will hand up.
HandedBy(u, mark) == IF mark THEN Append(u.delivered, u.mUpSdu) ELSE u.delivered

\* The SDUs made of the stream up to sn, and the beginning of the next.
UpperAt(w, s, u, wr, sn) ==
  LET c == CutAt(w, s, sn)
      d == HandedBy(u, c.mark)
  IN  /\ u \in Upper
      /\ Handed(d, wr)
      /\ \A i \in 1 .. Len(d) : \A id \in Nat : Comes(w, s, sn, id) => IdOf(d[i]) < id
      /\ c.split # NoSdu => ~c.mark /\ u.mUpSdu = Part(c.split.sdu, c.split.part)
      /\ c.split = NoSdu /\ ~c.mark => u.mUpSdu = <<>>
      /\ c.mark => u.mUpSdu # <<>>

\* No SDU written is missing: it has been handed up or is still to come.
Complete(w, s, u, wr, sn) ==
  LET d == HandedBy(u, CutAt(w, s, sn).mark)
  IN  \A id \in 1 .. Len(wr) : (\E i \in 1 .. Len(d) : IdOf(d[i]) = id) \/ Comes(w, s, sn, id)

\* What u has of the stream up to x, v has up to sn, and what comes with it.
Onward(w, s, u, v, wr, x, sn) ==
  /\ UpperAt(w, s, v, wr, sn)
  /\ Complete(w, s, u, wr, x) => Complete(w, s, v, wr, sn)
  /\ Len(u.delivered) <= Len(v.delivered)

\* One direction: the sender's window and source, the peer's window and SDUs, the
\* PDUs on their way there and the SDUs written.
Flows(w, s, r, u, dq, wr) ==
  /\ SourceOk(s, wr) /\ TextOk(w, s, wr) /\ HeardOk(w, r, dq)
  /\ UpperAt(w, s, u, wr, r.mVRR)

-----------------------------------------------------------------------------
LEMMA SduType ==
  ASSUME NEW sdu \in Sdu
  PROVE  sdu.id \in Nat /\ sdu.pdus \in Nat /\ sdu.pdus >= 1 /\ sdu.exact \in BOOLEAN
<1>1. sdu \in [id : Nat, pdus : Nat \ {0}, exact : BOOLEAN]
  BY SduAssumption
<1> QED BY <1>1, SMT

LEMMA PayloadType ==
  ASSUME NEW p \in Payload
  PROVE  /\ p.start \in BOOLEAN /\ p.end \in BOOLEAN
         /\ p.data # NoSdu =>
              /\ p.data \in Segment /\ p.data.sdu \in Sdu /\ p.data.part \in Nat
              /\ p.data = [sdu |-> p.data.sdu, part |-> p.data.part]
BY Zenon DEF Payload, Segment

LEMMA WindowText ==
  ASSUME NEW w \in Window, SenderOk(w), NEW sn \in SN, InWindow(w, sn)
  PROVE  w.mPduTxQ[sn] \in TxPdu /\ Text(w, sn) \in Payload
<1>1. w.mPduTxQ[sn] # NoPdu
  BY DEF SenderOk, InWindow
<1>2. w.mPduTxQ[sn] \in TxPdu
  BY <1>1, PduSnType
<1> QED BY <1>2, Zenon DEF TxPdu, Text

\* A number of the window is followed by another one, or by mVTS.
LEMMA NextInWindow ==
  ASSUME NEW w \in Window, SenderOk(w), NEW sn \in SN, InWindow(w, sn)
  PROVE  /\ incSN(sn) \in SN /\ Pos(w, incSN(sn)) = Pos(w, sn) + 1
         /\ InWindow(w, incSN(sn)) \/ incSN(sn) = w.mVTS
         /\ sn # w.mVTS
<1>1. /\ Pos(w, sn) \in Int /\ Pos(w, w.mVTS) \in Int /\ w.mVTS \in SN
      /\ 0 <= Pos(w, sn) /\ Pos(w, sn) < Pos(w, w.mVTS) /\ Pos(w, w.mVTS) <= W
      /\ W \in Nat /\ W < Half /\ Half \in Nat
  BY PosType, PduSnType, WindowSize, HalfType DEF SenderOk, InWindow
<1>2. -Half < Pos(w, sn) /\ Pos(w, sn) < Half - 1
  BY <1>1, SMT
<1>3. incSN(sn) \in SN /\ Pos(w, incSN(sn)) = Pos(w, sn) + 1
  BY <1>2, PosInc
<1>4. Pos(w, sn) + 1 = Pos(w, w.mVTS) => incSN(sn) = w.mVTS
  BY <1>1, <1>3, PosEqual
<1>5. Pos(w, sn) + 1 # Pos(w, w.mVTS) => InWindow(w, incSN(sn))
  BY <1>1, <1>3, SMT DEF InWindow
<1>6. sn # w.mVTS
  BY <1>1, SMT
<1> QED BY <1>3, <1>4, <1>5, <1>6

\* mVRR is a number of the window, or mVTS.
LEMMA ReceiverInWindow ==
  ASSUME NEW w \in Window, SenderOk(w), NEW r \in Rx, ReceiverOk(w, r)
  PROVE  /\ r.mVRR \in SN
         /\ InWindow(w, r.mVRR) \/ r.mVRR = w.mVTS
         /\ \A sn \in SN : r.mPduRxQ[sn] # NoPdu => InWindow(w, sn)
<1>1. /\ r.mVRR \in SN /\ w.mVTS \in SN
      /\ Pos(w, r.mVRR) \in Int /\ Pos(w, r.mVRH) \in Int /\ Pos(w, w.mVTS) \in Int
      /\ 0 <= Pos(w, r.mVRR) /\ Pos(w, r.mVRR) <= Pos(w, r.mVRH)
      /\ Pos(w, r.mVRH) <= Pos(w, w.mVTS)
  BY ReceiverPos, PduSnType
<1>2. Pos(w, r.mVRR) = Pos(w, w.mVTS) => r.mVRR = w.mVTS
  BY <1>1, PosEqual
<1>3. Pos(w, r.mVRR) # Pos(w, w.mVTS) => InWindow(w, r.mVRR)
  BY <1>1, SMT DEF InWindow
<1>4. ASSUME NEW sn \in SN, r.mPduRxQ[sn] # NoPdu PROVE InWindow(w, sn)
  <2>1. Pos(w, r.mVRR) <= Pos(w, sn) /\ Pos(w, sn) < Pos(w, r.mVRH) /\ Pos(w, sn) \in Int
    BY <1>4, PosType DEF ReceiverOk
  <2> QED BY <1>1, <2>1, SMT DEF InWindow
<1> QED BY <1>1, <1>2, <1>3, <1>4

-----------------------------------------------------------------------------
(* What keeps the PDUs of the window, or drops the oldest of them.         *)

KeepsText(w, v) ==
  /\ v.mVTS = w.mVTS
  /\ \A sn \in SN : InWindow(v, sn) => InWindow(w, sn) /\ Text(v, sn) = Text(w, sn)
  /\ \A x, y \in SN : InWindow(v, x) /\ InWindow(v, y) =>
       (Pos(v, x) <= Pos(v, y) <=> Pos(w, x) <= Pos(w, y))

LEMMA KeptStream ==
  ASSUME NEW w \in Window, NEW v \in Window, SenderOk(w), SenderOk(v), KeepsText(w, v),
         NEW s, NEW sn \in SN, InWindow(v, sn) \/ sn = v.mVTS
  PROVE  /\ CutAt(v, s, sn) = CutAt(w, s, sn)
         /\ \A id : Comes(v, s, sn, id) => Comes(w, s, sn, id)
<1>1. v.mVTS = w.mVTS
  BY DEF KeepsText
<1>2. CASE InWindow(v, sn)
  <2>1. sn # v.mVTS /\ Text(v, sn) = Text(w, sn)
    BY <1>2, NextInWindow DEF KeepsText
  <2>2. CutAt(v, s, sn) = CutAt(w, s, sn)
    BY <1>1, <2>1 DEF CutAt
  <2>3. ASSUME NEW x \in SN, InWindow(v, x), Pos(v, sn) <= Pos(v, x)
        PROVE  InWindow(w, x) /\ Pos(w, sn) <= Pos(w, x) /\ Text(v, x) = Text(w, x)
    BY <1>2, <2>3, Zenon DEF KeepsText
  <2> QED BY <2>2, <2>3, Zenon DEF Comes
<1>3. CASE sn = v.mVTS
  <2>1. CutAt(v, s, sn) = CutAt(w, s, sn)
    BY <1>1, <1>3 DEF CutAt
  <2>2. \A x \in SN : ~ (InWindow(v, x) /\ Pos(v, v.mVTS) <= Pos(v, x))
    BY PosType, PduSnType, SMT DEF InWindow
  <2> QED BY <1>3, <2>1, <2>2, Zenon DEF Comes
<1> QED BY <1>2, <1>3

LEMMA KeptText ==
  ASSUME NEW w \in Window, NEW v \in Window, SenderOk(w), SenderOk(v), KeepsText(w, v),
         NEW s, NEW wr, TextOk(w, s, wr)
  PROVE  TextOk(v, s, wr)
<1> SUFFICES ASSUME NEW sn \in SN, InWindow(v, sn) PROVE SegmentOk(v, s, wr, sn)
  BY DEF TextOk
<1>1. InWindow(w, sn) /\ Text(v, sn) = Text(w, sn)
  BY DEF KeepsText
<1>2. incSN(sn) \in SN /\ (InWindow(v, incSN(sn)) \/ incSN(sn) = v.mVTS)
  BY NextInWindow
<1>3. /\ CutAt(v, s, incSN(sn)) = CutAt(w, s, incSN(sn))
      /\ \A id : Comes(v, s, incSN(sn), id) => Comes(w, s, incSN(sn), id)
  BY <1>2, KeptStream
<1>4. SegmentOk(w, s, wr, sn)
  BY <1>1 DEF TextOk
<1> QED BY <1>1, <1>3, <1>4, Zenon DEF SegmentOk

LEMMA KeptHeard ==
  ASSUME NEW w \in Window, NEW v \in Window, SenderOk(w), SenderOk(v), KeepsText(w, v),
         NEW r \in Rx, NEW dq \in Seq(Pdu), HeardOk(w, r, dq),
         ReceiverOk(v, r), DataOk(v, r, dq)
  PROVE  HeardOk(v, r, dq)
<1>1. ASSUME NEW sn \in SN, r.mPduRxQ[sn] # NoPdu
      PROVE  r.mPduRxQ[sn] = Text(v, sn)
  BY <1>1, ReceiverInWindow, Zenon DEF HeardOk, KeepsText
<1>2. ASSUME NEW i \in 1 .. Len(dq), dq[i].type = "DATA", 0 <= Pos(v, dq[i].sn)
      PROVE  dq[i].payload = Text(v, dq[i].sn)
  <2>1. dq[i].sn \in SN /\ InWindow(v, dq[i].sn)
    BY <1>2, PduNumbers DEF DataOk, InWindow
  <2>2. InWindow(w, dq[i].sn) /\ Text(v, dq[i].sn) = Text(w, dq[i].sn)
    BY <2>1 DEF KeepsText
  <2> QED BY <1>2, <2>2, Zenon DEF HeardOk, InWindow
<1> QED BY <1>1, <1>2 DEF HeardOk

LEMMA KeptUpper ==
  ASSUME NEW w \in Window, NEW v \in Window, SenderOk(w), SenderOk(v), KeepsText(w, v),
         NEW s, NEW u, NEW wr, NEW sn \in SN, InWindow(v, sn) \/ sn = v.mVTS,
         UpperAt(w, s, u, wr, sn)
  PROVE  UpperAt(v, s, u, wr, sn)
<1>1. /\ CutAt(v, s, sn) = CutAt(w, s, sn)
      /\ \A id : Comes(v, s, sn, id) => Comes(w, s, sn, id)
  BY KeptStream
<1> QED BY <1>1, Zenon DEF UpperAt

LEMMA KeptFlows ==
  ASSUME NEW w \in Window, NEW v \in Window, SenderOk(w), KeepsText(w, v),
         NEW s, NEW r \in Rx, NEW u, NEW dq \in Seq(Pdu), NEW sq, NEW wr,
         Aligned(v, r, dq, sq), Flows(w, s, r, u, dq, wr)
  PROVE  Flows(v, s, r, u, dq, wr)
<1>1. SenderOk(v) /\ ReceiverOk(v, r) /\ DataOk(v, r, dq)
  BY DEF Aligned
<1>2. r.mVRR \in SN /\ (InWindow(v, r.mVRR) \/ r.mVRR = v.mVTS)
  BY <1>1, ReceiverInWindow
<1> QED BY <1>1, <1>2, KeptText, KeptHeard, KeptUpper DEF Flows

\* v has some of the PDUs of w.
KeptPdus(w, v) ==
  \A sn \in SN : v.mPduTxQ[sn] # NoPdu =>
    w.mPduTxQ[sn] # NoPdu /\ Text(v, sn) = Text(w, sn)

LEMMA KeptTrans ==
  ASSUME NEW w, NEW v, NEW u, KeptPdus(w, v), KeptPdus(v, u)
  PROVE  KeptPdus(w, u)
BY Zenon DEF KeptPdus

LEMMA CountTransmissionKept ==
  ASSUME NEW w \in Window, NEW sn \in SN, w.mPduTxQ[sn] \in TxPdu
  PROVE  KeptPdus(w, CountTransmission(w, sn))
<1> DEFINE pdu == [w.mPduTxQ[sn] EXCEPT !.mVTDAT = w.mPduTxQ[sn].mVTDAT + 1]
           q   == [w.mPduTxQ EXCEPT ![sn] = pdu]
<1>1. pdu.payload = w.mPduTxQ[sn].payload /\ w.mPduTxQ[sn] # NoPdu
  BY NullAssumption, Zenon DEF TxPdu
<1>2. \A x \in SN : q[x] = IF x = sn THEN pdu ELSE w.mPduTxQ[x]
  BY PduSnType, Zenon
<1>3. CountTransmission(w, sn) = [w EXCEPT !.mPduTxQ = q]
  BY Zenon DEF CountTransmission
<1> HIDE DEF pdu, q
<1>4. CountTransmission(w, sn).mPduTxQ = q
  BY <1>3, Zenon DEF Window
<1> QED BY <1>1, <1>2, <1>4, Zenon DEF KeptPdus, Text

LEMMA AdvanceVSKept ==
  ASSUME NEW w \in Window, NEW from \in SN
  PROVE  KeptPdus(w, advanceVS(w, from))
<1>1. advanceVS(w, from).mPduTxQ = w.mPduTxQ
  BY Zenon DEF advanceVS, Window
<1> QED BY <1>1, Zenon DEF KeptPdus, Text

LEMMA RetransmittedKept ==
  ASSUME NEW w \in Window, w.mNackedBlocksWaiting, NackOk(w)
  PROVE  KeptPdus(w, Retransmitted(w))
<1> DEFINE pdu == [w.mPduTxQ[w.mVSNack] EXCEPT !.mNacked = FALSE]
           q   == [w.mPduTxQ EXCEPT ![w.mVSNack] = pdu]
           cleared == [w EXCEPT !.mPduTxQ = q]
<1>1. w.mVSNack \in SN
  BY PduSnType
<1>2. w.mPduTxQ[w.mVSNack] \in TxPdu
  BY <1>1, IsNackedTxPdu, Zenon DEF NackOk
<1>3. pdu \in TxPdu /\ pdu.payload = w.mPduTxQ[w.mVSNack].payload
  BY <1>2, Zenon DEF TxPdu
<1>4. /\ q \in [SN -> TxPdu \cup {NoPdu}]
      /\ \A x \in SN : q[x] = IF x = w.mVSNack THEN pdu ELSE w.mPduTxQ[x]
  BY <1>1, <1>3, PduSnType, Zenon
<1>5. Retransmitted(w) = advanceVS(cleared, incSN(w.mVSNack))
  BY Zenon DEF Retransmitted
<1>6. w.mPduTxQ[w.mVSNack] # NoPdu
  BY <1>2, NullAssumption
<1> HIDE DEF pdu, q
<1>7. cleared \in Window /\ cleared.mPduTxQ = q
  BY <1>4, Zenon DEF Window
<1>8. KeptPdus(w, cleared)
  BY <1>3, <1>4, <1>6, <1>7, Zenon DEF KeptPdus, Text
<1>9. incSN(w.mVSNack) \in SN
  BY <1>1, IncSNType
<1> HIDE DEF cleared
<1> QED BY <1>5, <1>7, <1>8, <1>9, AdvanceVSKept, KeptTrans, Zenon

LEMMA SetNAckKept ==
  ASSUME NEW w \in Window, NEW nacks \in SUBSET SN
  PROVE  KeptPdus(w, setNAck(w, nacks))
<1> DEFINE hit == {sn \in nacks : w.mPduTxQ[sn] # NoPdu}
           q   == [sn \in SN |-> IF sn \in hit
                                 THEN [w.mPduTxQ[sn] EXCEPT !.mNacked = TRUE]
                                 ELSE w.mPduTxQ[sn]]
<1>1. \A sn \in hit : [w.mPduTxQ[sn] EXCEPT !.mNacked = TRUE].payload
                        = w.mPduTxQ[sn].payload
  BY PduSnType, Zenon DEF TxPdu
<1>2. \A sn \in SN : q[sn] # NoPdu =>
        w.mPduTxQ[sn] # NoPdu /\ q[sn].payload = w.mPduTxQ[sn].payload
  BY <1>1, Zenon
<1>3. setNAck(w, nacks) =
        [w EXCEPT !.mPduTxQ = q,
                  !.mNackedBlocksWaiting = w.mNackedBlocksWaiting \/ hit # {}]
  BY Zenon DEF setNAck
<1> HIDE DEF q, hit
<1>4. setNAck(w, nacks).mPduTxQ = q
  BY <1>3, Zenon DEF Window
<1> QED BY <1>2, <1>4, Zenon DEF KeptPdus, Text

LEMMA AdvanceVTAKept ==
  ASSUME NEW w \in Window, NEW n \in SN
  PROVE  KeptPdus(w, advanceVTA(w, n))
<1> DEFINE q == [sn \in SN |-> IF sn \in Span(w.mVTA, n) THEN NoPdu ELSE w.mPduTxQ[sn]]
<1>1. \A sn \in SN : q[sn] # NoPdu => q[sn] = w.mPduTxQ[sn]
  BY Zenon
<1>2. CASE deltaSN(w.mVTA, n) < 0
  <2>1. advanceVTA(w, n) = [w EXCEPT !.mVTA = n, !.mPduTxQ = q]
    BY <1>2, Zenon DEF advanceVTA
  <2> HIDE DEF q
  <2>2. advanceVTA(w, n).mPduTxQ = q
    BY <2>1, Zenon DEF Window
  <2> QED BY <1>1, <2>2, Zenon DEF KeptPdus, Text
<1>3. CASE ~ (deltaSN(w.mVTA, n) < 0)
  <2>1. advanceVTA(w, n) = w
    BY <1>3, Zenon DEF advanceVTA
  <2> QED BY <2>1, Zenon DEF KeptPdus
<1> QED BY <1>2, <1>3

LEMMA ProcessSUFIsKept ==
  ASSUME NEW w \in Window, NEW status \in Status
  PROVE  KeptPdus(w, processSUFIs2(w, status))
<1> DEFINE newva == minSN(w.mVTA, status.first)
           bound == IF status.nacks = {} \/ deltaSN(status.lsn, newva) <= 0
                    THEN status.lsn ELSE newva
           s == setNAck(w, status.nacks)
           acked == advanceVTA(s, bound)
<1>1. /\ status.nacks \in SUBSET SN /\ status.first \in SN /\ status.lsn \in SN
      /\ w.mVTA \in SN
  BY PduSnType, Zenon DEF Status
<1>2. bound \in SN
  <2>1. newva \in SN
    BY <1>1, MinSNType
  <2> HIDE DEF newva
  <2> QED BY <1>1, <2>1
<1>3. s \in Window /\ KeptPdus(w, s)
  BY <1>1, SetNAckType, SetNAckKept
<1> HIDE DEF s, bound
<1>4. acked \in Window /\ KeptPdus(s, acked)
  BY <1>2, <1>3, AdvanceVTAType, AdvanceVTAKept
<1>5. processSUFIs2(w, status) =
        IF acked.mNackedBlocksWaiting THEN advanceVS(acked, acked.mVTA) ELSE acked
  BY Zenon DEF processSUFIs2, s, bound
<1> HIDE DEF acked
<1>6. KeptPdus(acked, processSUFIs2(w, status))
  <2>1. CASE acked.mNackedBlocksWaiting
    BY <1>4, <1>5, <2>1, AdvanceVSKept, PduSnType, Zenon
  <2>2. CASE ~acked.mNackedBlocksWaiting
    BY <1>5, <2>2, Zenon DEF KeptPdus
  <2> QED BY <2>1, <2>2
<1> QED BY <1>3, <1>4, <1>6, KeptTrans, Zenon

LEMMA SameKeeps ==
  ASSUME NEW w \in Window, NEW v \in Window, SenderOk(w), SameWindow(w, v), KeptPdus(w, v)
  PROVE  KeepsText(w, v)
<1>1. \A sn : Pos(v, sn) = Pos(w, sn)
  BY Zenon DEF SameWindow, Pos
<1>2. v.mVTS = w.mVTS
  BY DEF SameWindow
<1>3. SenderOk(v)
  BY SameWindowOk
<1>4. \A sn \in SN : InWindow(v, sn) => v.mPduTxQ[sn] # NoPdu
  BY <1>3 DEF SenderOk, InWindow
<1>5. \A sn \in SN : InWindow(v, sn) => InWindow(w, sn)
  BY <1>1, <1>2, SMT DEF InWindow
<1>6. \A sn \in SN : InWindow(v, sn) => Text(v, sn) = Text(w, sn)
  BY <1>4 DEF KeptPdus
<1>7. \A x, y \in SN : Pos(v, x) <= Pos(v, y) <=> Pos(w, x) <= Pos(w, y)
  BY <1>1
<1> QED BY <1>2, <1>5, <1>6, <1>7 DEF KeepsText

LEMMA AdvancedKeeps ==
  ASSUME NEW w \in Window, NEW v \in Window, NEW n \in SN, AdvancedTo(w, v, n),
         SenderOk(w), 0 <= Pos(w, n), Pos(w, n) <= Pos(w, w.mVTS), KeptPdus(w, v)
  PROVE  KeepsText(w, v)
<1>1. SenderOk(v)
  BY AdvancedPos
<1>2. ASSUME NEW sn \in SN, InWindow(v, sn)
      PROVE  /\ InWindow(w, sn) /\ Text(v, sn) = Text(w, sn)
             /\ Pos(v, sn) = Pos(w, sn) - Pos(w, n)
  <2>1. v.mPduTxQ[sn] # NoPdu
    BY <1>1, <1>2 DEF SenderOk, InWindow
  <2>2. w.mPduTxQ[sn] # NoPdu /\ Text(v, sn) = Text(w, sn)
    BY <2>1 DEF KeptPdus
  <2>3. InWindow(w, sn)
    BY <2>2 DEF SenderOk, InWindow
  <2>4. /\ Pos(w, sn) \in Int /\ Pos(w, n) \in Int /\ Pos(w, w.mVTS) \in Int
        /\ 0 <= Pos(w, sn) /\ Pos(w, sn) < Pos(w, w.mVTS) /\ Pos(w, w.mVTS) <= W
        /\ Pos(w, n) <= W /\ W \in Nat
    BY <2>3, PosType, PduSnType, WindowSize, SMT DEF InWindow, SenderOk
  <2>5. Pos(w, n) - W <= Pos(w, sn) /\ Pos(w, sn) <= W
    BY <2>4, SMT
  <2> QED BY <2>2, <2>3, <2>5, AdvancedPos
<1>3. \A x, y \in SN : InWindow(v, x) /\ InWindow(v, y) =>
        (Pos(v, x) <= Pos(v, y) <=> Pos(w, x) <= Pos(w, y))
  <2>1. \A x \in SN : Pos(w, x) \in Int /\ Pos(v, x) \in Int
    BY PosType
  <2> QED BY <1>2, <2>1, SMT
<1>4. v.mVTS = w.mVTS
  BY DEF AdvancedTo
<1> QED BY <1>2, <1>3, <1>4 DEF KeepsText

-----------------------------------------------------------------------------
(* The SDUs still to be sent.                                              *)

\* q is what is left of p when elements are taken from the front.
SuffixOf(q, p) ==
  \E k \in Nat : \A i \in 1 .. Len(q) : i + k \in 1 .. Len(p) /\ q[i] = p[i + k]

LEMMA SuffixOrder ==
  ASSUME NEW q \in Seq(Sdu), NEW p \in Seq(Sdu), SuffixOf(q, p),
         \A i, j \in 1 .. Len(p) : i < j => p[i].id < p[j].id
  PROVE  /\ \A i \in 1 .. Len(q) : \E j \in 1 .. Len(p) : q[i] = p[j]
         /\ \A i, j \in 1 .. Len(q) : i < j => q[i].id < q[j].id
<1>1. PICK k \in Nat : \A i \in 1 .. Len(q) : i + k \in 1 .. Len(p) /\ q[i] = p[i + k]
  BY DEF SuffixOf
<1>2. Len(q) \in Nat
  BY LenProperties
<1>3. \A i, j \in 1 .. Len(q) : i < j => i + k < j + k
  BY <1>1, <1>2, SMT
<1> QED BY <1>1, <1>3

\* rlcWriteHighSide drops SDUs from the front only.
LEMMA WriteHighSideQueue ==
  ASSUME NEW s \in Source, NEW sdu \in Sdu
  PROVE  LET v == rlcWriteHighSide(s, sdu)
         IN  /\ SuffixOf(v.mSduTxQ, Append(s.mSduTxQ, sdu))
             /\ v.mSplitSdu = s.mSplitSdu /\ v.mLILeftOver = s.mLILeftOver
<1> DEFINE q     == Append(s.mSduTxQ, sdu)
           extra == Len(q) - mConfig.mTransmissionBufferSdus
           v     == rlcWriteHighSide(s, sdu)
<1>1. q \in Seq(Sdu) /\ Len(q) \in Nat /\ extra \in Int /\ extra <= Len(q)
  <2>1. q \in Seq(Sdu) /\ Len(q) \in Nat
    BY SMT DEF Source
  <2> QED BY <2>1, ConfigAssumption, SMT
<1>2. CASE s.mSplitSdu = NoSdu /\ extra > 0
  <2>1. v = [s EXCEPT !.mSduTxQ = SubSeq(q, extra + 1, Len(q)),
                      !.mVTSDU = s.mVTSDU + extra - 1]
    BY <1>2, Zenon DEF rlcWriteHighSide
  <2> HIDE DEF q, extra, v
  <2>2. /\ v.mSduTxQ = SubSeq(q, extra + 1, Len(q))
        /\ v.mSplitSdu = s.mSplitSdu /\ v.mLILeftOver = s.mLILeftOver
    BY <2>1, Zenon DEF Source
  <2> DEFINE t == SubSeq(q, extra + 1, Len(q))
  <2>3. \A i \in 1 .. Len(t) : i + extra \in 1 .. Len(q) /\ t[i] = q[i + extra]
    BY <1>1, <1>2, SMT
  <2>4. extra \in Nat
    BY <1>1, <1>2, SMT
  <2> HIDE DEF t
  <2>5. SuffixOf(t, q)
    BY <2>3, <2>4 DEF SuffixOf
  <2> QED BY <2>2, <2>5 DEF t, q, v
<1>3. CASE ~ (s.mSplitSdu = NoSdu /\ extra > 0)
  <2>1. v = [s EXCEPT !.mSduTxQ = q]
    BY <1>3, Zenon DEF rlcWriteHighSide
  <2> HIDE DEF q, extra, v
  <2>2. v.mSduTxQ = q /\ v.mSplitSdu = s.mSplitSdu /\ v.mLILeftOver = s.mLILeftOver
    BY <2>1, Zenon DEF Source
  <2>3. \A i \in 1 .. Len(q) : i + 0 \in 1 .. Len(q) /\ q[i] = q[i + 0]
    BY <1>1, SMT
  <2>4. SuffixOf(q, q)
    BY <2>3 DEF SuffixOf
  <2> QED BY <2>2, <2>4 DEF q, v
<1> QED BY <1>2, <1>3

LEMMA SourceType ==
  ASSUME NEW s \in Source
  PROVE  /\ s.mSduTxQ \in Seq(Sdu) /\ s.mLILeftOver \in BOOLEAN
         /\ s.mSplitSdu \in Segment \cup {NoSdu}
BY Zenon DEF Source

LEMMA KnownWrites ==
  ASSUME NEW wr \in Seq(Sdu), NEW sdu \in Sdu, sdu.id = Len(wr) + 1
  PROVE  /\ \A x : Known(wr, x) => Known(Append(wr, sdu), x) /\ x.id <= Len(wr) /\ x.id \in Nat
         /\ Known(Append(wr, sdu), sdu) /\ Len(wr) \in Nat
<1>1. /\ Len(wr) \in Nat /\ Len(Append(wr, sdu)) = Len(wr) + 1
      /\ \A i \in 1 .. Len(wr) : Append(wr, sdu)[i] = wr[i]
      /\ Append(wr, sdu)[Len(wr) + 1] = sdu
  BY AppendProperties, LenProperties, SMT
<1>2. ASSUME NEW x, Known(wr, x)
      PROVE  Known(Append(wr, sdu), x) /\ x.id <= Len(wr) /\ x.id \in Nat
  <2>1. x \in Sdu /\ x.id \in 1 .. Len(wr) /\ wr[x.id] = x
    BY <1>2 DEF Known
  <2>2. x.id \in Nat /\ x.id <= Len(wr) /\ x.id \in 1 .. Len(Append(wr, sdu))
    BY <1>1, <2>1, SMT
  <2> QED BY <1>1, <2>1, <2>2, Zenon DEF Known
<1>3. sdu.id \in 1 .. Len(Append(wr, sdu)) /\ Append(wr, sdu)[sdu.id] = sdu
  BY <1>1, SMT
<1> QED BY <1>1, <1>2, <1>3 DEF Known

\* An SDU is written: nothing that is known changes, and all that is known is older.
LEMMA WriteHighSideSource ==
  ASSUME NEW s \in Source, NEW sdu \in Sdu, NEW wr \in Seq(Sdu), sdu.id = Len(wr) + 1,
         SourceOk(s, wr)
  PROVE  LET v == rlcWriteHighSide(s, sdu)
             x == Append(wr, sdu)
         IN  /\ SourceOk(v, x) /\ Cut(v) = Cut(s)
             /\ \A id : InSource(v, id) => InSource(s, id) \/ id = Len(wr) + 1
<1> DEFINE v == rlcWriteHighSide(s, sdu)
           x == Append(wr, sdu)
           q == s.mSduTxQ
           p == Append(q, sdu)
<1>1. /\ q \in Seq(Sdu) /\ p \in Seq(Sdu) /\ Len(q) \in Nat /\ Len(p) = Len(q) + 1
      /\ \A i \in 1 .. Len(q) : p[i] = q[i]
      /\ p[Len(q) + 1] = sdu
  BY SourceType, AppendProperties, LenProperties, SMT
<1>2. /\ SuffixOf(v.mSduTxQ, p)
      /\ v.mSplitSdu = s.mSplitSdu /\ v.mLILeftOver = s.mLILeftOver
  BY WriteHighSideQueue
<1>3. v.mSduTxQ \in Seq(Sdu)
  BY RlcWriteHighSideType, SourceType
<1>4. /\ \A y : Known(wr, y) => Known(x, y) /\ y.id <= Len(wr) /\ y.id \in Nat
      /\ Known(x, sdu) /\ Len(wr) \in Nat
  BY KnownWrites
<1> HIDE DEF v, x, q, p
<1>5. \A i \in 1 .. Len(p) : \/ i \in 1 .. Len(q) /\ p[i] = q[i]
                             \/ i = Len(q) + 1 /\ p[i] = sdu
  <2>1. \A i \in 1 .. Len(p) : i \in 1 .. Len(q) \/ i = Len(q) + 1
    BY <1>1, SMT
  <2> QED BY <1>1, <2>1, Zenon
<1>6. \A i \in 1 .. Len(p) : Known(x, p[i])
  BY <1>4, <1>5, Zenon DEF SourceOk, q
<1>7. \A i, j \in 1 .. Len(p) : i < j => p[i].id < p[j].id
  <2> SUFFICES ASSUME NEW i \in 1 .. Len(p), NEW j \in 1 .. Len(p), i < j
               PROVE  p[i].id < p[j].id
    OBVIOUS
  <2>1. i \in 1 .. Len(q) /\ p[i] = q[i]
    BY <1>1, <1>5, SMT
  <2>2. CASE j \in 1 .. Len(q)
    BY <1>1, <2>1, <2>2, Zenon DEF SourceOk, q
  <2>3. CASE j = Len(q) + 1
    <3>1. Known(wr, p[i])
      BY <2>1 DEF SourceOk, q
    <3> QED BY <1>1, <1>4, <2>3, <3>1, SMT
  <2> QED BY <1>5, <2>2, <2>3
<1>8. /\ \A i \in 1 .. Len(v.mSduTxQ) : \E j \in 1 .. Len(p) : v.mSduTxQ[i] = p[j]
      /\ \A i, j \in 1 .. Len(v.mSduTxQ) : i < j => v.mSduTxQ[i].id < v.mSduTxQ[j].id
  BY <1>1, <1>2, <1>3, <1>7, SuffixOrder
<1>9. \A i \in 1 .. Len(v.mSduTxQ) : Known(x, v.mSduTxQ[i])
  BY <1>6, <1>8, Zenon
<1>10. ASSUME s.mSplitSdu # NoSdu
       PROVE  \A i \in 1 .. Len(v.mSduTxQ) : s.mSplitSdu.sdu.id < v.mSduTxQ[i].id
  <2>1. \A j \in 1 .. Len(q) : s.mSplitSdu.sdu.id < q[j].id
    BY <1>10 DEF SourceOk, q
  <2>2. Known(wr, s.mSplitSdu.sdu)
    BY <1>10 DEF SourceOk
  <2>3. s.mSplitSdu.sdu.id < sdu.id
    BY <1>4, <2>2, SMT
  <2>4. \A j \in 1 .. Len(p) : s.mSplitSdu.sdu.id < p[j].id
    BY <1>5, <2>1, <2>3, SMT
  <2> QED BY <1>8, <2>4, SMT
<1>11. SourceOk(v, x)
  BY <1>2, <1>4, <1>8, <1>9, <1>10, Zenon DEF SourceOk
<1>12. Cut(v) = Cut(s)
  BY <1>2 DEF Cut
<1>13. ASSUME NEW id, InSource(v, id) PROVE InSource(s, id) \/ id = Len(wr) + 1
  <2>1. CASE v.mSplitSdu # NoSdu /\ v.mSplitSdu.sdu.id = id
    BY <1>2, <2>1 DEF InSource
  <2>2. ASSUME NEW i \in 1 .. Len(v.mSduTxQ), v.mSduTxQ[i].id = id
        PROVE  InSource(s, id) \/ id = Len(wr) + 1
    <3>1. PICK j \in 1 .. Len(p) : v.mSduTxQ[i] = p[j]
      BY <1>8
    <3>2. CASE j \in 1 .. Len(q) /\ p[j] = q[j]
      BY <2>2, <3>1, <3>2 DEF InSource, q
    <3>3. CASE p[j] = sdu
      BY <2>2, <3>1, <3>3
    <3> QED BY <1>5, <3>2, <3>3
  <2> QED BY <1>13, <2>1, <2>2 DEF InSource
<1> QED BY <1>11, <1>12, <1>13 DEF v, x

\* SDUs of an identity no one has used are written; what is known stays known.
Grown(s, v, wr, x) ==
  /\ Cut(v) = Cut(s)
  /\ \A id \in Nat : InSource(v, id) => InSource(s, id) \/ Len(wr) < id
  /\ \A sdu : Known(wr, sdu) => Known(x, sdu) /\ sdu.id <= Len(wr)

LEMMA IdOfWhole ==
  ASSUME NEW sdu \in Sdu
  PROVE  IdOf(WholeSdu(sdu)) = sdu.id
<1>1. 1 \in 1 .. sdu.pdus
  BY SduType, SMT
<1> QED BY <1>1, Zenon DEF IdOf, WholeSdu

LEMMA GrownFlows ==
  ASSUME NEW w \in Window, SenderOk(w), NEW s, NEW v, NEW wr \in Seq(Sdu), NEW x,
         Grown(s, v, wr, x)
  PROVE  /\ TextOk(w, s, wr) => TextOk(w, v, x)
         /\ \A u, sn : UpperAt(w, s, u, wr, sn) => UpperAt(w, v, u, x, sn)
<1>0. Len(wr) \in Nat
  BY LenProperties
<1>1. \A sn : CutAt(w, v, sn) = CutAt(w, s, sn)
  BY Zenon DEF Grown, CutAt
<1>2. \A sn : \A id \in Nat : Comes(w, v, sn, id) => Comes(w, s, sn, id) \/ Len(wr) < id
  BY Zenon DEF Grown, Comes
<1>3. \A sdu : Known(wr, sdu) => /\ Known(x, sdu) /\ sdu.id <= Len(wr)
                                 /\ sdu.id \in Nat /\ sdu \in Sdu
  BY SduType, Zenon DEF Grown, Known
<1>4. ASSUME TextOk(w, s, wr) PROVE TextOk(w, v, x)
  <2> SUFFICES ASSUME NEW sn \in SN, InWindow(w, sn) PROVE SegmentOk(w, v, x, sn)
    BY DEF TextOk
  <2> DEFINE p == Text(w, sn)
  <2>1. SegmentOk(w, s, wr, sn)
    BY <1>4 DEF TextOk
  <2>2. ASSUME p.data # NoSdu, NEW id \in Nat, Comes(w, v, incSN(sn), id)
        PROVE  p.data.sdu.id <= id /\ (EndsSdu(p.data) => p.data.sdu.id < id)
    <3>1. CASE Comes(w, s, incSN(sn), id)
      BY <2>1, <2>2, <3>1, Zenon DEF SegmentOk
    <3>2. CASE Len(wr) < id
      <4>1. Known(wr, p.data.sdu)
        BY <2>1, <2>2 DEF SegmentOk
      <4>2. p.data.sdu.id <= Len(wr) /\ p.data.sdu.id \in Nat
        BY <1>3, <4>1
      <4> HIDE DEF p
      <4>3. p.data.sdu.id < id /\ p.data.sdu.id <= id
        BY <1>0, <3>2, <4>2, SMT
      <4> QED BY <4>3
    <3> QED BY <1>2, <2>2, <3>1, <3>2
  <2>3. p.data # NoSdu => Known(x, p.data.sdu)
    BY <1>3, <2>1 DEF SegmentOk
  <2> QED BY <1>1, <2>1, <2>2, <2>3, Zenon DEF SegmentOk
<1>5. ASSUME NEW u, NEW sn, UpperAt(w, s, u, wr, sn) PROVE UpperAt(w, v, u, x, sn)
  <2> DEFINE c == CutAt(w, s, sn)
             d == HandedBy(u, c.mark)
  <2>1. /\ u \in Upper /\ Handed(d, wr)
        /\ \A i \in 1 .. Len(d) : \A id \in Nat : Comes(w, s, sn, id) => IdOf(d[i]) < id
        /\ c.split # NoSdu => ~c.mark /\ u.mUpSdu = Part(c.split.sdu, c.split.part)
        /\ c.split = NoSdu /\ ~c.mark => u.mUpSdu = <<>>
        /\ c.mark => u.mUpSdu # <<>>
    BY <1>5, Zenon DEF UpperAt
  <2> HIDE DEF d, c
  <2>2. \A i \in 1 .. Len(d) : \E sdu \in Sdu : Known(wr, sdu) /\ d[i] = WholeSdu(sdu)
    BY <2>1 DEF Handed
  <2>3. Handed(d, x)
    BY <1>3, <2>1, <2>2, Zenon DEF Handed
  <2>4. ASSUME NEW i \in 1 .. Len(d), NEW id \in Nat, Comes(w, v, sn, id)
        PROVE  IdOf(d[i]) < id
    <3>1. CASE Comes(w, s, sn, id)
      BY <2>1, <3>1
    <3>2. CASE Len(wr) < id
      <4>1. PICK sdu \in Sdu : Known(wr, sdu) /\ d[i] = WholeSdu(sdu)
        BY <2>2
      <4>2. IdOf(d[i]) = sdu.id /\ sdu.id <= Len(wr) /\ sdu.id \in Nat
        BY <1>3, <4>1, IdOfWhole
      <4> QED BY <1>0, <3>2, <4>2, SMT
    <3> QED BY <1>2, <2>4, <3>1, <3>2
  <2>5. c = CutAt(w, v, sn)
    BY <1>1 DEF c
  <2> QED BY <2>1, <2>3, <2>4, <2>5, Zenon DEF UpperAt, d
<1> QED BY <1>4, <1>5

-----------------------------------------------------------------------------
(* A new PDU.                                                              *)

\* fillPduData takes the next piece of the stream from the source.
LEMMA FilledNext ==
  ASSUME NEW s \in Source, NEW wr, SourceOk(s, wr)
  PROVE  LET g == NextSegment(s)
         IN  /\ g # NoSdu =>
                  /\ g \in Segment /\ Known(wr, g.sdu) /\ g.sdu \in Sdu
                  /\ g.part \in Nat /\ 1 <= g.part /\ g.part <= g.sdu.pdus
                  /\ s.mLILeftOver => g.part = 1
                  /\ InSource(s, g.sdu.id)
             /\ \A i \in 1 .. Len(fillPduData(s).mSduTxQ) :
                  /\ \E j \in 1 .. Len(s.mSduTxQ) : fillPduData(s).mSduTxQ[i] = s.mSduTxQ[j]
                  /\ g # NoSdu => g.sdu.id < fillPduData(s).mSduTxQ[i].id
             /\ \A i, j \in 1 .. Len(fillPduData(s).mSduTxQ) : i < j =>
                  fillPduData(s).mSduTxQ[i].id < fillPduData(s).mSduTxQ[j].id
             /\ Cut(s) = CutBefore(FilledPayload(s))
             /\ s.mSplitSdu # NoSdu => g # NoSdu
<1> DEFINE g == NextSegment(s)
           q == s.mSduTxQ
           t == fillPduData(s).mSduTxQ
<1>0. FilledPayload(s).start = s.mLILeftOver /\ FilledPayload(s).data = g
  BY DEF FilledPayload
<1>a. q \in Seq(Sdu) /\ s.mLILeftOver \in BOOLEAN /\ s.mSplitSdu \in Segment \cup {NoSdu}
  BY SourceType
<1>b. t = IF s.mSplitSdu = NoSdu /\ q # <<>> THEN Tail(q) ELSE q
  BY DEF fillPduData
<1>c. \A i, j \in 1 .. Len(q) : i < j => q[i].id < q[j].id
  BY DEF SourceOk
<1> HIDE DEF t
<1>1. CASE s.mSplitSdu # NoSdu
  <2> DEFINE k == s.mSplitSdu
  <2>1. g = [k EXCEPT !.part = k.part + 1] /\ k \in Segment
    BY <1>1, <1>a, Zenon DEF NextSegment
  <2>2. /\ Known(wr, k.sdu) /\ ~s.mLILeftOver /\ 1 <= k.part /\ k.part < k.sdu.pdus
        /\ \A i \in 1 .. Len(q) : k.sdu.id < q[i].id
    BY <1>1, Zenon DEF SourceOk
  <2>3. k.sdu \in Sdu /\ k.part \in Nat /\ k = [sdu |-> k.sdu, part |-> k.part]
    BY <2>1, Zenon DEF Segment
  <2> HIDE DEF g
  <2>4. g = [sdu |-> k.sdu, part |-> k.part + 1]
    BY <2>1, <2>3, Zenon DEF Segment
  <2>5. k.sdu.pdus \in Nat /\ k.part + 1 \in Nat /\ k.part + 1 # 1 /\ (k.part + 1) - 1 = k.part
        /\ 1 <= k.part + 1 /\ k.part + 1 <= k.sdu.pdus
    BY <2>2, <2>3, SduType, SMT
  <2>6. g \in Segment /\ g.sdu = k.sdu /\ g.part = k.part + 1
    BY <2>3, <2>4, <2>5, Zenon DEF Segment
  <2>7. g # NoSdu
    BY <2>6, NullAssumption
  <2>8. InSource(s, g.sdu.id)
    BY <1>1, <2>6 DEF InSource
  <2>9. CutBefore(FilledPayload(s)) = [split |-> [sdu |-> k.sdu, part |-> (k.part + 1) - 1],
                                       mark |-> s.mLILeftOver]
    BY <1>0, <2>5, <2>6, <2>7, Zenon DEF CutBefore
  <2>10. Cut(s) = CutBefore(FilledPayload(s))
    <3> HIDE DEF k
    <3>1. [sdu |-> k.sdu, part |-> (k.part + 1) - 1] = k
      BY <2>3, <2>5, Zenon
    <3> QED BY <2>9, <3>1, Zenon DEF Cut, k
  <2>11. t = q
    BY <1>1, <1>b
  <2> HIDE DEF k, q
  <2> QED BY <1>c, <2>2, <2>3, <2>5, <2>6, <2>7, <2>8, <2>10, <2>11, Zenon DEF t, g, q
<1>2. CASE s.mSplitSdu = NoSdu /\ q # <<>>
  <2> DEFINE h == Head(q)
  <2>1. g = [sdu |-> h, part |-> 1] /\ t = Tail(q)
    BY <1>2, <1>b, Zenon DEF NextSegment
  <2>2. /\ h = q[1] /\ 1 \in 1 .. Len(q) /\ h \in Sdu /\ Len(q) \in Nat
        /\ Len(Tail(q)) = Len(q) - 1
        /\ \A i \in 1 .. Len(Tail(q)) : i + 1 \in 1 .. Len(q) /\ Tail(q)[i] = q[i + 1]
    BY <1>2, <1>a, HeadTailProperties, LenProperties, SMT
  <2>3. Known(wr, h)
    BY <2>2, Zenon DEF SourceOk
  <2>4. h.pdus \in Nat /\ 1 <= h.pdus
    BY <2>2, SduType
  <2> HIDE DEF g, h
  <2>5. g \in Segment /\ g.sdu = h /\ g.part = 1
    BY <2>1, <2>2, SMT DEF Segment
  <2>6. g # NoSdu
    BY <2>5, NullAssumption
  <2>7. InSource(s, g.sdu.id)
    BY <2>2, <2>5, Zenon DEF InSource
  <2>8. CutBefore(FilledPayload(s)) = [split |-> NoSdu, mark |-> s.mLILeftOver]
    BY <1>0, <2>5, Zenon DEF CutBefore, g
  <2>9. Cut(s) = CutBefore(FilledPayload(s))
    BY <1>2, <2>8, Zenon DEF Cut
  <2> HIDE DEF q
  <2>10. \A i \in 1 .. Len(t) : i + 1 \in 1 .. Len(q) /\ t[i] = q[i + 1] /\ 1 < i + 1
    BY <2>1, <2>2, SMT
  <2>11. \A i \in 1 .. Len(t) : h.id < t[i].id
    BY <1>c, <2>2, <2>10
  <2>12. \A i, j \in 1 .. Len(t) : i < j => i + 1 < j + 1
    BY <2>1, <2>2, SMT
  <2>13. \A i, j \in 1 .. Len(t) : i < j => t[i].id < t[j].id
    BY <1>c, <2>10, <2>12
  <2>14. \A i \in 1 .. Len(t) : \E j \in 1 .. Len(q) : t[i] = q[j]
    BY <2>10
  <2>15. 1 \in Nat /\ 1 <= 1
    BY SMT
  <2> QED BY <1>2, <2>2, <2>3, <2>4, <2>5, <2>6, <2>7, <2>9, <2>11, <2>13, <2>14, <2>15, Zenon
      DEF t, g, q
<1>3. CASE s.mSplitSdu = NoSdu /\ q = <<>>
  <2>1. g = NoSdu /\ t = q
    BY <1>3, <1>b, Zenon DEF NextSegment
  <2>2. CutBefore(FilledPayload(s)) = [split |-> NoSdu, mark |-> s.mLILeftOver]
    BY <1>0, <2>1, Zenon DEF CutBefore
  <2>3. Cut(s) = CutBefore(FilledPayload(s))
    BY <1>3, <2>2, Zenon DEF Cut
  <2> HIDE DEF g, q
  <2>4. \A i \in 1 .. Len(t) : \E j \in 1 .. Len(q) : t[i] = q[j]
    BY <2>1
  <2> QED BY <1>3, <1>c, <2>1, <2>3, <2>4, Zenon DEF t, g, q
<1> QED BY <1>1, <1>2, <1>3

LEMMA FilledOk ==
  ASSUME NEW s \in Source, NEW wr, SourceOk(s, wr)
  PROVE  LET p == FilledPayload(s)
             t == fillPduData(s)
         IN  /\ SourceOk(t, wr)
             /\ Cut(s) = CutBefore(p) /\ Cut(t) = CutAfter(p)
             /\ \A id : InSource(t, id) \/ Carries(p, id) => InSource(s, id)
             /\ p.end <=> EndsSdu(p.data) /\ ~p.data.sdu.exact
             /\ p.data # NoSdu =>
                  /\ Known(wr, p.data.sdu)
                  /\ 1 <= p.data.part /\ p.data.part <= p.data.sdu.pdus
                  /\ p.start => p.data.part = 1
                  /\ \A id : InSource(t, id) =>
                       p.data.sdu.id <= id /\ (EndsSdu(p.data) => p.data.sdu.id < id)
<1> DEFINE p == FilledPayload(s)
           t == fillPduData(s)
           g == NextSegment(s)
           q == t.mSduTxQ
<1>1. /\ p.start = s.mLILeftOver /\ p.data = g
      /\ p.end = (EndsSdu(g) /\ ~g.sdu.exact)
      /\ t.mSplitSdu = IF EndsSdu(g) THEN NoSdu ELSE g
      /\ t.mLILeftOver = (EndsSdu(g) /\ g.sdu.exact)
  BY DEF FilledPayload, fillPduData
<1>2. /\ g # NoSdu =>
           /\ g \in Segment /\ Known(wr, g.sdu) /\ g.sdu \in Sdu
           /\ g.part \in Nat /\ 1 <= g.part /\ g.part <= g.sdu.pdus
           /\ s.mLILeftOver => g.part = 1
           /\ InSource(s, g.sdu.id)
      /\ \A i \in 1 .. Len(q) :
           /\ \E j \in 1 .. Len(s.mSduTxQ) : q[i] = s.mSduTxQ[j]
           /\ g # NoSdu => g.sdu.id < q[i].id
      /\ \A i, j \in 1 .. Len(q) : i < j => q[i].id < q[j].id
      /\ Cut(s) = CutBefore(p)
      /\ s.mSplitSdu # NoSdu => g # NoSdu
  BY FilledNext
<1>3. Cut(t) = CutAfter(p)
  BY <1>1, Zenon DEF Cut, CutAfter
<1>4. \A i \in 1 .. Len(q) : Known(wr, q[i])
  BY <1>2, Zenon DEF SourceOk
<1>5. g # NoSdu => g.sdu.pdus \in Nat /\ g.sdu.id \in Nat
  BY <1>2, SduType
<1> HIDE DEF p, t, g
<1>6. EndsSdu(g) <=> g # NoSdu /\ g.part >= g.sdu.pdus
  BY DEF EndsSdu
<1>7. t.mSplitSdu # NoSdu =>
        /\ t.mSplitSdu = g /\ g # NoSdu /\ ~EndsSdu(g)
        /\ ~t.mLILeftOver /\ 1 <= g.part /\ g.part < g.sdu.pdus
  <2> SUFFICES ASSUME t.mSplitSdu # NoSdu
               PROVE  /\ t.mSplitSdu = g /\ g # NoSdu /\ ~EndsSdu(g)
                      /\ ~t.mLILeftOver /\ 1 <= g.part /\ g.part < g.sdu.pdus
    OBVIOUS
  <2>1. t.mSplitSdu = g /\ g # NoSdu /\ ~EndsSdu(g) /\ ~t.mLILeftOver
    BY <1>1, Zenon
  <2>2. g.part < g.sdu.pdus
    BY <1>2, <1>5, <1>6, <2>1, SMT
  <2> QED BY <1>2, <2>1, <2>2
<1>8. SourceOk(t, wr)
  BY <1>2, <1>4, <1>7, Zenon DEF SourceOk
<1>9. ASSUME NEW id, InSource(t, id)
      PROVE  /\ InSource(s, id)
             /\ g # NoSdu => g.sdu.id <= id /\ (EndsSdu(g) => g.sdu.id < id)
  <2>1. ASSUME NEW i \in 1 .. Len(q), q[i].id = id
        PROVE  /\ InSource(s, id)
               /\ g # NoSdu => g.sdu.id <= id /\ (EndsSdu(g) => g.sdu.id < id)
    <3>1. InSource(s, id)
      BY <1>2, <2>1, Zenon DEF InSource
    <3>2. g # NoSdu => g.sdu.id < id
      BY <1>2, <2>1
    <3>3. g # NoSdu => g.sdu.id <= id
      <4>1. q[i].id \in Nat
        BY <1>4, SduType DEF Known
      <4> QED BY <1>5, <2>1, <3>2, <4>1, SMT
    <3> QED BY <3>1, <3>2, <3>3
  <2>2. CASE t.mSplitSdu # NoSdu /\ t.mSplitSdu.sdu.id = id
    <3>1. InSource(s, id) /\ ~EndsSdu(g) /\ g.sdu.id = id
      BY <1>2, <1>7, <2>2
    <3>2. g # NoSdu => g.sdu.id <= id
      BY <1>5, <3>1, SMT
    <3> QED BY <3>1, <3>2
  <2> QED BY <1>9, <2>1, <2>2 DEF InSource
<1>10. \A id : Carries(p, id) => InSource(s, id)
  BY <1>1, <1>2, Zenon DEF Carries
<1> QED BY <1>1, <1>2, <1>3, <1>8, <1>9, <1>10, Zenon DEF p, t

\* The window with one PDU more.
LEMMA NewDataWindow ==
  ASSUME NEW w \in Window, NEW payload \in Payload, SenderOk(w), ~stalled(w)
  PROVE  LET v == getDataPdu(w, payload)
         IN  /\ v \in Window /\ SenderOk(v)
             /\ v.mVTS = incSN(w.mVTS) /\ v.mVTS # w.mVTS
             /\ \A x : Pos(v, x) = Pos(w, x)
             /\ \A x \in SN : InWindow(v, x) <=> InWindow(w, x) \/ x = w.mVTS
             /\ \A x \in SN : InWindow(w, x) => Text(v, x) = Text(w, x) /\ x # v.mVTS
             /\ Text(v, w.mVTS) = payload
             /\ \A x \in SN : ~ (InWindow(v, x) /\ Pos(v, v.mVTS) <= Pos(v, x))
<1> DEFINE v == getDataPdu(w, payload)
           pdu == [payload |-> payload, mNacked |-> FALSE, mVTDAT |-> 0]
           q == [w.mPduTxQ EXCEPT ![w.mVTS] = pdu]
           n == Pos(w, w.mVTS)
<1>1. v \in Window /\ SenderOk(v)
  BY GetDataPduType, NewDataOk
<1>2. n \in Int /\ 0 <= n /\ n < W /\ W \in Nat /\ W < Half /\ Half \in Nat
  BY PosType, PduSnType, WindowSize, HalfType, SMT DEF SenderOk, stalled, Pos, W
<1>3. incSN(w.mVTS) \in SN /\ Pos(w, incSN(w.mVTS)) = n + 1
  <2>1. -Half < n /\ n < Half - 1
    BY <1>2, SMT
  <2> QED BY <2>1, PosInc, PduSnType
<1>4. v = [w EXCEPT !.mPduTxQ = q, !.mVTS = incSN(w.mVTS)]
  BY Zenon DEF getDataPdu
<1>5. \A x \in SN : q[x] = IF x = w.mVTS THEN pdu ELSE w.mPduTxQ[x]
  BY PduSnType, Zenon
<1>6. pdu.payload = payload
  OBVIOUS
<1> HIDE DEF v, pdu, q, n
<1>7. v.mVTA = w.mVTA /\ v.mVTS = incSN(w.mVTS) /\ v.mPduTxQ = q
  BY <1>4, Zenon DEF Window
<1>8. \A x : Pos(v, x) = Pos(w, x)
  BY <1>7, Zenon DEF Pos
<1>9. \A x \in SN : Pos(w, x) \in Int /\ (x = w.mVTS <=> Pos(w, x) = n)
  BY PosType, PosEqual, PduSnType DEF n
<1>10. Pos(v, v.mVTS) = n + 1 /\ Pos(w, w.mVTS) = n
  BY <1>3, <1>7, <1>8 DEF n
<1>11. ASSUME NEW x \in SN PROVE InWindow(v, x) <=> InWindow(w, x) \/ x = w.mVTS
  <2>1. Pos(v, x) = Pos(w, x) /\ Pos(w, x) \in Int /\ (x = w.mVTS <=> Pos(w, x) = n)
    BY <1>8, <1>9
  <2> QED BY <1>2, <1>10, <2>1, SMT DEF InWindow
<1>12. ASSUME NEW x \in SN, InWindow(w, x) PROVE Text(v, x) = Text(w, x) /\ x # v.mVTS
  <2>1. Pos(w, x) < n /\ Pos(w, x) \in Int /\ Pos(w, x) = Pos(v, x)
    BY <1>8, <1>9, <1>12 DEF InWindow, n
  <2>2. x # w.mVTS /\ x # v.mVTS
    BY <1>2, <1>9, <1>10, <2>1, SMT
  <2> QED BY <1>5, <1>7, <2>2, Zenon DEF Text
<1>13. Text(v, w.mVTS) = payload
  BY <1>5, <1>6, <1>7, PduSnType, Zenon DEF Text
<1>14. v.mVTS # w.mVTS
  BY <1>2, <1>8, <1>10, SMT
<1>15. \A x \in SN : ~ (InWindow(v, x) /\ Pos(v, v.mVTS) <= Pos(v, x))
  BY <1>2, <1>8, <1>9, <1>10, SMT DEF InWindow
<1> QED BY <1>1, <1>7, <1>8, <1>11, <1>12, <1>13, <1>14, <1>15 DEF v

LEMMA NewDataFlows ==
  ASSUME NEW w \in Window, SenderOk(w), ~stalled(w), NEW s \in Source, NEW wr,
         NEW r \in Rx, NEW u, NEW dq \in Seq(Pdu), NEW sq,
         Aligned(w, r, dq, sq), Flows(w, s, r, u, dq, wr)
  PROVE  LET v == getDataPdu(w, FilledPayload(s))
         IN  v \in Window /\ SenderOk(v) /\ Flows(v, fillPduData(s), r, u, dq, wr)
<1> DEFINE p == FilledPayload(s)
           t == fillPduData(s)
           v == getDataPdu(w, p)
<1>1. p \in Payload /\ t \in Source
  BY FilledPayloadType, FillPduDataType
<1> HIDE DEF p, t, v
<1>2. /\ v \in Window /\ SenderOk(v)
      /\ v.mVTS = incSN(w.mVTS) /\ v.mVTS # w.mVTS
      /\ \A x : Pos(v, x) = Pos(w, x)
      /\ \A x \in SN : InWindow(v, x) <=> InWindow(w, x) \/ x = w.mVTS
      /\ \A x \in SN : InWindow(w, x) => Text(v, x) = Text(w, x) /\ x # v.mVTS
      /\ Text(v, w.mVTS) = p
      /\ \A x \in SN : ~ (InWindow(v, x) /\ Pos(v, v.mVTS) <= Pos(v, x))
  BY <1>1, NewDataWindow DEF v
<1>3. SourceOk(s, wr) /\ TextOk(w, s, wr) /\ HeardOk(w, r, dq) /\ UpperAt(w, s, u, wr, r.mVRR)
  BY DEF Flows
<1>4. /\ SourceOk(t, wr)
      /\ Cut(s) = CutBefore(p) /\ Cut(t) = CutAfter(p)
      /\ \A id : InSource(t, id) \/ Carries(p, id) => InSource(s, id)
      /\ p.end <=> EndsSdu(p.data) /\ ~p.data.sdu.exact
      /\ p.data # NoSdu =>
           /\ Known(wr, p.data.sdu)
           /\ 1 <= p.data.part /\ p.data.part <= p.data.sdu.pdus
           /\ p.start => p.data.part = 1
           /\ \A id : InSource(t, id) =>
                p.data.sdu.id <= id /\ (EndsSdu(p.data) => p.data.sdu.id < id)
  BY <1>3, FilledOk DEF p, t
<1>5. ASSUME NEW sn \in SN, InWindow(w, sn) \/ sn = w.mVTS
      PROVE  /\ CutAt(v, t, sn) = CutAt(w, s, sn)
             /\ \A id : Comes(v, t, sn, id) => Comes(w, s, sn, id)
  <2>1. CutAt(v, t, sn) = CutAt(w, s, sn)
    <3>1. CASE sn = w.mVTS
      BY <1>2, <1>4, <3>1, Zenon DEF CutAt
    <3>2. CASE InWindow(w, sn)
      BY <1>2, <3>2, NextInWindow, Zenon DEF CutAt
    <3> QED BY <1>5, <3>1, <3>2
  <2>2. ASSUME NEW id, Comes(v, t, sn, id) PROVE Comes(w, s, sn, id)
    <3>1. CASE InSource(t, id)
      BY <1>4, <3>1 DEF Comes
    <3>2. ASSUME NEW x \in SN, InWindow(v, x), Pos(v, sn) <= Pos(v, x), Carries(Text(v, x), id)
          PROVE  Comes(w, s, sn, id)
      <4>1. CASE x = w.mVTS
        BY <1>2, <1>4, <3>2, <4>1, Zenon DEF Comes
      <4>2. CASE InWindow(w, x)
        <5>1. Pos(w, sn) <= Pos(w, x) /\ Carries(Text(w, x), id)
          BY <1>2, <3>2, <4>2
        <5> QED BY <4>2, <5>1 DEF Comes
      <4> QED BY <1>2, <3>2, <4>1, <4>2
    <3> QED BY <2>2, <3>1, <3>2 DEF Comes
  <2> QED BY <2>1, <2>2
<1>6. ASSUME NEW sn \in SN, InWindow(v, sn) PROVE SegmentOk(v, t, wr, sn)
  <2>1. CASE InWindow(w, sn)
    <3>1. incSN(sn) \in SN /\ (InWindow(w, incSN(sn)) \/ incSN(sn) = w.mVTS)
      BY <2>1, NextInWindow
    <3>2. /\ CutAt(v, t, incSN(sn)) = CutAt(w, s, incSN(sn))
          /\ \A id : Comes(v, t, incSN(sn), id) => Comes(w, s, incSN(sn), id)
      BY <1>5, <3>1
    <3>3. SegmentOk(w, s, wr, sn) /\ Text(v, sn) = Text(w, sn)
      BY <1>2, <1>3, <2>1 DEF TextOk
    <3> QED BY <3>2, <3>3, Zenon DEF SegmentOk
  <2>2. CASE sn = w.mVTS
    <3>1. incSN(sn) = v.mVTS /\ Text(v, sn) = p
      BY <1>2, <2>2
    <3>2. CutAt(v, t, incSN(sn)) = CutAfter(p)
      BY <1>4, <3>1, Zenon DEF CutAt
    <3>3. \A id : Comes(v, t, incSN(sn), id) => InSource(t, id)
      BY <1>2, <3>1, Zenon DEF Comes
    <3> QED BY <1>4, <3>1, <3>2, <3>3, Zenon DEF SegmentOk
  <2> QED BY <1>2, <1>6, <2>1, <2>2
<1>7. HeardOk(v, r, dq)
  <2>1. ASSUME NEW sn \in SN, r.mPduRxQ[sn] # NoPdu PROVE r.mPduRxQ[sn] = Text(v, sn)
    <3>1. InWindow(w, sn)
      BY <2>1, ReceiverInWindow DEF Aligned
    <3>2. r.mPduRxQ[sn] = Text(w, sn)
      BY <1>3, <2>1 DEF HeardOk
    <3> QED BY <1>2, <3>1, <3>2
  <2>2. ASSUME NEW i \in 1 .. Len(dq), dq[i].type = "DATA", 0 <= Pos(v, dq[i].sn)
        PROVE  dq[i].payload = Text(v, dq[i].sn)
    <3>1. dq[i].sn \in SN /\ 0 <= Pos(w, dq[i].sn)
      BY <1>2, <2>2, PduNumbers
    <3>2. InWindow(w, dq[i].sn)
      BY <2>2, <3>1 DEF Aligned, DataOk, InWindow
    <3>3. dq[i].payload = Text(w, dq[i].sn)
      BY <1>3, <2>2, <3>1, Zenon DEF HeardOk
    <3> QED BY <1>2, <3>1, <3>2, <3>3
  <2> QED BY <2>1, <2>2 DEF HeardOk
<1>8. UpperAt(v, t, u, wr, r.mVRR)
  <2>1. r.mVRR \in SN /\ (InWindow(w, r.mVRR) \/ r.mVRR = w.mVTS)
    BY ReceiverInWindow DEF Aligned
  <2>2. /\ CutAt(v, t, r.mVRR) = CutAt(w, s, r.mVRR)
        /\ \A id : Comes(v, t, r.mVRR, id) => Comes(w, s, r.mVRR, id)
    BY <1>5, <2>1
  <2> QED BY <1>3, <2>2, Zenon DEF UpperAt
<1> QED BY <1>2, <1>4, <1>6, <1>7, <1>8 DEF Flows, TextOk, v, t, p

-----------------------------------------------------------------------------
(* Reassembly.                                                             *)

LEMMA PartType ==
  ASSUME NEW sdu \in Sdu, NEW k \in Nat
  PROVE  /\ Part(sdu, k) \in Seq(Segment) /\ Len(Part(sdu, k)) = k
         /\ k = 0 => Part(sdu, k) = <<>>
         /\ k # 0 => Part(sdu, k) # <<>>
<1>1. \A n \in 1 .. k : [sdu |-> sdu, part |-> n] \in Segment
  BY SMT DEF Segment
<1>2. Part(sdu, k) \in Seq(Segment) /\ Len(Part(sdu, k)) = k
  BY <1>1, SMT DEF Part
<1>3. Len(Part(sdu, k)) # 0 <=> Part(sdu, k) # <<>>
  BY <1>2, EmptySeq
<1> QED BY <1>2, <1>3

LEMMA PartAppend ==
  ASSUME NEW sdu \in Sdu, NEW k \in Nat, 1 <= k
  PROVE  Append(Part(sdu, k - 1), [sdu |-> sdu, part |-> k]) = Part(sdu, k)
<1> DEFINE p == Part(sdu, k - 1)
           g == [sdu |-> sdu, part |-> k]
           t == Append(p, g)
<1>1. k - 1 \in Nat
  BY SMT
<1>2. p \in Seq(Segment) /\ Len(p) = k - 1
  BY <1>1, PartType
<1>3. g \in Segment
  BY SMT DEF Segment
<1>4. Part(sdu, k) \in Seq(Segment) /\ Len(Part(sdu, k)) = k
  BY PartType
<1>5. \A n \in 1 .. (k - 1) : p[n] = [sdu |-> sdu, part |-> n]
  BY DEF Part
<1>6. \A n \in 1 .. k : Part(sdu, k)[n] = [sdu |-> sdu, part |-> n]
  BY DEF Part
<1> HIDE DEF p, g
<1>7. /\ t \in Seq(Segment) /\ Len(t) = k
      /\ \A n \in 1 .. (k - 1) : t[n] = p[n]
      /\ t[k] = g
  BY <1>2, <1>3, AppendProperties, SMT
<1>8. ASSUME NEW n \in 1 .. k PROVE t[n] = Part(sdu, k)[n]
  <2>1. n \in 1 .. (k - 1) \/ n = k
    BY SMT
  <2> QED BY <1>5, <1>6, <1>7, <2>1 DEF g
<1> HIDE DEF t
<1> QED BY <1>4, <1>7, <1>8, SeqEqual DEF t, p, g

LEMMA UpperType ==
  ASSUME NEW u \in Upper
  PROVE  u.mUpSdu \in Seq(Segment) /\ u.delivered \in Seq(Seq(Segment))
BY Zenon DEF Upper

\* One more SDU is handed up.
LEMMA HandedAppend ==
  ASSUME NEW d \in Seq(Seq(Segment)), NEW wr, Handed(d, wr), NEW sdu, Known(wr, sdu),
         \A i \in 1 .. Len(d) : IdOf(d[i]) < sdu.id
  PROVE  LET e == Append(d, WholeSdu(sdu))
         IN  /\ e \in Seq(Seq(Segment)) /\ Handed(e, wr)
             /\ \A i \in 1 .. Len(e) : (\E j \in 1 .. Len(d) : e[i] = d[j]) \/ IdOf(e[i]) = sdu.id
<1> DEFINE x == WholeSdu(sdu)
           e == Append(d, x)
<1>1. sdu \in Sdu
  BY DEF Known
<1>2. x \in Seq(Segment)
  BY <1>1, SduType, PartType DEF WholeSdu, Part
<1>3. IdOf(x) = sdu.id
  BY <1>1, IdOfWhole
<1> HIDE DEF x
<1>4. /\ e \in Seq(Seq(Segment)) /\ Len(d) \in Nat /\ Len(e) = Len(d) + 1
      /\ \A i \in 1 .. Len(d) : e[i] = d[i]
      /\ e[Len(d) + 1] = x
  BY <1>2, AppendProperties, LenProperties, SMT
<1> HIDE DEF e
<1>5. \A i \in 1 .. Len(e) : i \in 1 .. Len(d) \/ i = Len(d) + 1
  BY <1>4, SMT
<1>6. \A i \in 1 .. Len(e) : \E y \in Sdu : Known(wr, y) /\ e[i] = WholeSdu(y)
  BY <1>1, <1>4, <1>5, Zenon DEF Handed, x
<1>7. ASSUME NEW i \in 1 .. Len(e), NEW j \in 1 .. Len(e), i < j
      PROVE  IdOf(e[i]) < IdOf(e[j])
  <2>1. i \in 1 .. Len(d)
    BY <1>4, <1>7, SMT
  <2>2. CASE j \in 1 .. Len(d)
    BY <1>4, <1>7, <2>1, <2>2, Zenon DEF Handed
  <2>3. CASE j = Len(d) + 1
    BY <1>3, <1>4, <2>1, <2>3
  <2> QED BY <1>5, <2>2, <2>3
<1>8. Handed(e, wr)
  BY <1>6, <1>7 DEF Handed
<1> QED BY <1>3, <1>4, <1>5, <1>8 DEF e, x

\* parsePduData takes the upper side over one PDU of the stream.
LEMMA ParsedNext ==
  ASSUME NEW w \in Window, SenderOk(w), NEW s, NEW wr, TextOk(w, s, wr),
         NEW sn \in SN, InWindow(w, sn), NEW u, UpperAt(w, s, u, wr, sn)
  PROVE  LET v == parsePduData(u, Text(w, sn))
             g == Text(w, sn).data
             d == HandedBy(u, CutAt(w, s, sn).mark)
         IN  /\ UpperAt(w, s, v, wr, incSN(sn))
             /\ HandedBy(v, CutAt(w, s, incSN(sn)).mark)
                  = IF EndsSdu(g) THEN Append(d, WholeSdu(g.sdu)) ELSE d
             /\ v.delivered = d \/ (EndsSdu(g) /\ v.delivered = Append(d, WholeSdu(g.sdu)))
             /\ u \in Upper /\ d \in Seq(Seq(Segment))
             /\ EndsSdu(g) => Append(d, WholeSdu(g.sdu)) \in Seq(Seq(Segment)) /\ g.sdu \in Sdu
<1> DEFINE p == Text(w, sn)
           g == p.data
           c == CutAt(w, s, sn)
           d == HandedBy(u, c.mark)
           n == CutAt(w, s, incSN(sn))
           v == parsePduData(u, p)
           started == IF p.start /\ u.mUpSdu # <<>> THEN sendSdu(u) ELSE u
           added == IF g = NoSdu THEN started ELSE addUpSdu(started, g)
<1>1. p \in Payload
  BY WindowText
<1>2. /\ p.start \in BOOLEAN /\ p.end \in BOOLEAN
      /\ g # NoSdu => /\ g \in Segment /\ g.sdu \in Sdu /\ g.part \in Nat
                      /\ g = [sdu |-> g.sdu, part |-> g.part]
  BY <1>1, PayloadType
<1>3. /\ incSN(sn) \in SN /\ Pos(w, incSN(sn)) = Pos(w, sn) + 1 /\ sn # w.mVTS
  BY NextInWindow
<1>4. c = CutBefore(p)
  BY <1>3, Zenon DEF CutAt
<1>5. /\ n = CutAfter(p)
      /\ p.end <=> EndsSdu(g) /\ ~g.sdu.exact
      /\ g # NoSdu =>
           /\ Known(wr, g.sdu)
           /\ 1 <= g.part /\ g.part <= g.sdu.pdus
           /\ p.start => g.part = 1
           /\ \A id \in Nat : Comes(w, s, incSN(sn), id) =>
                g.sdu.id <= id /\ (EndsSdu(g) => g.sdu.id < id)
  BY Zenon DEF TextOk, SegmentOk
<1>6. /\ u \in Upper /\ Handed(d, wr)
      /\ \A i \in 1 .. Len(d) : \A id \in Nat : Comes(w, s, sn, id) => IdOf(d[i]) < id
      /\ c.split # NoSdu => ~c.mark /\ u.mUpSdu = Part(c.split.sdu, c.split.part)
      /\ c.split = NoSdu /\ ~c.mark => u.mUpSdu = <<>>
      /\ c.mark => u.mUpSdu # <<>>
  BY Zenon DEF UpperAt
<1>7. c.mark = p.start /\ c.split = IF g = NoSdu \/ g.part = 1 THEN NoSdu
                                     ELSE [sdu |-> g.sdu, part |-> g.part - 1]
  BY <1>4 DEF CutBefore
<1>8. \A id \in Nat : Comes(w, s, incSN(sn), id) => Comes(w, s, sn, id)
  <2>1. \A x \in SN : Pos(w, incSN(sn)) <= Pos(w, x) => Pos(w, sn) <= Pos(w, x)
    BY <1>3, PosType, SMT
  <2> QED BY <2>1, Zenon DEF Comes
<1>9. g # NoSdu => Comes(w, s, sn, g.sdu.id)
  <2>1. Pos(w, sn) <= Pos(w, sn)
    BY PosType, SMT
  <2> QED BY <2>1, Zenon DEF Comes, Carries
<1>10. v = IF p.end THEN sendSdu(added) ELSE added
  BY Zenon DEF parsePduData
<1>11. n.split = (IF EndsSdu(g) THEN NoSdu ELSE g) /\ n.mark = (EndsSdu(g) /\ g.sdu.exact)
  BY <1>5 DEF CutAfter
<1>12. EndsSdu(g) <=> g # NoSdu /\ g.part >= g.sdu.pdus
  BY DEF EndsSdu
<1> HIDE DEF p, c, d, n, v, added, started
<1>13. u.mUpSdu \in Seq(Segment) /\ u.delivered \in Seq(Seq(Segment))
       /\ u = [mUpSdu |-> u.mUpSdu, delivered |-> u.delivered]
  BY <1>6, UpperType, Zenon DEF Upper
\* What is in progress when the octets of the PDU come.
<1>14. /\ started \in Upper /\ started.delivered = d
       /\ g = NoSdu => started.mUpSdu = <<>>
       /\ g # NoSdu => started.mUpSdu = Part(g.sdu, g.part - 1)
  <2>1. CASE p.start
    <3>1. started = sendSdu(u) /\ d = Append(u.delivered, u.mUpSdu)
      BY <1>6, <1>7, <2>1, Zenon DEF started, d, HandedBy
    <3>2. sendSdu(u) = [u EXCEPT !.delivered = Append(u.delivered, u.mUpSdu), !.mUpSdu = <<>>]
      BY Zenon DEF sendSdu
    <3>3. Append(u.delivered, u.mUpSdu) \in Seq(Seq(Segment)) /\ <<>> \in Seq(Segment)
      BY <1>13, AppendProperties, EmptySeq
    <3>4. started.delivered = d /\ started.mUpSdu = <<>> /\ started \in Upper
      BY <1>6, <3>1, <3>2, <3>3, Zenon DEF Upper
    <3>5. g # NoSdu => Part(g.sdu, g.part - 1) = <<>>
      <4> SUFFICES ASSUME g # NoSdu PROVE Part(g.sdu, g.part - 1) = <<>>
        OBVIOUS
      <4>1. g.part = 1 /\ g.sdu \in Sdu
        BY <1>2, <1>5, <2>1
      <4>2. g.part - 1 = 0 /\ 0 \in Nat
        BY <4>1, SMT
      <4> QED BY <4>1, <4>2, PartType
    <3> QED BY <3>4, <3>5
  <2>2. CASE ~p.start
    <3>1. started = u /\ d = u.delivered
      BY <1>7, <2>2, Zenon DEF started, d, HandedBy
    <3>2. CASE g = NoSdu
      BY <1>6, <1>7, <2>2, <3>1, <3>2, Zenon
    <3>3. CASE g # NoSdu /\ g.part = 1
      <4>1. g.part - 1 = 0 /\ 0 \in Nat
        BY <3>3, SMT
      <4>2. Part(g.sdu, g.part - 1) = <<>>
        BY <1>2, <3>3, <4>1, PartType
      <4> QED BY <1>6, <1>7, <2>2, <3>1, <3>3, <4>2, Zenon
    <3>4. CASE g # NoSdu /\ g.part # 1
      <4> DEFINE y == [sdu |-> g.sdu, part |-> g.part - 1]
      <4>1. c.split = y /\ y.sdu = g.sdu /\ y.part = g.part - 1
        BY <1>7, <3>4, Zenon
      <4>2. g.part - 1 \in Nat
        BY <1>2, <1>5, <3>4, SMT
      <4>3. y \in Segment
        BY <1>2, <3>4, <4>2, Zenon DEF Segment
      <4>4. c.split # NoSdu
        BY <4>1, <4>3, NullAssumption
      <4> QED BY <1>6, <3>1, <3>4, <4>1, <4>4, Zenon
    <3> QED BY <3>2, <3>3, <3>4
  <2> QED BY <1>2, <2>1, <2>2
<1>15. /\ added \in Upper /\ added.delivered = d
       /\ g = NoSdu => added.mUpSdu = <<>>
       /\ g # NoSdu => added.mUpSdu = Part(g.sdu, g.part) /\ added.mUpSdu # <<>>
  <2>1. CASE g = NoSdu
    BY <1>14, <2>1, Zenon DEF added
  <2>2. CASE g # NoSdu
    <3> DEFINE q == Append(started.mUpSdu, g)
    <3>1. added = [started EXCEPT !.mUpSdu = q]
      BY <2>2, Zenon DEF added, addUpSdu
    <3>2. q = Part(g.sdu, g.part)
      BY <1>2, <1>5, <1>14, <2>2, PartAppend
    <3>3. Part(g.sdu, g.part) \in Seq(Segment) /\ Part(g.sdu, g.part) # <<>>
      <4>1. g.part # 0 /\ g.part \in Nat /\ g.sdu \in Sdu
        BY <1>2, <1>5, <2>2, SMT
      <4> QED BY <4>1, PartType
    <3> HIDE DEF q
    <3> QED BY <1>14, <2>2, <3>1, <3>2, <3>3, Zenon DEF Upper
  <2> QED BY <2>1, <2>2
\* The SDU that ends with the PDU.
<1> DEFINE x == WholeSdu(g.sdu)
           e == Append(d, x)
<1>16. d \in Seq(Seq(Segment))
  BY <1>15, UpperType
<1>17. ASSUME EndsSdu(g)
       PROVE  /\ added.mUpSdu = x /\ x # <<>>
              /\ e \in Seq(Seq(Segment)) /\ Handed(e, wr)
              /\ \A i \in 1 .. Len(e) : \A id \in Nat : Comes(w, s, incSN(sn), id) => IdOf(e[i]) < id
  <2>1. /\ g # NoSdu /\ g.sdu \in Sdu /\ g.part \in Nat /\ Known(wr, g.sdu)
        /\ g.part >= g.sdu.pdus /\ g.part <= g.sdu.pdus
    BY <1>2, <1>5, <1>12, <1>17
  <2>2. g.sdu.pdus \in Nat /\ g.sdu.id \in Nat
    BY <2>1, SduType
  <2>3. g.part = g.sdu.pdus
    BY <2>1, <2>2, SMT
  <2>4. added.mUpSdu = x /\ x # <<>>
    BY <1>15, <2>1, <2>3 DEF Part, WholeSdu
  <2>5. \A i \in 1 .. Len(d) : IdOf(d[i]) < g.sdu.id
    BY <1>6, <1>9, <2>1, <2>2
  <2>6. /\ e \in Seq(Seq(Segment)) /\ Handed(e, wr)
        /\ \A i \in 1 .. Len(e) : (\E j \in 1 .. Len(d) : e[i] = d[j]) \/ IdOf(e[i]) = g.sdu.id
    BY <1>6, <1>16, <2>1, <2>5, HandedAppend
  <2> HIDE DEF x, e
  <2>7. ASSUME NEW i \in 1 .. Len(e), NEW id \in Nat, Comes(w, s, incSN(sn), id)
        PROVE  IdOf(e[i]) < id
    <3>1. CASE IdOf(e[i]) = g.sdu.id
      BY <1>5, <1>17, <2>1, <2>7, <3>1
    <3>2. ASSUME NEW j \in 1 .. Len(d), e[i] = d[j] PROVE IdOf(e[i]) < id
      BY <1>6, <1>8, <2>7, <3>2
    <3> QED BY <2>6, <3>1, <3>2
  <2> QED BY <2>4, <2>6, <2>7
<1> HIDE DEF x, e
<1>18. \A i \in 1 .. Len(d) : \A id \in Nat : Comes(w, s, incSN(sn), id) => IdOf(d[i]) < id
  BY <1>6, <1>8
<1>22. u \in Upper /\ (EndsSdu(g) => g.sdu \in Sdu)
  BY <1>2, <1>6, <1>12
<1>19. CASE p.end
  <2>1. EndsSdu(g) /\ n.split = NoSdu /\ ~n.mark
    BY <1>5, <1>11, <1>19
  <2>2. v = [added EXCEPT !.delivered = e, !.mUpSdu = <<>>]
    BY <1>10, <1>15, <1>17, <1>19, <2>1, Zenon DEF sendSdu, e
  <2>3. v \in Upper /\ v.delivered = e /\ v.mUpSdu = <<>>
    BY <1>15, <1>17, <2>1, <2>2, EmptySeq, Zenon DEF Upper
  <2>4. HandedBy(v, n.mark) = e
    BY <2>1, <2>3 DEF HandedBy
  <2>5. UpperAt(w, s, v, wr, incSN(sn))
    BY <1>17, <2>1, <2>3, <2>4, Zenon DEF UpperAt, n
  <2> QED BY <1>16, <1>17, <1>22, <2>1, <2>3, <2>4, <2>5 DEF v, p, d, c, n, g, e, x
<1>20. CASE ~p.end /\ EndsSdu(g)
  <2>1. g.sdu.exact /\ n.split = NoSdu /\ n.mark /\ v = added
    BY <1>5, <1>10, <1>11, <1>20
  <2>2. HandedBy(v, n.mark) = e
    BY <1>15, <1>17, <1>20, <2>1 DEF HandedBy, e
  <2>3. UpperAt(w, s, v, wr, incSN(sn))
    BY <1>15, <1>17, <1>20, <2>1, <2>2, Zenon DEF UpperAt, n
  <2> QED BY <1>15, <1>16, <1>17, <1>20, <1>22, <2>1, <2>2, <2>3 DEF v, p, d, c, n, g, e, x
<1>21. CASE ~p.end /\ ~EndsSdu(g)
  <2>1. n.split = g /\ ~n.mark /\ v = added
    BY <1>10, <1>11, <1>21
  <2>2. HandedBy(v, n.mark) = d
    BY <1>15, <2>1 DEF HandedBy
  <2>3. UpperAt(w, s, v, wr, incSN(sn))
    BY <1>6, <1>15, <1>18, <2>1, <2>2, Zenon DEF UpperAt, n
  <2> QED BY <1>15, <1>16, <1>21, <1>22, <2>1, <2>2, <2>3 DEF v, p, d, c, n, g
<1> QED BY <1>19, <1>20, <1>21

\* No SDU is skipped: one that is not handed up goes on in the next PDU.
LEMMA ParsedOnward ==
  ASSUME NEW w \in Window, SenderOk(w), NEW s, NEW wr, TextOk(w, s, wr),
         NEW sn \in SN, InWindow(w, sn), NEW u, UpperAt(w, s, u, wr, sn)
  PROVE  Onward(w, s, u, parsePduData(u, Text(w, sn)), wr, sn, incSN(sn))
<1> DEFINE g == Text(w, sn).data
           c == CutAt(w, s, sn)
           d == HandedBy(u, c.mark)
           n == CutAt(w, s, incSN(sn))
           v == parsePduData(u, Text(w, sn))
           e == HandedBy(v, n.mark)
           x == WholeSdu(g.sdu)
<1>1. /\ UpperAt(w, s, v, wr, incSN(sn))
      /\ e = IF EndsSdu(g) THEN Append(d, x) ELSE d
      /\ v.delivered = d \/ (EndsSdu(g) /\ v.delivered = Append(d, x))
      /\ u \in Upper /\ d \in Seq(Seq(Segment))
      /\ EndsSdu(g) => g.sdu \in Sdu
  BY ParsedNext
<1>2. /\ incSN(sn) \in SN /\ Pos(w, incSN(sn)) = Pos(w, sn) + 1
      /\ InWindow(w, incSN(sn)) \/ incSN(sn) = w.mVTS
  BY NextInWindow
<1>3. n.split = IF EndsSdu(g) THEN NoSdu ELSE g
  BY DEF TextOk, SegmentOk, CutAfter
<1> HIDE DEF g, n, v, e, x
<1>4. EndsSdu(g) => x \in Seq(Segment)
  BY <1>1, SduType, PartType DEF WholeSdu, Part, x
<1>5. /\ Len(d) \in Nat
      /\ EndsSdu(g) => /\ Len(Append(d, x)) = Len(d) + 1 /\ Append(d, x)[Len(d) + 1] = x
                       /\ \A i \in 1 .. Len(d) : Append(d, x)[i] = d[i]
  BY <1>1, <1>4, AppendProperties, LenProperties, SMT
<1>6. u.mUpSdu \in Seq(Segment) /\ u.delivered \in Seq(Seq(Segment))
  BY <1>1, UpperType
<1>7. Len(u.delivered) <= Len(v.delivered)
  <2>1. Len(u.delivered) \in Nat /\ Len(Append(u.delivered, u.mUpSdu)) = Len(u.delivered) + 1
    BY <1>6, AppendProperties, LenProperties
  <2>2. d = u.delivered \/ d = Append(u.delivered, u.mUpSdu)
    BY DEF HandedBy
  <2> HIDE DEF d
  <2>3. Len(u.delivered) <= Len(d)
    BY <2>1, <2>2, SMT
  <2>4. Len(v.delivered) = Len(d) \/ Len(v.delivered) = Len(d) + 1
    BY <1>1, <1>5
  <2> QED BY <1>5, <2>1, <2>3, <2>4, SMT
<1> HIDE DEF d, c
<1>8. /\ \A i \in 1 .. Len(d) : i \in 1 .. Len(e) /\ e[i] = d[i]
      /\ EndsSdu(g) => Len(d) + 1 \in 1 .. Len(e) /\ e[Len(d) + 1] = x
  BY <1>1, <1>5, SMT
<1>9. ASSUME NEW id \in 1 .. Len(wr),
             (\E i \in 1 .. Len(d) : IdOf(d[i]) = id) \/ Comes(w, s, sn, id)
      PROVE  (\E i \in 1 .. Len(e) : IdOf(e[i]) = id) \/ Comes(w, s, incSN(sn), id)
  <2>1. CASE \E i \in 1 .. Len(d) : IdOf(d[i]) = id
    BY <1>8, <2>1, Zenon
  <2>2. CASE InSource(s, id)
    BY <2>2 DEF Comes
  <2>3. ASSUME NEW y \in SN, InWindow(w, y), Pos(w, sn) <= Pos(w, y), Carries(Text(w, y), id),
               y # sn
        PROVE  Comes(w, s, incSN(sn), id)
    <3>1. Pos(w, y) \in Int /\ Pos(w, sn) \in Int /\ Pos(w, y) # Pos(w, sn)
      BY <2>3, PosType, PosEqual
    <3>2. Pos(w, incSN(sn)) <= Pos(w, y)
      BY <1>2, <2>3, <3>1, SMT
    <3> QED BY <2>3, <3>2, Zenon DEF Comes
  <2>4. CASE Carries(Text(w, sn), id)
    <3>1. g # NoSdu /\ g.sdu.id = id
      BY <2>4 DEF Carries, g
    <3>2. CASE EndsSdu(g)
      <4>1. IdOf(e[Len(d) + 1]) = id /\ Len(d) + 1 \in 1 .. Len(e)
        BY <1>1, <1>8, <3>1, <3>2, IdOfWhole DEF x
      <4> QED BY <4>1, Zenon
    <3>3. CASE ~EndsSdu(g) /\ incSN(sn) = w.mVTS
      <4>1. n = Cut(s)
        BY <3>3 DEF n, CutAt
      <4>2. s.mSplitSdu = g
        BY <1>3, <3>3, <4>1 DEF Cut
      <4> QED BY <3>1, <4>2, Zenon DEF Comes, InSource
    <3>4. CASE ~EndsSdu(g) /\ InWindow(w, incSN(sn))
      <4> DEFINE m == Text(w, incSN(sn))
      <4>1. n = CutBefore(m)
        BY <1>2, <3>4, NextInWindow DEF n, CutAt
      <4>2. n.split = IF m.data = NoSdu \/ m.data.part = 1 THEN NoSdu
                      ELSE [sdu |-> m.data.sdu, part |-> m.data.part - 1]
        BY <4>1 DEF CutBefore
      <4> HIDE DEF m
      <4>3. m.data # NoSdu /\ g = [sdu |-> m.data.sdu, part |-> m.data.part - 1]
        BY <1>3, <3>1, <3>4, <4>2
      <4>4. g.sdu = m.data.sdu
        BY <4>3
      <4>5. Carries(m, id)
        BY <3>1, <4>3, <4>4 DEF Carries
      <4>6. Pos(w, incSN(sn)) <= Pos(w, incSN(sn))
        BY <1>2, PosType, SMT
      <4> QED BY <1>2, <3>4, <4>5, <4>6, Zenon DEF Comes, m
    <3> QED BY <1>2, <3>2, <3>3, <3>4
  <2> QED BY <1>9, <2>1, <2>2, <2>3, <2>4 DEF Comes
<1>10. Complete(w, s, u, wr, sn) => Complete(w, s, v, wr, incSN(sn))
  BY <1>9, Zenon DEF Complete, d, c, e, n
<1> QED BY <1>1, <1>7, <1>10 DEF Onward, v

\* ParsedInSequence parses the stored PDUs one after the other.
LEMMA ParsedSteps ==
  ASSUME NEW r \in Rx, NEW u
  PROVE  \E f : /\ f[0] = u /\ ParsedInSequence(r, u) = f[InSequence(r)]
                /\ \A n \in 1 .. mSNS :
                     f[n] = parsePduData(f[n - 1], r.mPduRxQ[addSN(r.mVRR, n - 1)])
<1> DEFINE step(v, n) == parsePduData(v, r.mPduRxQ[addSN(r.mVRR, n - 1)])
           Parses(f, N) == f = [n \in 0 .. N |-> IF n = 0 THEN u ELSE step(f[n - 1], n)]
           T == {N \in 0 .. mSNS : ~ \E f : Parses(f, N)}
<1>0. mSNS \in Nat
  BY SNSAssumption
<1> HIDE DEF step
<1>1. T = {}
  <2> SUFFICES ASSUME T # {} PROVE FALSE
    OBVIOUS
  <2>1. T \in SUBSET Nat
    BY <1>0, SMT
  <2>2. PICK N \in T : \A M \in T : N <= M
    <3> HIDE DEF T
    <3> QED BY <2>1, NatMin
  <2>3. N \in Nat /\ N <= mSNS /\ ~ \E f : Parses(f, N)
    BY <1>0, <2>2, SMT
  <2>4. CASE N = 0
    <3> DEFINE f == [n \in 0 .. 0 |-> u]
    <3>1. f = [n \in 0 .. 0 |-> IF n = 0 THEN u ELSE step(f[n - 1], n)]
      BY SMT
    <3> QED BY <2>3, <2>4, <3>1
  <2>5. CASE N # 0
    <3>1. N - 1 \in 0 .. mSNS /\ N - 1 < N
      BY <1>0, <2>3, <2>5, SMT
    <3>2. N - 1 \notin T
      BY <2>1, <2>2, <2>3, <3>1, SMT
    <3>3. PICK f : Parses(f, N - 1)
      BY <3>1, <3>2
    <3> DEFINE g == [n \in 0 .. N |-> IF n = N THEN step(f[N - 1], N) ELSE f[n]]
    <3>4. \A n \in 0 .. N : n # N => n \in 0 .. (N - 1)
      BY <2>3, SMT
    <3>5. \A n \in 0 .. N : n # 0 => n - 1 \in 0 .. N /\ n - 1 # N
      BY <2>3, SMT
    <3>6. \A n \in 0 .. N : g[n] = IF n = 0 THEN u ELSE step(g[n - 1], n)
      <4> SUFFICES ASSUME NEW n \in 0 .. N
                   PROVE  g[n] = IF n = 0 THEN u ELSE step(g[n - 1], n)
        OBVIOUS
      <4>1. n # 0 => g[n - 1] = f[n - 1]
        BY <3>5, Zenon
      <4>2. CASE n = N
        <5>1. g[n] = step(f[n - 1], n)
          BY <4>2, Zenon
        <5> HIDE DEF g
        <5> QED BY <2>5, <4>1, <4>2, <5>1, Zenon
      <4>3. CASE n # N
        <5>1. g[n] = f[n]
          BY <4>3, Zenon
        <5>2. n \in 0 .. (N - 1)
          BY <3>4, <4>3
        <5> HIDE DEF g
        <5>3. f[n] = IF n = 0 THEN u ELSE step(f[n - 1], n)
          BY <3>3, <5>2, Zenon
        <5> QED BY <4>1, <5>1, <5>3, Zenon
      <4> QED BY <4>2, <4>3
    <3>7. g = [n \in 0 .. N |-> g[n]]
      BY Zenon
    <3> HIDE DEF g
    <3>8. Parses(g, N)
      BY <3>6, <3>7, Zenon
    <3> QED BY <2>3, <3>8
  <2> QED BY <2>4, <2>5
<1> DEFINE p == CHOOSE f : Parses(f, mSNS)
<1>2. mSNS \in 0 .. mSNS
  BY <1>0, SMT
<1>3. \E f : Parses(f, mSNS)
  BY <1>1, <1>2
<1>4. Parses(p, mSNS)
  BY <1>3, Zenon
<1>5. ParsedInSequence(r, u) = p[InSequence(r)]
  BY Zenon DEF ParsedInSequence, step
<1> HIDE DEF p
<1>6. p[0] = u
  <2>1. 0 \in 0 .. mSNS
    BY <1>0, SMT
  <2> QED BY <1>4, <2>1, Zenon
<1>7. \A n \in 1 .. mSNS : p[n] = step(p[n - 1], n)
  <2>1. \A n \in 1 .. mSNS : n \in 0 .. mSNS /\ n # 0
    BY <1>0, SMT
  <2> QED BY <1>4, <2>1, Zenon
<1> QED BY <1>5, <1>6, <1>7, Zenon DEF step

LEMMA OnwardSame ==
  ASSUME NEW w, NEW s, NEW u, NEW wr, NEW sn, UpperAt(w, s, u, wr, sn)
  PROVE  Onward(w, s, u, u, wr, sn, sn)
<1>1. Len(u.delivered) <= Len(u.delivered)
  BY UpperType, LenProperties, SMT DEF UpperAt
<1> QED BY <1>1 DEF Onward

\* The loop that ends rlcWriteLowSide takes the SDUs up to the new mVRR.
LEMMA ParsedUpper ==
  ASSUME NEW w \in Window, SenderOk(w), NEW r \in Rx, ReceiverOk(w, r),
         NEW s, NEW wr, TextOk(w, s, wr), NEW u, UpperAt(w, s, u, wr, r.mVRR),
         \A sn \in SN : r.mPduRxQ[sn] # NoPdu => r.mPduRxQ[sn] = Text(w, sn)
  PROVE  Onward(w, s, u, ParsedInSequence(r, u), wr, r.mVRR, advanceVRR(r).mVRR)
<1> DEFINE N == InSequence(r)
           rr == Pos(w, r.mVRR)
           at(n) == addSN(r.mVRR, n)
<1>1. /\ rr \in Int /\ 0 <= rr /\ r.mVRR \in SN
      /\ Pos(w, r.mVRH) \in Int /\ Pos(w, r.mVRH) <= W
      /\ W \in Nat /\ W < Half /\ Half \in Nat
  BY ReceiverPos
<1>2. N \in Nat /\ N <= Pos(w, r.mVRH) - rr
  BY InSequenceFits
<1>3. N \in 0 .. mSNS /\ \A i \in 0 .. (N - 1) : r.mPduRxQ[at(i)] # NoPdu
  BY InSequenceMaximal
<1>4. PICK f : /\ f[0] = u /\ ParsedInSequence(r, u) = f[N]
               /\ \A n \in 1 .. mSNS : f[n] = parsePduData(f[n - 1], r.mPduRxQ[at(n - 1)])
  BY ParsedSteps
<1> HIDE DEF N, rr
<1>5. ASSUME NEW n \in 0 .. N PROVE at(n) \in SN /\ Pos(w, at(n)) = rr + n
  <2>1. n \in Nat /\ -W <= rr /\ rr + n <= W
    BY <1>1, <1>2, SMT
  <2> QED BY <1>1, <2>1, PosAdd DEF rr
<1>6. \A n \in 0 .. N : Onward(w, s, u, f[n], wr, r.mVRR, at(n))
  <2> DEFINE T == {n \in 0 .. N : ~Onward(w, s, u, f[n], wr, r.mVRR, at(n))}
  <2> SUFFICES ASSUME T # {} PROVE FALSE
    OBVIOUS
  <2>1. T \in SUBSET Nat
    BY <1>2, SMT
  <2>2. PICK n \in T : \A m \in T : n <= m
    <3> HIDE DEF T
    <3> QED BY <2>1, NatMin
  <2>3. n \in 0 .. N /\ n \in Nat /\ ~Onward(w, s, u, f[n], wr, r.mVRR, at(n))
    BY <2>1, <2>2
  <2>4. CASE n = 0
    <3>1. at(0) \in SN /\ Pos(w, at(0)) = rr
      BY <1>1, <1>5, <2>3, <2>4, SMT
    <3>2. at(0) = r.mVRR
      BY <1>1, <3>1, PosEqual DEF rr
    <3>3. Onward(w, s, u, u, wr, r.mVRR, r.mVRR)
      BY OnwardSame
    <3> QED BY <1>4, <2>3, <2>4, <3>2, <3>3
  <2>5. CASE n # 0
    <3> DEFINE m == n - 1
               x == at(m)
    <3>1. /\ m \in 0 .. (N - 1) /\ m \in 0 .. N /\ m < n /\ m \in Int /\ n = m + 1
          /\ n \in 1 .. mSNS
      BY <1>2, <1>3, <2>3, <2>5, SNSAssumption, SMT
    <3>2. m \notin T
      BY <2>2, <2>3, <3>1, SMT
    <3>3. Onward(w, s, u, f[m], wr, r.mVRR, x)
      BY <3>1, <3>2
    <3>4. x \in SN /\ Pos(w, x) = rr + m /\ r.mPduRxQ[x] # NoPdu
      BY <1>3, <1>5, <3>1
    <3>5. at(n) \in SN /\ Pos(w, at(n)) = rr + n
      BY <1>5, <2>3
    <3>6. f[n] = parsePduData(f[m], r.mPduRxQ[x])
      BY <1>4, <3>1
    <3> HIDE DEF m, x, T, at
    <3>7. InWindow(w, x) /\ r.mPduRxQ[x] = Text(w, x)
      BY <3>4, ReceiverInWindow
    <3>8. incSN(x) \in SN /\ Pos(w, incSN(x)) = Pos(w, x) + 1
      BY <3>4, <3>7, NextInWindow
    <3>9. Pos(w, incSN(x)) = Pos(w, at(n))
      BY <1>1, <3>1, <3>4, <3>5, <3>8, SMT
    <3>10. incSN(x) = at(n)
      BY <3>5, <3>8, <3>9, PosEqual
    <3> DEFINE v == parsePduData(f[m], Text(w, x))
    <3>11. Onward(w, s, f[m], v, wr, x, incSN(x))
      BY <3>3, <3>4, <3>7, ParsedOnward DEF Onward
    <3>12. Onward(w, s, u, v, wr, r.mVRR, incSN(x))
      <4> HIDE DEF v
      <4>1. UpperAt(w, s, f[m], wr, x) /\ UpperAt(w, s, v, wr, incSN(x))
        BY <3>3, <3>11 DEF Onward
      <4>2. /\ Len(u.delivered) \in Nat /\ Len(f[m].delivered) \in Nat
            /\ Len(v.delivered) \in Nat
        BY <4>1, UpperType, LenProperties DEF UpperAt
      <4>3. Len(u.delivered) <= Len(v.delivered)
        BY <3>3, <3>11, <4>2, SMT DEF Onward
      <4> QED BY <3>3, <3>11, <4>3, Zenon DEF Onward
    <3> QED BY <2>3, <3>6, <3>7, <3>10, <3>12
  <2> QED BY <2>4, <2>5
<1>7. advanceVRR(r).mVRR = at(N)
  BY Zenon DEF advanceVRR, Rx, N
<1>8. N \in 0 .. N
  BY <1>2, SMT
<1> QED BY <1>4, <1>6, <1>7, <1>8

LEMMA HeardTail ==
  ASSUME NEW w, NEW r, NEW dq \in Seq(Pdu), dq # <<>>, HeardOk(w, r, dq)
  PROVE  HeardOk(w, r, Tail(dq))
<1>1. \A i \in 1 .. Len(Tail(dq)) : i + 1 \in 1 .. Len(dq) /\ Tail(dq)[i] = dq[i + 1]
  BY TailIndex
<1>2. ASSUME NEW i \in 1 .. Len(Tail(dq)), Tail(dq)[i].type = "DATA",
             0 <= Pos(w, Tail(dq)[i].sn)
      PROVE  Tail(dq)[i].payload = Text(w, Tail(dq)[i].sn)
  <2>1. i + 1 \in 1 .. Len(dq) /\ dq[i + 1].type = "DATA" /\ 0 <= Pos(w, dq[i + 1].sn)
    BY <1>1, <1>2
  <2>2. dq[i + 1].payload = Text(w, dq[i + 1].sn)
    BY <2>1, Zenon DEF HeardOk
  <2> QED BY <1>1, <2>2
<1> QED BY <1>2 DEF HeardOk

LEMMA HeardAppend ==
  ASSUME NEW w, NEW r, NEW dq \in Seq(Pdu), HeardOk(w, r, dq), NEW m \in Pdu,
         m.type = "DATA" => m.payload = Text(w, m.sn)
  PROVE  HeardOk(w, r, Append(dq, m))
<1>1. \A i \in 1 .. Len(Append(dq, m)) :
        (\E j \in 1 .. Len(dq) : Append(dq, m)[i] = dq[j]) \/ Append(dq, m)[i] = m
  BY AppendSays
<1>2. ASSUME NEW i \in 1 .. Len(Append(dq, m)), Append(dq, m)[i].type = "DATA",
             0 <= Pos(w, Append(dq, m)[i].sn)
      PROVE  Append(dq, m)[i].payload = Text(w, Append(dq, m)[i].sn)
  <2>1. CASE Append(dq, m)[i] = m
    BY <1>2, <2>1
  <2>2. ASSUME NEW j \in 1 .. Len(dq), Append(dq, m)[i] = dq[j]
        PROVE  dq[j].payload = Text(w, dq[j].sn)
    <3>1. dq[j].type = "DATA" /\ 0 <= Pos(w, dq[j].sn)
      BY <1>2, <2>2
    <3> QED BY <3>1, Zenon DEF HeardOk
  <2> QED BY <1>1, <2>1, <2>2
<1> QED BY <1>2 DEF HeardOk

\* The PDU at the head of the link, stored if it is wanted.
LEMMA StoredText ==
  ASSUME NEW w \in Window, SenderOk(w), NEW r \in Rx, ReceiverOk(w, r),
         NEW sn \in SN, NEW payload \in Payload, ~Unwanted(r, sn),
         Pos(w, r.mVRH) - W <= Pos(w, sn), Pos(w, sn) < Pos(w, w.mVTS),
         0 <= Pos(w, sn) => payload = Text(w, sn),
         \A x \in SN : r.mPduRxQ[x] # NoPdu => r.mPduRxQ[x] = Text(w, x)
  PROVE  LET st == Stored(r, sn, payload)
         IN  /\ st \in Rx /\ ReceiverOk(w, st) /\ st.mVRR = r.mVRR
             /\ \A x \in SN : st.mPduRxQ[x] # NoPdu => st.mPduRxQ[x] = Text(w, x)
<1> DEFINE st == Stored(r, sn, payload)
           q == [r.mPduRxQ EXCEPT ![sn] = payload]
           vrh == IF RaisesVRH(r, sn) THEN incSN(sn) ELSE r.mVRH
<1>1. st \in Rx /\ ReceiverOk(w, st) /\ st.mVRR = r.mVRR
  BY StoredOk
<1>2. st = [r EXCEPT !.mPduRxQ = q, !.mVRH = vrh]
  BY Zenon DEF Stored
<1>3. \A x \in SN : q[x] = IF x = sn THEN payload ELSE r.mPduRxQ[x]
  BY RxType, Zenon
<1>4. payload # NoPdu
  BY NullAssumption, Zenon
<1> HIDE DEF st, q, vrh
<1>5. st.mPduRxQ = q
  BY <1>2, Zenon DEF Rx
<1>6. InWindow(w, sn)
  BY <1>1, <1>3, <1>4, <1>5, ReceiverInWindow
<1>7. \A x \in SN : q[x] # NoPdu => q[x] = Text(w, x)
  BY <1>3, <1>6, Zenon DEF InWindow
<1> QED BY <1>1, <1>5, <1>7 DEF st

LEMMA DataReceivedFlows ==
  ASSUME NEW w \in Window, NEW s, NEW r \in Rx, NEW u, NEW dq \in Seq(Pdu), NEW sq,
         NEW wr, Aligned(w, r, dq, sq), dq # <<>>, Head(dq).type = "DATA",
         Flows(w, s, r, u, dq, wr)
  PROVE  LET m  == Head(dq)
             p  == PollSeen(r, m.poll)
             st == Stored(p, m.sn, m.payload)
             rr == IF Unwanted(p, m.sn) THEN p ELSE Accepted(st, m.sn)
             uu == IF Unwanted(p, m.sn) THEN u ELSE Delivered(st, u, m.sn)
         IN  Flows(w, s, rr, uu, Tail(dq), wr) /\ Onward(w, s, u, uu, wr, r.mVRR, rr.mVRR)
<1> DEFINE m == Head(dq)
           p == PollSeen(r, m.poll)
           st == Stored(p, m.sn, m.payload)
<1>1. /\ SenderOk(w) /\ ReceiverOk(w, r) /\ DataOk(w, r, dq)
      /\ SourceOk(s, wr) /\ TextOk(w, s, wr) /\ HeardOk(w, r, dq)
      /\ UpperAt(w, s, u, wr, r.mVRR)
  BY DEF Aligned, Flows
<1>2. 1 \in 1 .. Len(dq) /\ dq[1] = m /\ m.sn \in SN /\ m.payload \in Payload
  <2>1. 1 \in 1 .. Len(dq) /\ m = dq[1]
    BY HeadSays
  <2>2. m \in Data
    BY <2>1, LenProperties, ElementOfSeq, PduKinds
  <2> QED BY <2>1, <2>2, SMT DEF Data
<1>3. p \in Rx /\ ReceiverOk(w, p) /\ DataOk(w, p, dq)
  BY <1>1, PollSeenOk
<1>4. p.mVRR = r.mVRR /\ p.mPduRxQ = r.mPduRxQ
  BY Zenon DEF PollSeen, Rx
<1>5. HeardOk(w, p, Tail(dq)) /\ HeardOk(w, p, dq)
  <2> HIDE DEF p
  <2>1. HeardOk(w, p, dq)
    BY <1>1, <1>4 DEF HeardOk
  <2> QED BY <2>1, HeardTail
<1>6. CASE Unwanted(p, m.sn)
  <2>1. Onward(w, s, u, u, wr, r.mVRR, r.mVRR)
    BY <1>1, OnwardSame
  <2> QED BY <1>1, <1>4, <1>5, <1>6, <2>1 DEF Flows
<1>7. CASE ~Unwanted(p, m.sn)
  <2>1. /\ Pos(w, p.mVRH) - W <= Pos(w, m.sn) /\ Pos(w, m.sn) < Pos(w, w.mVTS)
        /\ 0 <= Pos(w, m.sn) => m.payload = Text(w, m.sn)
    BY <1>1, <1>2, <1>3, Zenon DEF DataOk, HeardOk, m
  <2>2. \A x \in SN : p.mPduRxQ[x] # NoPdu => p.mPduRxQ[x] = Text(w, x)
    BY <1>5 DEF HeardOk
  <2> HIDE DEF p, m
  <2>3. /\ st \in Rx /\ ReceiverOk(w, st) /\ st.mVRR = p.mVRR
        /\ \A x \in SN : st.mPduRxQ[x] # NoPdu => st.mPduRxQ[x] = Text(w, x)
    BY <1>1, <1>2, <1>3, <1>7, <2>1, <2>2, StoredText
  <2>4. \A x \in SN : Accepted(st, m.sn).mPduRxQ[x] # NoPdu =>
          Accepted(st, m.sn).mPduRxQ[x] = Text(w, x)
    <3> HIDE DEF st
    <3>1. CASE m.sn = st.mVRR
      <4> DEFINE n == InSequence(st)
                 q == [sn \in SN |-> IF Offset(st.mVRR, sn) < n
                                     THEN NoPdu ELSE st.mPduRxQ[sn]]
                 vrr == addSN(st.mVRR, n)
      <4>1. Accepted(st, m.sn) = [st EXCEPT !.mVRR = vrr, !.mPduRxQ = q]
        BY <3>1, Zenon DEF Accepted, advanceVRR
      <4>2. \A x \in SN : q[x] # NoPdu => q[x] = st.mPduRxQ[x]
        BY Zenon
      <4> HIDE DEF q, vrr
      <4>3. Accepted(st, m.sn).mPduRxQ = q
        BY <2>3, <4>1, Zenon DEF Rx
      <4> QED BY <2>3, <4>2, <4>3, Zenon
    <3>2. CASE m.sn # st.mVRR
      <4>1. Accepted(st, m.sn) = st
        BY <3>2 DEF Accepted
      <4> QED BY <2>3, <4>1
    <3> QED BY <3>1, <3>2
  <2>5. Onward(w, s, u, Delivered(st, u, m.sn), wr, r.mVRR, Accepted(st, m.sn).mVRR)
    <3> HIDE DEF st
    <3>1. UpperAt(w, s, u, wr, st.mVRR) /\ st.mVRR = r.mVRR
      BY <1>1, <1>4, <2>3
    <3>2. CASE m.sn = st.mVRR
      <4>1. Onward(w, s, u, ParsedInSequence(st, u), wr, st.mVRR, advanceVRR(st).mVRR)
        BY <1>1, <2>3, <3>1, ParsedUpper
      <4> QED BY <3>1, <3>2, <4>1 DEF Accepted, Delivered
    <3>3. CASE m.sn # st.mVRR
      BY <3>1, <3>3, OnwardSame DEF Accepted, Delivered
    <3> QED BY <3>2, <3>3
  <2> HIDE DEF st
  <2>6. HeardOk(w, Accepted(st, m.sn), Tail(dq))
    BY <1>5, <2>4, Zenon DEF HeardOk
  <2>7. UpperAt(w, s, Delivered(st, u, m.sn), wr, Accepted(st, m.sn).mVRR)
    BY <2>5 DEF Onward
  <2>8. Flows(w, s, Accepted(st, m.sn), Delivered(st, u, m.sn), Tail(dq), wr)
    BY <1>1, <2>6, <2>7 DEF Flows
  <2> QED BY <1>7, <2>5, <2>8 DEF st, p, m
<1> QED BY <1>6, <1>7

\* The flow of SDUs from a to its peer.
FlowTo(a) ==
  Flows(win[a], source[a], recv[Peer(a)], upper[Peer(a)], link[Peer(a)], written[a])

\* upper, of which TypeOK says nothing, is a function on the two ends.
Uppers == upper = [e \in Entity |-> upper[e]]

LEMMA FlowTypes ==
  ASSUME Inv, NEW a \in Entity
  PROVE  /\ Peer(a) \in Entity /\ Peer(a) # a /\ \A x \in Entity : x = a \/ x = Peer(a)
         /\ \A x \in Entity : /\ win[x] \in Window /\ recv[x] \in Rx /\ link[x] \in Seq(Pdu)
                              /\ ctl[x] \in Control /\ source[x] \in Source
                              /\ written[x] \in Seq(Sdu)
<1>1. \A x \in Entity : written[x] \in Seq(Sdu) /\ source[x] \in Source
  BY Zenon DEF Inv, TypeOK
<1> QED BY <1>1, EndTypes

\* The links change, by a PDU less or by one that stands for the text it should.
LEMMA HeardSent ==
  ASSUME Inv, NEW a \in Entity, NEW e \in Entity, NEW m \in Pdu, Send(e, m), NEW w, NEW r,
         HeardOk(w, r, link[Peer(a)]),
         e = a /\ m.type = "DATA" => m.payload = Text(w, m.sn)
  PROVE  HeardOk(w, r, link'[Peer(a)])
<1>1. CASE e = a
  <2>1. link'[Peer(a)] = Append(link[Peer(a)], m)
    BY <1>1, LinkSent, FlowTypes
  <2>2. link[Peer(a)] \in Seq(Pdu)
    BY FlowTypes
  <2> QED BY <1>1, <2>1, <2>2, HeardAppend
<1>2. CASE e # a
  <2>1. Peer(a) # Peer(e)
    BY <1>2, FlowTypes
  <2>2. link'[Peer(a)] = link[Peer(a)]
    BY <2>1, LinkSent, FlowTypes
  <2> QED BY <2>2
<1> QED BY <1>1, <1>2

LEMMA HeardTaken ==
  ASSUME Inv, NEW a \in Entity, NEW e \in Entity, link[e] # <<>>, Take(e), NEW w, NEW r,
         HeardOk(w, r, link[Peer(a)])
  PROVE  HeardOk(w, r, link'[Peer(a)])
<1>1. CASE e = Peer(a)
  <2>1. link'[Peer(a)] = Tail(link[Peer(a)]) /\ link[Peer(a)] \in Seq(Pdu)
    BY <1>1, LinkTaken, FlowTypes
  <2> QED BY <1>1, <2>1, HeardTail
<1>2. CASE e # Peer(a)
  <2>1. link'[Peer(a)] = link[Peer(a)]
    BY <1>2, LinkTaken, FlowTypes
  <2> QED BY <2>1
<1> QED BY <1>1, <1>2

LEMMA HeardEmitReset ==
  ASSUME Inv, NEW a \in Entity, NEW e \in Entity, EmitReset(e), NEW w, NEW r,
         HeardOk(w, r, link[Peer(a)])
  PROVE  HeardOk(w, r, link'[Peer(a)])
<1> DEFINE c == ResetStarted(ctl[e])
           msg == ResetMsg("RESET", c.mResetTransRSN)
<1>1. c.mResetTransRSN \in Nat
  BY FlowTypes, ResetStartedType, Zenon DEF Control
<1>2. msg \in Pdu /\ msg.type = "RESET"
  <2> HIDE DEF c
  <2>1. msg \in Pdu
    BY <1>1, ResetMsgType
  <2>2. msg.type = "RESET"
    BY DEF ResetMsg
  <2> QED BY <2>1, <2>2
<1>3. link' = link \/ Send(e, msg)
  BY Zenon DEF EmitReset
<1> HIDE DEF msg
<1>4. CASE Send(e, msg)
  <2>1. msg.type # "DATA"
    BY <1>2
  <2> QED BY <1>2, <1>4, <2>1, HeardSent
<1> QED BY <1>3, <1>4

\* A PDU leaves a link, read without effect on the data, or lost.
LEMMA TakenFlow ==
  ASSUME Inv, NEW a \in Entity, FlowTo(a), NEW e \in Entity, link[e] # <<>>, Take(e),
         UNCHANGED <<source, win, recv, upper, written>>
  PROVE  FlowTo(a)'
<1>1. HeardOk(win[a], recv[Peer(a)], link'[Peer(a)])
  BY HeardTaken DEF FlowTo, Flows
<1>2. Flows(win[a], source[a], recv[Peer(a)], upper[Peer(a)], link'[Peer(a)], written[a])
  BY <1>1 DEF FlowTo, Flows
<1> QED BY <1>2 DEF FlowTo

LEMMA WriteHighSideFlow ==
  ASSUME Inv, NEW a \in Entity, Two(a), FlowTo(a), NEW e \in Entity, NEW sdu \in Sdu,
         RlcWriteHighSide(e, sdu)
  PROVE  FlowTo(a)'
<1> DEFINE s == source[a]
           v == rlcWriteHighSide(source[a], sdu)
           wr == written[a]
           x == Append(written[a], sdu)
<1>1. UNCHANGED <<win, recv, upper, link>>
  BY Zenon DEF RlcWriteHighSide
<1>2. CASE e # a
  <2>1. source'[a] = source[a] /\ written'[a] = written[a]
    BY <1>2, Zenon DEF RlcWriteHighSide, Inv, TypeOK
  <2> QED BY <1>1, <2>1 DEF FlowTo
<1>3. CASE e = a
  <2>1. source'[a] = v /\ written'[a] = x /\ sdu.id = Len(wr) + 1
    BY <1>3, Zenon DEF RlcWriteHighSide, Inv, TypeOK
  <2>2. /\ SourceOk(s, wr) /\ TextOk(win[a], s, wr)
        /\ HeardOk(win[a], recv[Peer(a)], link[Peer(a)])
        /\ UpperAt(win[a], s, upper[Peer(a)], wr, recv[Peer(a)].mVRR)
    BY DEF FlowTo, Flows
  <2>3. /\ s \in Source /\ wr \in Seq(Sdu) /\ win[a] \in Window /\ SenderOk(win[a])
    BY FlowTypes DEF Two, Aligned
  <2>4. /\ SourceOk(v, x) /\ Cut(v) = Cut(s)
        /\ \A id : InSource(v, id) => InSource(s, id) \/ id = Len(wr) + 1
    BY <2>1, <2>2, <2>3, WriteHighSideSource
  <2> HIDE DEF v
  <2>5. \A y : Known(wr, y) => Known(x, y) /\ y.id <= Len(wr)
    BY <2>1, <2>3, KnownWrites
  <2>8. Len(wr) \in Nat
    BY <2>3, LenProperties
  <2> HIDE DEF s, wr, x
  <2>6. Grown(s, v, wr, x)
    BY <2>4, <2>5, <2>8, SMT DEF Grown
  <2>7. TextOk(win[a], v, x) /\ UpperAt(win[a], v, upper[Peer(a)], x, recv[Peer(a)].mVRR)
    BY <2>2, <2>3, <2>6, GrownFlows
  <2> QED BY <1>1, <2>1, <2>2, <2>4, <2>7 DEF FlowTo, Flows
<1> QED BY <1>2, <1>3

\* A data PDU that is in the window.
LEMMA TransmitFlow ==
  ASSUME Inv, NEW a \in Entity, NEW e \in Entity, NEW w \in Window, NEW p,
         NEW sn \in SN, w.mPduTxQ[sn] \in TxPdu, Transmit(e, w, p, sn), Inv', Two(a)', written' = written,
         e = a => /\ SenderOk(w)
                  /\ Flows(w, source'[a], recv[Peer(a)], upper[Peer(a)], link[Peer(a)],
                           written[a]),
         e # a => FlowTo(a) /\ source'[a] = source[a]
  PROVE  FlowTo(a)'
<1> DEFINE counted == CountTransmission(w, sn)
           asked   == IsPollTriggered(p, source'[e])
           polls   == asked.mPollTriggered /\ ~PollProhibited(asked)
           u       == IF e = a THEN w ELSE win[a]
           msg     == DataMsg(w, sn, polls)
<1>1. counted \in Window /\ SameWindow(w, counted) /\ KeptPdus(w, counted)
  BY CountTransmissionType, CountTransmissionSame, CountTransmissionKept
<1>2. /\ win' = [win EXCEPT ![e] = counted] /\ recv' = recv /\ upper' = upper
      /\ EmitReset(e) \/ Send(e, msg)
  BY Zenon DEF Transmit
<1>3. polls \in BOOLEAN
  BY Zenon
<1>4. msg \in Pdu /\ msg.payload = Text(w, msg.sn)
  <2> HIDE DEF polls
  <2>1. w.mPduTxQ[sn].payload \in Payload
    BY Zenon DEF TxPdu
  <2>2. msg \in Pdu
    BY <1>3, <2>1, SMT DEF DataMsg, Data, Pdu
  <2>3. msg.payload = w.mPduTxQ[sn].payload /\ msg.sn = sn
    BY DEF DataMsg
  <2> QED BY <2>2, <2>3 DEF Text
<1> HIDE DEF counted, msg
<1>5. Flows(u, source'[a], recv[Peer(a)], upper[Peer(a)], link[Peer(a)], written[a])
  BY DEF FlowTo
<1>6. HeardOk(u, recv[Peer(a)], link'[Peer(a)])
  <2>1. HeardOk(u, recv[Peer(a)], link[Peer(a)])
    BY <1>5 DEF Flows
  <2>2. CASE EmitReset(e)
    BY <2>1, <2>2, HeardEmitReset
  <2>3. CASE Send(e, msg)
    <3>1. e = a => msg.payload = Text(u, msg.sn)
      BY <1>4
    <3> HIDE DEF u
    <3> QED BY <1>4, <2>1, <2>3, <3>1, HeardSent
  <2> QED BY <1>2, <2>2, <2>3
<1>7. Flows(u, source'[a], recv[Peer(a)], upper[Peer(a)], link'[Peer(a)], written[a])
  BY <1>5, <1>6 DEF Flows
<1>8. CASE e = a
  <2>1. win'[a] = counted
    BY <1>2, <1>8, Zenon DEF Inv, TypeOK
  <2>2. Aligned(counted, recv[Peer(a)], link'[Peer(a)], link'[a])
    BY <1>2, <2>1 DEF Two
  <2>3. KeepsText(w, counted)
    BY <1>1, <1>8, SameKeeps
  <2>4. link'[Peer(a)] \in Seq(Pdu) /\ recv[Peer(a)] \in Rx
    <3>1. link'[Peer(a)] \in Seq(Pdu)
      BY FlowTypes, Zenon DEF Inv, TypeOK
    <3> QED BY <3>1, FlowTypes
  <2>5. Flows(counted, source'[a], recv[Peer(a)], upper[Peer(a)], link'[Peer(a)], written[a])
    BY <1>1, <1>7, <1>8, <2>2, <2>3, <2>4, KeptFlows
  <2> QED BY <1>2, <2>1, <2>5 DEF FlowTo
<1>9. CASE e # a
  <2>1. win'[a] = win[a]
    BY <1>2, <1>9, Zenon DEF Inv, TypeOK
  <2> QED BY <1>2, <1>7, <1>9, <2>1 DEF FlowTo
<1> QED BY <1>8, <1>9

\* What v keeps of the window is its end.
KeepsRest(w, v) ==
  \A x, y \in SN : InWindow(v, x) /\ InWindow(w, y) /\ Pos(w, x) <= Pos(w, y) => InWindow(v, y)

LEMMA SameRest ==
  ASSUME NEW w \in Window, NEW v \in Window, SameWindow(w, v) PROVE KeepsRest(w, v)
<1>1. \A sn : Pos(v, sn) = Pos(w, sn)
  BY Zenon DEF SameWindow, Pos
<1>2. v.mVTS = w.mVTS
  BY DEF SameWindow
<1> QED BY <1>1, <1>2, SMT DEF InWindow, KeepsRest

LEMMA AdvancedRest ==
  ASSUME NEW w \in Window, NEW v \in Window, NEW n \in SN, AdvancedTo(w, v, n),
         SenderOk(w), 0 <= Pos(w, n), Pos(w, n) <= Pos(w, w.mVTS), KeptPdus(w, v)
  PROVE  KeepsRest(w, v)
<1>1. SenderOk(v)
  BY AdvancedPos
<1>2. ASSUME NEW sn \in SN, InWindow(w, sn)
      PROVE  Pos(v, sn) = Pos(w, sn) - Pos(w, n)
  <2>1. /\ Pos(w, sn) \in Int /\ Pos(w, n) \in Int /\ Pos(w, w.mVTS) \in Int
        /\ 0 <= Pos(w, sn) /\ Pos(w, sn) < Pos(w, w.mVTS) /\ Pos(w, w.mVTS) <= W
        /\ Pos(w, n) <= W /\ W \in Nat
    BY <1>2, PosType, PduSnType, WindowSize, SMT DEF InWindow, SenderOk
  <2>2. Pos(w, n) - W <= Pos(w, sn) /\ Pos(w, sn) <= W
    BY <2>1, SMT
  <2> QED BY <2>2, AdvancedPos
<1>3. /\ v.mVTS = w.mVTS /\ w.mVTS \in SN
      /\ Pos(v, v.mVTS) = Pos(w, w.mVTS) - Pos(w, n)
  <2>1. v.mVTS = w.mVTS /\ w.mVTS \in SN
    BY PduSnType DEF AdvancedTo
  <2>2. /\ Pos(w, n) \in Int /\ Pos(w, w.mVTS) \in Int /\ W \in Nat
        /\ Pos(w, n) - W <= Pos(w, w.mVTS) /\ Pos(w, w.mVTS) <= W
    BY <2>1, PosType, WindowSize, SMT DEF SenderOk
  <2> QED BY <2>1, <2>2, AdvancedPos
<1> SUFFICES ASSUME NEW x \in SN, NEW y \in SN, InWindow(v, x), InWindow(w, y),
                    Pos(w, x) <= Pos(w, y)
             PROVE  InWindow(v, y)
  BY DEF KeepsRest
<1>4. InWindow(w, x)
  BY AdvancedKeeps DEF KeepsText
<1>5. /\ Pos(w, x) \in Int /\ Pos(w, y) \in Int /\ Pos(w, n) \in Int /\ Pos(w, w.mVTS) \in Int
      /\ Pos(v, x) = Pos(w, x) - Pos(w, n) /\ Pos(v, y) = Pos(w, y) - Pos(w, n)
      /\ 0 <= Pos(v, x) /\ Pos(w, y) < Pos(w, w.mVTS)
  BY <1>2, <1>3, <1>4, PosType DEF InWindow
<1> QED BY <1>3, <1>5, SMT DEF InWindow

\* What a status report acknowledges is no longer needed.
LEMMA StatusReceivedKeeps ==
  ASSUME NEW w \in Window, NEW q \in Seq(Pdu), q # <<>>, Head(q).type = "STATUS",
         SenderOk(w), StatusOk(w, q)
  PROVE  /\ processSUFIs2(w, Head(q)) \in Window
         /\ KeepsText(w, processSUFIs2(w, Head(q)))
         /\ KeepsRest(w, processSUFIs2(w, Head(q)))
<1> DEFINE m == Head(q)
           v == processSUFIs2(w, m)
           n == IF m.nacks = {} THEN m.lsn ELSE w.mVTA
           t == Pos(w, w.mVTS)
<1>1. /\ 1 \in 1 .. Len(q) /\ q[1] = m /\ m \in Status
      /\ m.lsn \in SN /\ m.nacks \in SUBSET SN
  BY HeadSays, PduNumbers
<1>2. /\ 0 <= Pos(w, m.lsn) /\ Pos(w, m.lsn) <= t
      /\ m.nacks # {} => m.first \in m.nacks
      /\ \A x \in m.nacks : 0 <= Pos(w, x) /\ Pos(w, x) <= t
  BY <1>1 DEF StatusOk
<1>3. t \in Int /\ t <= W /\ W \in Nat /\ w.mVTA \in SN /\ 0 <= t
  BY PosType, PduSnType, WindowSize DEF SenderOk
<1>4. \A x \in SN : Pos(w, x) <= t => Pos(w, x) <= W
  BY <1>3, PosType, SMT
<1> HIDE DEF m, t
<1>5. v \in Window /\ AdvancedTo(w, v, n)
  BY <1>1, <1>2, <1>4, ProcessSUFIsTo, ProcessSUFIsType, Zenon
<1>6. n \in SN /\ 0 <= Pos(w, n) /\ Pos(w, n) <= t
  BY <1>1, <1>2, <1>3, PosZero, SMT
<1>7. KeptPdus(w, v)
  BY <1>1, ProcessSUFIsKept
<1> HIDE DEF v, n
<1>8. KeepsText(w, v) /\ KeepsRest(w, v)
  BY <1>5, <1>6, <1>7, AdvancedKeeps, AdvancedRest DEF t
<1> QED BY <1>5, <1>8 DEF v, m

LEMMA ReadRetransmissionFlow ==
  ASSUME Inv, Inv', NEW a \in Entity, NEW e \in Entity, Two(a), Two(a)', FlowTo(a),
         ReadRetransmission(e)
  PROVE  FlowTo(a)'
<1> DEFINE w == Retransmitted(win[e])
           sn == win[e].mVSNack
           p == PollAskedIf(poll[e], /\ ~w.mNackedBlocksWaiting
                                     /\ mConfig.mLastRetransmissionPduPoll)
<1>1. win[e] \in Window /\ NackOk(win[e]) /\ win[e].mNackedBlocksWaiting
  BY StateTypes DEF ReadRetransmission
<1>2. w \in Window /\ w.mPduTxQ[sn] \in TxPdu /\ SameWindow(win[e], w)
  BY <1>1, RetransmittedType, RetransmittedSame
<1>3. sn \in SN
  BY <1>1, PduSnType
<1>4. Transmit(e, w, p, sn) /\ source' = source /\ written' = written
  BY Zenon DEF ReadRetransmission, Transmit, env
<1>5. KeptPdus(win[e], w)
  BY <1>1, RetransmittedKept
<1> HIDE DEF w
<1>6. ASSUME e = a
      PROVE  /\ SenderOk(w)
             /\ Flows(w, source'[a], recv[Peer(a)], upper[Peer(a)], link[Peer(a)], written[a])
  <2>1. Aligned(w, recv[Peer(a)], link[Peer(a)], link[a])
    BY <1>1, <1>2, <1>6, SameWindowOk DEF Two
  <2>2. SenderOk(win[a])
    BY DEF Two, Aligned
  <2>3. KeepsText(win[a], w)
    BY <1>1, <1>2, <1>5, <1>6, <2>2, SameKeeps
  <2>4. recv[Peer(a)] \in Rx /\ link[Peer(a)] \in Seq(Pdu) /\ win[a] \in Window
    BY FlowTypes
  <2>5. Flows(w, source[a], recv[Peer(a)], upper[Peer(a)], link[Peer(a)], written[a])
    BY <1>2, <2>1, <2>2, <2>3, <2>4, KeptFlows DEF FlowTo
  <2> QED BY <1>4, <2>1, <2>5 DEF Aligned
<1> HIDE DEF sn, p
<1> QED BY <1>2, <1>3, <1>4, <1>6, TransmitFlow

LEMMA ReadNewDataFlow ==
  ASSUME Inv, Inv', NEW a \in Entity, NEW e \in Entity, Two(a), Two(a)', FlowTo(a),
         ReadNewData(e)
  PROVE  FlowTo(a)'
<1> DEFINE payload == FilledPayload(source[e])
           w == getDataPdu(win[e], payload)
           sn == win[e].mVTS
           p == PollAskedIf(poll[e], /\ pdusFinished(source'[e])
                                     /\ mConfig.mLastTransmissionPduPoll)
<1>1. win[e] \in Window /\ ~stalled(win[e]) /\ payload \in Payload
  BY StateTypes, FilledPayloadType DEF ReadNewData, NoNewData
<1> HIDE DEF payload
<1>2. w \in Window /\ w.mPduTxQ[sn] \in TxPdu
  BY <1>1, GetDataPduType
<1>3. sn \in SN
  BY <1>1, PduSnType
<1>4. Transmit(e, w, p, sn) /\ source' = [source EXCEPT ![e] = fillPduData(source[e])]
      /\ written' = written
  BY Zenon DEF ReadNewData, payload, Transmit, env
<1>5. ASSUME e = a
      PROVE  /\ SenderOk(w)
             /\ Flows(w, source'[a], recv[Peer(a)], upper[Peer(a)], link[Peer(a)], written[a])
  <2>1. /\ recv[Peer(a)] \in Rx /\ link[Peer(a)] \in Seq(Pdu) /\ source[a] \in Source
    BY FlowTypes
  <2>2. SenderOk(win[a]) /\ Aligned(win[a], recv[Peer(a)], link[Peer(a)], link[a])
    BY DEF Two, Aligned
  <2>3. source'[a] = fillPduData(source[a])
    BY <1>4, <1>5, Zenon DEF Inv, TypeOK
  <2>4. /\ SenderOk(w)
        /\ Flows(w, fillPduData(source[a]), recv[Peer(a)], upper[Peer(a)], link[Peer(a)],
                 written[a])
    BY <1>1, <1>5, <2>1, <2>2, NewDataFlows DEF FlowTo, payload
  <2> QED BY <2>3, <2>4
<1>6. e # a => source'[a] = source[a]
  BY <1>4, Zenon DEF Inv, TypeOK
<1> HIDE DEF w, sn, p
<1> QED BY <1>2, <1>3, <1>4, <1>5, <1>6, TransmitFlow

LEMMA ReadPollOnlyFlow ==
  ASSUME Inv, NEW a \in Entity, NEW e \in Entity, FlowTo(a), ReadPollOnly(e)
  PROVE  FlowTo(a)'
<1> DEFINE asked == IsPollTriggered(poll[e], source[e])
           sn == LastSent(e)
           msg == DataMsg(win[e], sn, TRUE)
<1>1. UNCHANGED <<win, recv, source, upper, written>>
  BY Zenon DEF ReadPollOnly, env
<1>2. CASE link' = link
  BY <1>1, <1>2, Zenon DEF FlowTo
<1>3. CASE PollRepeats(e, asked) /\ Send(e, msg)
  <2>1. win[e] \in Window /\ sn \in SN
    <3>1. win[e] \in Window /\ win[e].mVTS \in SN
      BY StateTypes, PduSnType
    <3>2. win[e].mVTS \in Int
      BY <3>1, SNSAssumption, SMT DEF SN
    <3> QED BY <3>1, <3>2, AddSNType, SMT DEF LastSent
  <2>2. win[e].mPduTxQ[sn] \in TxPdu
    BY <1>3, <2>1, PduSnType, Zenon DEF PollRepeats
  <2> HIDE DEF sn
  <2>3. msg \in Pdu
    BY <2>1, <2>2, DataMsgType
  <2>4. msg.payload = Text(win[e], msg.sn)
    BY DEF DataMsg, Text
  <2> HIDE DEF msg
  <2>5. HeardOk(win[a], recv[Peer(a)], link'[Peer(a)])
    BY <1>3, <2>3, <2>4, HeardSent DEF FlowTo, Flows
  <2>6. Flows(win[a], source[a], recv[Peer(a)], upper[Peer(a)], link'[Peer(a)], written[a])
    BY <2>5 DEF FlowTo, Flows
  <2> QED BY <1>1, <2>6 DEF FlowTo
<1>4. link' = link \/ (PollRepeats(e, asked) /\ Send(e, msg))
  BY Zenon DEF ReadPollOnly
<1> QED BY <1>2, <1>3, <1>4

LEMMA ReadResetFlow ==
  ASSUME Inv, NEW a \in Entity, NEW e \in Entity, FlowTo(a),
         ReadReset(e) \/ ReadResetAck(e)
  PROVE  FlowTo(a)'
<1>1. UNCHANGED <<win, recv, source, upper, written>>
  BY Zenon DEF ReadReset, ReadResetAck, env
<1>2. HeardOk(win[a], recv[Peer(a)], link'[Peer(a)])
  <2>1. CASE ReadReset(e)
    BY <2>1, HeardEmitReset DEF ReadReset, FlowTo, Flows
  <2>2. CASE ReadResetAck(e)
    <3> DEFINE msg == ResetMsg("RESET_ACK", ctl[e].mResetAckRSN)
    <3>1. ctl[e].mResetAckRSN \in Nat
      <4>1. ctl[e].mResetAckRSN \in {0, 1}
        BY StateTypes, Zenon DEF Control
      <4> QED BY <4>1, SMT
    <3>2. msg \in Pdu /\ msg.type = "RESET_ACK" /\ Send(e, msg)
      BY <2>2, <3>1, ResetMsgType DEF ReadResetAck, ResetMsg
    <3> HIDE DEF msg
    <3>3. msg.type # "DATA"
      BY <3>2
    <3> QED BY <3>2, <3>3, HeardSent DEF FlowTo, Flows
  <2> QED BY <2>1, <2>2
<1>3. Flows(win[a], source[a], recv[Peer(a)], upper[Peer(a)], link'[Peer(a)], written[a])
  BY <1>2 DEF FlowTo, Flows
<1> QED BY <1>1, <1>3 DEF FlowTo

LEMMA ReadStatusFlow ==
  ASSUME Inv, NEW a \in Entity, NEW e \in Entity, FlowTo(a), ReadStatus(e)
  PROVE  FlowTo(a)'
<1>1. /\ UNCHANGED <<win, source, upper, written>>
      /\ recv' = [recv EXCEPT ![e] = StatusReported(recv[e])]
  BY Zenon DEF ReadStatus, env
<1>2. PICK m \in Pdu : m.type = "STATUS" /\ Send(e, m)
  BY StatusSteps
<1>3. HeardOk(win[a], recv[Peer(a)], link'[Peer(a)])
  <2>1. m.type # "DATA"
    BY <1>2
  <2> QED BY <1>2, <2>1, HeardSent DEF FlowTo, Flows
<1>4. /\ recv'[Peer(a)].mVRR = recv[Peer(a)].mVRR
      /\ recv'[Peer(a)].mPduRxQ = recv[Peer(a)].mPduRxQ
  <2>1. recv[Peer(a)] \in Rx /\ Peer(a) \in Entity
    BY FlowTypes
  <2>2. /\ StatusReported(recv[Peer(a)]).mVRR = recv[Peer(a)].mVRR
        /\ StatusReported(recv[Peer(a)]).mPduRxQ = recv[Peer(a)].mPduRxQ
    BY <2>1, Zenon DEF StatusReported, Rx
  <2>3. recv'[Peer(a)] = recv[Peer(a)] \/ recv'[Peer(a)] = StatusReported(recv[Peer(a)])
    BY <1>1, <2>1, Zenon DEF Inv, TypeOK
  <2> QED BY <2>2, <2>3
<1>5. HeardOk(win[a], recv'[Peer(a)], link'[Peer(a)])
  BY <1>3, <1>4 DEF HeardOk
<1>6. UpperAt(win[a], source[a], upper[Peer(a)], written[a], recv'[Peer(a)].mVRR)
  BY <1>4 DEF FlowTo, Flows
<1>7. Flows(win[a], source[a], recv'[Peer(a)], upper[Peer(a)], link'[Peer(a)], written[a])
  BY <1>5, <1>6 DEF FlowTo, Flows
<1> QED BY <1>1, <1>7 DEF FlowTo

LEMMA ReceiveDataFlow ==
  ASSUME Inv, Uppers, NEW a \in Entity, NEW e \in Entity, Two(a), FlowTo(a), ReceiveData(e)
  PROVE  FlowTo(a)'
<1> DEFINE m == Head(link[e])
           p == PollSeen(recv[e], m.poll)
           s == Stored(p, m.sn, m.payload)
           r == IF Unwanted(p, m.sn) THEN p ELSE Accepted(s, m.sn)
           u == IF Unwanted(p, m.sn) THEN upper[e] ELSE Delivered(s, upper[e], m.sn)
<1>1. /\ link[e] # <<>> /\ m.type = "DATA" /\ Take(e)
      /\ UNCHANGED <<win, source, written>>
      /\ recv' = [recv EXCEPT ![e] = r]
      /\ upper' = [upper EXCEPT ![e] = u]
  BY Zenon DEF ReceiveData, Arrived, env
<1>2. CASE e = a
  <2> HIDE DEF r, u
  <2>1. recv'[Peer(a)] = recv[Peer(a)]
    BY <1>1, <1>2, FlowTypes, Zenon DEF Inv, TypeOK
  <2>2. upper'[Peer(a)] = upper[Peer(a)]
    BY <1>1, <1>2, FlowTypes
  <2>3. link'[Peer(a)] = link[Peer(a)]
    BY <1>1, <1>2, FlowTypes, LinkTaken
  <2> QED BY <1>1, <2>1, <2>2, <2>3 DEF FlowTo
<1>3. CASE e = Peer(a)
  <2>1. Flows(win[a], source[a], r, u, Tail(link[e]), written[a])
    <3>1. win[a] \in Window /\ recv[e] \in Rx /\ link[e] \in Seq(Pdu)
      BY FlowTypes
    <3>2. /\ Aligned(win[a], recv[e], link[e], link[a])
          /\ Flows(win[a], source[a], recv[e], upper[e], link[e], written[a])
      BY <1>3 DEF Two, FlowTo
    <3> QED BY <1>1, <3>1, <3>2, DataReceivedFlows
  <2> HIDE DEF r, u
  <2>2. recv'[Peer(a)] = r
    BY <1>1, <1>3, FlowTypes, Zenon DEF Inv, TypeOK
  <2>3. upper'[Peer(a)] = u
    BY <1>1, <1>3, Zenon DEF Uppers
  <2>4. link'[Peer(a)] = Tail(link[e])
    BY <1>1, <1>3, FlowTypes, LinkTaken
  <2> QED BY <1>1, <2>1, <2>2, <2>3, <2>4 DEF FlowTo
<1> QED BY <1>2, <1>3, FlowTypes

LEMMA ReceiveStatusFlow ==
  ASSUME Inv, NEW a \in Entity, NEW e \in Entity, Two(a), Two(a)', FlowTo(a),
         ReceiveStatus(e)
  PROVE  FlowTo(a)'
<1>1. /\ link[e] # <<>> /\ Head(link[e]).type = "STATUS" /\ Take(e)
      /\ UNCHANGED <<source, recv, upper, written>>
      /\ win' = [win EXCEPT ![e] = processSUFIs2(win[e], Head(link[e]))]
  BY Zenon DEF ReceiveStatus, Arrived, env
<1>2. CASE e = Peer(a)
  <2>1. win'[a] = win[a]
    BY <1>1, <1>2, FlowTypes, Zenon DEF Inv, TypeOK
  <2>2. HeardOk(win[a], recv[Peer(a)], link'[Peer(a)])
    BY <1>1, HeardTaken DEF FlowTo, Flows
  <2> QED BY <1>1, <2>1, <2>2 DEF FlowTo, Flows
<1>3. CASE e = a
  <2> DEFINE v == processSUFIs2(win[a], Head(link[a]))
  <2>0. link'[Peer(a)] = link[Peer(a)]
    BY <1>1, <1>3, LinkTaken, FlowTypes
  <2>1. win'[a] = v
    BY <1>1, <1>3, Zenon DEF Inv, TypeOK
  <2>2. SenderOk(win[a]) /\ StatusOk(win[a], link[a])
    BY DEF Two, Aligned
  <2>3. /\ win[a] \in Window /\ recv[Peer(a)] \in Rx /\ link[Peer(a)] \in Seq(Pdu)
        /\ link[a] \in Seq(Pdu)
    BY FlowTypes
  <2>4. v \in Window /\ KeepsText(win[a], v)
    BY <1>1, <1>3, <2>2, <2>3, StatusReceivedKeeps
  <2> HIDE DEF v
  <2>5. Aligned(v, recv[Peer(a)], link[Peer(a)], link'[a])
    BY <1>1, <2>0, <2>1 DEF Two
  <2>6. Flows(v, source[a], recv[Peer(a)], upper[Peer(a)], link[Peer(a)], written[a])
    BY <2>2, <2>3, <2>4, <2>5, KeptFlows DEF FlowTo
  <2> QED BY <1>1, <2>0, <2>1, <2>6 DEF FlowTo
<1> QED BY <1>2, <1>3, FlowTypes

\* The step resets an end, or fails to: see below.
Resets(e) == ReceiveReset(e) \/ ReceiveResetAck(e)

LEMMA FlowNext ==
  ASSUME Inv, Inv', Uppers, NEW a \in Entity, Two(a), Two(a)', FlowTo(a), [Next]_vars
  PROVE  FlowTo(a)' \/ \E e \in Entity : Resets(e)
<1>1. ASSUME NEW e \in Entity, RlcReadLowSide(e) PROVE FlowTo(a)'
  BY <1>1, ReadResetFlow, ReadStatusFlow, ReadRetransmissionFlow, ReadNewDataFlow,
     ReadPollOnlyFlow DEF RlcReadLowSide
<1>2. ASSUME NEW e \in Entity, RlcWriteLowSide(e), ~Resets(e) PROVE FlowTo(a)'
  BY <1>2, ReceiveDataFlow, ReceiveStatusFlow DEF RlcWriteLowSide, Resets
<1>3. ASSUME NEW e \in Entity, NEW sdu \in Sdu, RlcWriteHighSide(e, sdu) PROVE FlowTo(a)'
  BY <1>3, WriteHighSideFlow
<1>4. ASSUME NEW e \in Entity, LosePdu(e) PROVE FlowTo(a)'
  <2>1. /\ link[e] # <<>> /\ Take(e)
        /\ UNCHANGED <<source, win, recv, upper, written>>
    BY <1>4, Zenon DEF LosePdu, tran
  <2> QED BY <2>1, TakenFlow
<1>5. ASSUME UNCHANGED <<source, win, recv, upper, link, written>> PROVE FlowTo(a)'
  BY <1>5, Zenon DEF FlowTo
<1>6. ASSUME NEW e \in Entity,
             \/ TriggerReset(e) \/ RstTimerExpires(e)
             \/ \E timer \in PollTimers : PollTimerExpires(e, timer)
      PROVE  FlowTo(a)'
  <2>1. UNCHANGED <<source, win, recv, upper, link, written>>
    BY <1>6, Zenon DEF TriggerReset, RstTimerExpires, PollTimerExpires, env
  <2> QED BY <2>1, <1>5
<1>7. ASSUME UNCHANGED vars PROVE FlowTo(a)'
  <2>1. UNCHANGED <<source, win, recv, upper, link, written>>
    BY <1>7 DEF vars, tran, env
  <2> QED BY <2>1, <1>5
<1> QED BY <1>1, <1>2, <1>3, <1>4, <1>6, <1>7 DEF Next

LEMMA UppersNext == ASSUME Uppers, [Next]_vars PROVE Uppers'
<1>1. ASSUME NEW e \in Entity, NEW x, upper' = [upper EXCEPT ![e] = x] PROVE Uppers'
  BY <1>1, Zenon DEF Uppers
<1>2. ASSUME upper' = upper PROVE Uppers'
  BY <1>2, Zenon DEF Uppers
<1>3. ASSUME NEW e \in Entity, RlcReadLowSide(e) PROVE Uppers'
  <2>1. upper' = upper
    BY <1>3, Zenon DEF RlcReadLowSide, ReadResetAck, ReadReset, ReadStatus,
         ReadRetransmission, ReadNewData, ReadPollOnly, Transmit
  <2> QED BY <1>2, <2>1
<1>4. ASSUME NEW e \in Entity, RlcWriteLowSide(e) PROVE Uppers'
  <2>1. \/ upper' = upper
        \/ \E x : upper' = [upper EXCEPT ![e] = x]
    BY <1>4, Zenon DEF RlcWriteLowSide, ReceiveData, ReceiveStatus, ReceiveReset,
         ReceiveResetAck, FullReset, ResetTo
  <2> QED BY <1>1, <1>2, <2>1
<1>5. ASSUME NEW e \in Entity,
             \/ \E sdu \in Sdu : RlcWriteHighSide(e, sdu)
             \/ TriggerReset(e) \/ RstTimerExpires(e)
             \/ \E timer \in PollTimers : PollTimerExpires(e, timer)
             \/ LosePdu(e)
      PROVE  Uppers'
  <2>1. upper' = upper
    BY <1>5, Zenon DEF RlcWriteHighSide, TriggerReset, RstTimerExpires, PollTimerExpires,
                       LosePdu
  <2> QED BY <1>2, <2>1
<1>6. ASSUME UNCHANGED vars PROVE Uppers'
  <2>1. upper' = upper
    BY <1>6 DEF vars
  <2> QED BY <1>2, <2>1
<1> QED BY <1>3, <1>4, <1>5, <1>6 DEF Next

LEMMA UpperHanded ==
  ASSUME NEW w, NEW s, NEW u, NEW wr, NEW sn, UpperAt(w, s, u, wr, sn)
  PROVE  /\ u \in Upper /\ Handed(u.delivered, wr)
         /\ \A i \in 1 .. Len(u.delivered) : \A id \in Nat :
              InSource(s, id) => IdOf(u.delivered[i]) < id
<1> DEFINE c == CutAt(w, s, sn)
           d == HandedBy(u, c.mark)
<1>1. /\ u \in Upper /\ Handed(d, wr)
      /\ \A i \in 1 .. Len(d) : \A id \in Nat : Comes(w, s, sn, id) => IdOf(d[i]) < id
  BY DEF UpperAt
<1>2. u.delivered \in Seq(Seq(Segment)) /\ u.mUpSdu \in Seq(Segment)
  BY <1>1, UpperType
<1>3. \A i \in 1 .. Len(u.delivered) : i \in 1 .. Len(d) /\ d[i] = u.delivered[i]
  <2>1. CASE c.mark
    <3>1. /\ Len(Append(u.delivered, u.mUpSdu)) = Len(u.delivered) + 1
          /\ Len(u.delivered) \in Nat
          /\ \A i \in 1 .. Len(u.delivered) : Append(u.delivered, u.mUpSdu)[i] = u.delivered[i]
      BY <1>2, AppendProperties, LenProperties
    <3>2. d = Append(u.delivered, u.mUpSdu)
      BY <2>1 DEF HandedBy
    <3> HIDE DEF d
    <3> QED BY <3>1, <3>2, SMT
  <2>2. CASE ~c.mark
    BY <2>2 DEF HandedBy
  <2> QED BY <2>1, <2>2
<1> HIDE DEF d, c
<1>4. Handed(u.delivered, wr)
  <2>1. \A i \in 1 .. Len(u.delivered) :
          \E sdu \in Sdu : Known(wr, sdu) /\ u.delivered[i] = WholeSdu(sdu)
    BY <1>1, <1>3, Zenon DEF Handed
  <2>2. \A i, j \in 1 .. Len(u.delivered) :
          i < j => IdOf(u.delivered[i]) < IdOf(u.delivered[j])
    BY <1>1, <1>3, Zenon DEF Handed
  <2> QED BY <2>1, <2>2 DEF Handed
<1>5. ASSUME NEW i \in 1 .. Len(u.delivered), NEW id \in Nat, InSource(s, id)
      PROVE  IdOf(u.delivered[i]) < id
  <2>1. Comes(w, s, sn, id)
    BY <1>5 DEF Comes
  <2> QED BY <1>1, <1>3, <2>1, Zenon
<1> QED BY <1>1, <1>4, <1>5

LEMMA HandedInOrder ==
  ASSUME NEW u \in Upper, NEW wr \in Seq(Sdu), Handed(u.delivered, wr)
  PROVE  \E place \in [DOMAIN u.delivered -> DOMAIN wr] :
           /\ \A i \in DOMAIN u.delivered : u.delivered[i] = WholeSdu(wr[place[i]])
           /\ \A i, j \in DOMAIN u.delivered : i < j => place[i] < place[j]
<1> DEFINE up == u.delivered
           place == [i \in DOMAIN up |-> IdOf(up[i])]
<1>1. DOMAIN up = 1 .. Len(up) /\ DOMAIN wr = 1 .. Len(wr)
  BY UpperType, LenProperties
<1>2. ASSUME NEW i \in DOMAIN up
      PROVE  IdOf(up[i]) \in DOMAIN wr /\ up[i] = WholeSdu(wr[IdOf(up[i])])
  <2>1. PICK sdu \in Sdu : Known(wr, sdu) /\ up[i] = WholeSdu(sdu)
    BY <1>1, Zenon DEF Handed
  <2>2. IdOf(up[i]) = sdu.id
    BY <2>1, IdOfWhole
  <2> QED BY <1>1, <2>1, <2>2 DEF Known
<1>3. place \in [DOMAIN up -> DOMAIN wr]
  BY <1>2
<1>4. \A i \in DOMAIN up : up[i] = WholeSdu(wr[place[i]])
  BY <1>2
<1>5. \A i, j \in DOMAIN up : i < j => place[i] < place[j]
  BY <1>1, Zenon DEF Handed
<1> HIDE DEF place
<1> QED BY <1>3, <1>4, <1>5

-----------------------------------------------------------------------------
(* A reset throws away what is partly sent and partly received.            *)

\* The receiving end of a reset, until the sending end follows.
WaitingOk(s, u, wr) ==
  /\ SourceOk(s, wr)
  /\ u \in Upper /\ u.mUpSdu = <<>> /\ Handed(u.delivered, wr)
  /\ \A i \in 1 .. Len(u.delivered) : \A id \in Nat :
       InSource(s, id) => IdOf(u.delivered[i]) < id

LEMMA DiscardType ==
  ASSUME NEW u \in Upper
  PROVE  /\ discardPartialSdu(u) \in Upper /\ discardPartialSdu(u).mUpSdu = <<>>
         /\ discardPartialSdu(u).delivered = u.delivered
BY EmptySeq, Zenon DEF discardPartialSdu, Upper

LEMMA FlowsReset ==
  ASSUME NEW w, NEW s, NEW r, NEW u, NEW dq, NEW wr, Flows(w, s, r, u, dq, wr)
  PROVE  WaitingOk(s, discardPartialSdu(u), wr)
<1> DEFINE v == discardPartialSdu(u)
<1>1. /\ u \in Upper /\ Handed(u.delivered, wr)
      /\ \A i \in 1 .. Len(u.delivered) : \A id \in Nat :
           InSource(s, id) => IdOf(u.delivered[i]) < id
  BY UpperHanded DEF Flows
<1>2. v \in Upper /\ v.mUpSdu = <<>> /\ v.delivered = u.delivered
  BY <1>1, DiscardType
<1> HIDE DEF v
<1>3. WaitingOk(s, v, wr)
  BY <1>1, <1>2 DEF WaitingOk, Flows
<1> QED BY <1>3 DEF v

LEMMA WaitingWrite ==
  ASSUME NEW s \in Source, NEW u, NEW wr \in Seq(Sdu), WaitingOk(s, u, wr),
         NEW sdu \in Sdu, sdu.id = Len(wr) + 1
  PROVE  WaitingOk(rlcWriteHighSide(s, sdu), u, Append(wr, sdu))
<1> DEFINE v == rlcWriteHighSide(s, sdu)
           x == Append(wr, sdu)
           d == u.delivered
<1>1. /\ SourceOk(v, x)
      /\ \A id : InSource(v, id) => InSource(s, id) \/ id = Len(wr) + 1
  BY WriteHighSideSource DEF WaitingOk
<1>2. /\ \A y : Known(wr, y) => Known(x, y) /\ y.id <= Len(wr) /\ y.id \in Nat
      /\ Len(wr) \in Nat
  BY KnownWrites
<1> HIDE DEF v, x
<1>3. ASSUME NEW i \in 1 .. Len(d)
      PROVE  \E y \in Sdu : Known(x, y) /\ d[i] = WholeSdu(y) /\ IdOf(d[i]) <= Len(wr)
                            /\ IdOf(d[i]) \in Nat
  <2>1. PICK y \in Sdu : Known(wr, y) /\ d[i] = WholeSdu(y)
    BY Zenon DEF WaitingOk, Handed
  <2>2. IdOf(d[i]) = y.id
    BY <2>1, IdOfWhole
  <2> QED BY <1>2, <2>1, <2>2
<1>4. Handed(d, x)
  <2>1. \A i, j \in 1 .. Len(d) : i < j => IdOf(d[i]) < IdOf(d[j])
    BY DEF WaitingOk, Handed
  <2> QED BY <1>3, <2>1 DEF Handed
<1>5. ASSUME NEW i \in 1 .. Len(d), NEW id \in Nat, InSource(v, id)
      PROVE  IdOf(d[i]) < id
  <2>1. CASE InSource(s, id)
    BY <2>1 DEF WaitingOk
  <2>2. CASE id = Len(wr) + 1
    <3>1. IdOf(d[i]) <= Len(wr) /\ IdOf(d[i]) \in Nat
      BY <1>3
    <3> QED BY <1>2, <2>2, <3>1, SMT
  <2> QED BY <1>1, <1>5, <2>1, <2>2
<1>6. u \in Upper /\ u.mUpSdu = <<>>
  BY DEF WaitingOk
<1>7. WaitingOk(v, u, x)
  BY <1>1, <1>4, <1>5, <1>6 DEF WaitingOk
<1> QED BY <1>7 DEF v, x

LEMMA SourceResetFields ==
  ASSUME NEW s
  PROVE  /\ sourceReset(s).mSduTxQ = s.mSduTxQ /\ sourceReset(s).mSplitSdu = NoSdu
         /\ sourceReset(s).mLILeftOver = FALSE
BY Zenon DEF sourceReset, sourceInit

\* Both windows empty: nothing of an SDU is under way.
LEMMA WaitingFlows ==
  ASSUME NEW s, NEW u, NEW wr, WaitingOk(s, u, wr), NEW dq,
         \A i \in 1 .. Len(dq) : dq[i].type # "DATA"
  PROVE  Flows(windowInit, sourceReset(s), recvAmInit, u, dq, wr)
<1> DEFINE t == sourceReset(s)
           d == u.delivered
<1>1. t.mSduTxQ = s.mSduTxQ /\ t.mSplitSdu = NoSdu /\ t.mLILeftOver = FALSE
  BY SourceResetFields
<1> HIDE DEF t
<1>2. SourceOk(t, wr)
  BY <1>1, Zenon DEF WaitingOk, SourceOk
<1>3. /\ windowInit.mVTA = 0 /\ windowInit.mVTS = 0
      /\ recvAmInit.mVRR = 0 /\ \A sn \in SN : recvAmInit.mPduRxQ[sn] = NoPdu
  BY SMT DEF windowInit, recvAmInit
<1>4. \A sn \in SN : ~InWindow(windowInit, sn)
  <2>1. windowInit \in Window /\ Pos(windowInit, 0) = 0
    BY <1>3, WindowInitType, ZeroSN, DeltaZero DEF Pos
  <2>2. \A sn \in SN : Pos(windowInit, sn) \in Int
    BY <2>1, PosType
  <2> QED BY <1>3, <2>1, <2>2, SMT DEF InWindow
<1>5. TextOk(windowInit, t, wr) /\ HeardOk(windowInit, recvAmInit, dq)
  BY <1>3, <1>4, Zenon DEF TextOk, HeardOk
<1>6. CutAt(windowInit, t, 0) = [split |-> NoSdu, mark |-> FALSE]
  BY <1>1, <1>3 DEF CutAt, Cut
<1>7. \A id : Comes(windowInit, t, 0, id) => InSource(s, id)
  BY <1>1, <1>4, Zenon DEF Comes, InSource
<1>8. UpperAt(windowInit, t, u, wr, 0)
  <2>1. HandedBy(u, FALSE) = d
    BY DEF HandedBy
  <2>2. \A i \in 1 .. Len(d) : \A id \in Nat :
           Comes(windowInit, t, 0, id) => IdOf(d[i]) < id
    BY <1>7 DEF WaitingOk
  <2>3. u \in Upper /\ Handed(d, wr) /\ u.mUpSdu = <<>>
    BY DEF WaitingOk
  <2> DEFINE c == CutAt(windowInit, t, 0)
  <2>4. c.mark = FALSE /\ c.split = NoSdu
    BY <1>6
  <2> HIDE DEF c
  <2>5. HandedBy(u, c.mark) = d
    BY <2>1, <2>4
  <2>6. /\ c.split # NoSdu => ~c.mark /\ u.mUpSdu = Part(c.split.sdu, c.split.part)
        /\ c.split = NoSdu /\ ~c.mark => u.mUpSdu = <<>>
        /\ c.mark => u.mUpSdu # <<>>
    BY <2>3, <2>4
  <2> HIDE DEF d
  <2> QED BY <2>2, <2>3, <2>5, <2>6 DEF UpperAt, c
<1> QED BY <1>2, <1>3, <1>5, <1>8 DEF Flows, t

LEMMA InitFlow == ASSUME Init, NEW a \in Entity PROVE FlowTo(a)
<1>1. /\ win[a] = windowInit /\ recv[Peer(a)] = recvAmInit /\ source[a] = sourceInit
      /\ upper[Peer(a)] = upperInit /\ link[Peer(a)] = <<>> /\ written[a] = <<>>
  BY PeerType, Zenon DEF Init
<1>2. \A i \in 1 .. Len(<<>>) : FALSE
  BY EmptySeq, SMT
<1>3. sourceReset(sourceInit) = sourceInit
  BY DEF sourceReset, sourceInit
<1>4. /\ sourceInit.mSduTxQ = <<>> /\ sourceInit.mSplitSdu = NoSdu
      /\ upperInit.mUpSdu = <<>> /\ upperInit.delivered = <<>>
  BY DEF sourceInit, upperInit
<1>5. upperInit \in Upper
  <2>1. <<>> \in Seq(Segment) /\ <<>> \in Seq(Seq(Segment))
    BY EmptySeq
  <2> QED BY <2>1, Zenon DEF upperInit, Upper
<1>6. WaitingOk(sourceInit, upperInit, <<>>)
  BY <1>2, <1>4, <1>5, Zenon DEF WaitingOk, SourceOk, Handed
<1>7. Flows(windowInit, sourceInit, recvAmInit, upperInit, <<>>, <<>>)
  BY <1>2, <1>3, <1>6, WaitingFlows
<1> QED BY <1>1, <1>7 DEF FlowTo

\* The SDUs handed up to the peer of a.
LEMMA FlowDelivered ==
  ASSUME Inv, NEW a \in Entity, Handed(upper[Peer(a)].delivered, written[a]),
         upper[Peer(a)] \in Upper
  PROVE  LET up == upper[Peer(a)].delivered
         IN  \E place \in [DOMAIN up -> DOMAIN written[a]] :
               /\ \A i \in DOMAIN up : up[i] = WholeSdu(written[a][place[i]])
               /\ \A i, j \in DOMAIN up : i < j => place[i] < place[j]
<1>1. written[a] \in Seq(Sdu)
  BY FlowTypes
<1> QED BY <1>1, HandedInOrder

LEMMA FlowHanded ==
  ASSUME NEW a, FlowTo(a)
  PROVE  Handed(upper[Peer(a)].delivered, written[a]) /\ upper[Peer(a)] \in Upper
BY UpperHanded DEF FlowTo, Flows

LEMMA AllDelivered ==
  ASSUME Inv, \A a \in Entity :
           Handed(upper[Peer(a)].delivered, written[a]) /\ upper[Peer(a)] \in Upper
  PROVE  DeliveredInOrder
<1>1. ASSUME NEW e \in Entity
      PROVE  LET up == upper[e].delivered
             IN  \E place \in [DOMAIN up -> DOMAIN written[Peer(e)]] :
                   /\ \A i \in DOMAIN up : up[i] = WholeSdu(written[Peer(e)][place[i]])
                   /\ \A i, j \in DOMAIN up : i < j => place[i] < place[j]
  <2>1. Peer(e) \in Entity /\ Peer(Peer(e)) = e
    BY TwoEntities
  <2> DEFINE a == Peer(e)
  <2>2. Handed(upper[Peer(a)].delivered, written[a]) /\ upper[Peer(a)] \in Upper
    BY <2>1
  <2> HIDE DEF a
  <2>3. a \in Entity /\ Peer(a) = e
    BY <2>1 DEF a
  <2>4. LET up == upper[e].delivered
        IN  \E place \in [DOMAIN up -> DOMAIN written[a]] :
              /\ \A i \in DOMAIN up : up[i] = WholeSdu(written[a][place[i]])
              /\ \A i, j \in DOMAIN up : i < j => place[i] < place[j]
    BY <2>2, <2>3, FlowDelivered
  <2> QED BY <2>4 DEF a
<1> QED BY <1>1 DEF DeliveredInOrder

-----------------------------------------------------------------------------
(* As long as no RESET has been sent.                                      *)

CalmFlow == Uppers /\ (NeverReset => \A a \in Entity : FlowTo(a))

\* Without a RESET in a queue no entity resets.
LEMMA CalmResets == ASSUME Inv, Calm, NEW e \in Entity PROVE ~Resets(e)
<1>1. link[e] \in Seq(Pdu)
  BY StateTypes
<1>2. link[e] # <<>> => 1 \in 1 .. Len(link[e]) /\ Head(link[e]) = link[e][1]
  BY <1>1, HeadSays
<1>3. link[e] # <<>> => Head(link[e]).type \in {"DATA", "STATUS"}
  BY <1>2 DEF Calm
<1>4. ~Arrived(e, "RESET") /\ ~Arrived(e, "RESET_ACK")
  BY <1>3 DEF Arrived
<1> QED BY <1>4, Zenon DEF Resets, ReceiveReset, ReceiveResetAck

LEMMA CalmFlowNext ==
  ASSUME Inv, Inv', CalmInv, CalmInv', CalmFlow, [Next]_vars PROVE CalmFlow'
<1>1. Uppers'
  BY UppersNext DEF CalmFlow
<1>2. ASSUME NeverReset' PROVE \A a \in Entity : FlowTo(a)'
  <2>1. \A x \in Entity : Steady(ctl[x], ctl'[x], ResetArrived)
    BY <1>2, SteadyCtl
  <2>2. NeverReset
    BY <1>2, <2>1, Zenon DEF NeverReset, Steady
  <2>3. Calm /\ \A a \in Entity : Two(a) /\ FlowTo(a)
    BY <2>2 DEF CalmInv, CalmFlow
  <2>4. \A a \in Entity : Two(a)'
    BY <1>2 DEF CalmInv
  <2>5. \A e \in Entity : ~Resets(e)
    BY <2>3, CalmResets
  <2> QED BY <2>3, <2>4, <2>5, FlowNext DEF CalmFlow
<1> QED BY <1>1, <1>2, Zenon DEF CalmFlow, NeverReset

LEMMA InitUppers == Init => Uppers
BY Zenon DEF Init, Uppers

\* Whichever end writes SDUs, and whatever PDUs, polls and reports are lost: each
\* SDU handed up was written, is whole, and comes in its place (parsePduData,
\* URlcRecvAmUm.cpp:69, on what fillPduData, URlcTransAmUm.cpp:37, made of it).
THEOREM SpecCalmDelivered == Spec => [](NeverReset => DeliveredInOrder)
<1>1. Init => CalmInv
  BY CalmInit
<1>2. Inv /\ CalmInv /\ [Next]_vars => CalmInv'
  BY CalmNext
<1>3. Init => CalmFlow
  BY InitUppers, InitFlow DEF CalmFlow
<1>4. Inv /\ Inv' /\ CalmInv /\ CalmInv' /\ CalmFlow /\ [Next]_vars => CalmFlow'
  BY CalmFlowNext
<1>5. Inv /\ CalmFlow => (NeverReset => DeliveredInOrder)
  BY FlowHanded, AllDelivered DEF CalmFlow
<1> QED BY <1>1, <1>2, <1>3, <1>4, <1>5, SpecInv, PTL DEF Spec

-----------------------------------------------------------------------------
(* One end writes and resets.                                              *)

\* The receiving end has not seen the RESET being sent, if any: the half Before
\* of the reset, told by the reset sequence numbers alone.
InStep(c, d) ==
  IF c.mResetTransRSN = 0 THEN ~d.mResetReceived
  ELSE d.mResetReceived /\ d.mResetAckRSN # c.mResetTransRSN % 2

DeliveryInv(a) ==
  /\ Uppers
  /\ upper[a] = upperInit
  /\ InStep(ctl[a], ctl[Peer(a)]) => FlowTo(a)
  /\ ~InStep(ctl[a], ctl[Peer(a)]) => WaitingOk(source[a], upper[Peer(a)], written[a])

LEMMA PhaseOf ==
  ASSUME NEW w, NEW r, NEW dq, NEW sq, NEW c, NEW d
  PROVE  /\ Before(w, r, dq, sq, c, d) => InStep(c, d)
         /\ After(w, r, dq, sq, c, d) => ~InStep(c, d)
BY Zenon DEF Before, After, InStep

LEMMA PhaseOfEnds ==
  ASSUME NEW a, Ends(a)
  PROVE  /\ InStep(ctl[a], ctl[Peer(a)]) => Two(a)
         /\ ~InStep(ctl[a], ctl[Peer(a)]) =>
              After(win[a], recv[Peer(a)], link[Peer(a)], link[a], ctl[a], ctl[Peer(a)])
<1>1. \/ Before(win[a], recv[Peer(a)], link[Peer(a)], link[a], ctl[a], ctl[Peer(a)])
      \/ After(win[a], recv[Peer(a)], link[Peer(a)], link[a], ctl[a], ctl[Peer(a)])
  BY DEF Ends, Joined
<1> QED BY <1>1, PhaseOf DEF Before, Two

SamePhase(c, d) ==
  /\ d.mResetTransRSN = c.mResetTransRSN
  /\ d.mResetReceived = c.mResetReceived /\ d.mResetAckRSN = c.mResetAckRSN

LEMMA PhaseUpdate ==
  ASSUME Inv, NEW e \in Entity, NEW c, SamePhase(ctl[e], c), ctl' = [ctl EXCEPT ![e] = c]
  PROVE  \A x \in Entity : SamePhase(ctl[x], ctl'[x])
BY Zenon DEF Inv, TypeOK, SamePhase

\* Only a RESET or an acknowledgement that arrives changes the phase.
LEMMA PhaseNext ==
  ASSUME Inv, [Next]_vars
  PROVE  (\A x \in Entity : SamePhase(ctl[x], ctl'[x])) \/ \E e \in Entity : Resets(e)
<1> DEFINE Goal == \A x \in Entity : SamePhase(ctl[x], ctl'[x])
<1>1. ctl' = ctl => Goal
  BY Zenon DEF SamePhase
<1>2. ASSUME NEW e \in Entity
      PROVE  /\ \A v : SamePhase(ctl[e], [ctl[e] EXCEPT !.mResetTriggered = v])
             /\ \A v : SamePhase(ctl[e], [ctl[e] EXCEPT !.mStatusTriggered = v])
             /\ \A v : SamePhase(ctl[e], [ctl[e] EXCEPT !.mSendResetAck = v])
             /\ \A v : SamePhase(ctl[e], [ctl[e] EXCEPT !.mTimer_RST = v])
             /\ SamePhase(ctl[e], ResetStarted(ctl[e]))
  <2>1. ctl[e] \in Control
    BY StateTypes
  <2>2. SamePhase(ctl[e], ResetStarted(ctl[e]))
    BY <2>1, Zenon DEF Control, ResetStarted, SamePhase
  <2> QED BY <2>1, <2>2, Zenon DEF Control, SamePhase
<1> HIDE DEF Goal
<1>3. ASSUME NEW e \in Entity, EmitReset(e) PROVE Goal
  <2>1. ctl' = [ctl EXCEPT ![e] = ResetStarted(ctl[e])]
    BY <1>3, Zenon DEF EmitReset
  <2> QED BY <1>2, <2>1, PhaseUpdate DEF Goal
<1>4. ASSUME NEW e \in Entity, NEW v, \/ ctl' = [ctl EXCEPT ![e].mResetTriggered = v]
                                      \/ ctl' = [ctl EXCEPT ![e].mStatusTriggered = v]
                                      \/ ctl' = [ctl EXCEPT ![e].mSendResetAck = v]
                                      \/ ctl' = [ctl EXCEPT ![e].mTimer_RST = v]
      PROVE  Goal
  BY <1>2, <1>4, PhaseUpdate, Zenon DEF Goal
<1>5. ASSUME NEW e \in Entity, RlcReadLowSide(e) PROVE Goal
  <2>1. CASE ReadResetAck(e)
    <3>1. ctl' = [ctl EXCEPT ![e].mSendResetAck = FALSE]
      BY <2>1, Zenon DEF ReadResetAck
    <3> QED BY <1>4, <3>1
  <2>2. CASE ReadReset(e)
    BY <1>3, <2>2, Zenon DEF ReadReset
  <2>3. CASE ReadStatus(e)
    <3>1. \E v : ctl' = [ctl EXCEPT ![e].mStatusTriggered = v]
      BY <2>3, Zenon DEF ReadStatus
    <3> QED BY <1>4, <3>1
  <2>4. CASE ReadRetransmission(e) \/ ReadNewData(e) \/ ReadPollOnly(e)
    <3>1. EmitReset(e) \/ ctl' = ctl
      BY <2>4, DataSteps
    <3> QED BY <1>1, <1>3, <3>1
  <2> QED BY <1>5, <2>1, <2>2, <2>3, <2>4 DEF RlcReadLowSide
<1>6. ASSUME NEW e \in Entity, ReceiveData(e) PROVE Goal
  <2>1. \E v : ctl' = [ctl EXCEPT ![e].mStatusTriggered = v]
    BY <1>6, Zenon DEF ReceiveData
  <2> QED BY <1>4, <2>1
<1>7. ASSUME NEW e \in Entity, ReceiveStatus(e) PROVE Goal
  BY <1>1, <1>7, Zenon DEF ReceiveStatus
<1>8. ASSUME NEW e \in Entity, RlcWriteLowSide(e), ~Resets(e) PROVE Goal
  BY <1>6, <1>7, <1>8 DEF RlcWriteLowSide, Resets
<1>9. ASSUME NEW e \in Entity, TriggerReset(e) \/ RstTimerExpires(e) PROVE Goal
  <2>1. \E v : \/ ctl' = [ctl EXCEPT ![e].mResetTriggered = v]
               \/ ctl' = [ctl EXCEPT ![e].mTimer_RST = v]
    BY <1>9, Zenon DEF TriggerReset, RstTimerExpires
  <2> QED BY <1>4, <2>1
<1>10. ASSUME NEW e \in Entity,
              \/ \E sdu \in Sdu : RlcWriteHighSide(e, sdu)
              \/ \E timer \in PollTimers : PollTimerExpires(e, timer)
              \/ LosePdu(e)
       PROVE  Goal
  BY <1>1, <1>10, Zenon DEF RlcWriteHighSide, PollTimerExpires, LosePdu, tran
<1>11. ASSUME UNCHANGED vars PROVE Goal
  <2>1. ctl' = ctl
    BY <1>11 DEF vars, tran
  <2> QED BY <1>1, <2>1
<1>12. Goal \/ \E e \in Entity : Resets(e)
  BY <1>5, <1>8, <1>9, <1>10, <1>11 DEF Next
<1> QED BY <1>12 DEF Goal

\* No data comes to a, and none to its peer while it waits.
LEMMA NoData ==
  ASSUME Inv, NEW a \in Entity, Ends(a)
  PROVE  /\ ~ReceiveData(a)
         /\ ~InStep(ctl[a], ctl[Peer(a)]) => ~ReceiveData(Peer(a))
<1>1. /\ ~Arrived(a, "DATA")
      /\ Arrived(Peer(a), "DATA") =>
           Before(win[a], recv[Peer(a)], link[Peer(a)], link[a], ctl[a], ctl[Peer(a)])
  BY EndArrivals
<1>2. Arrived(Peer(a), "DATA") => InStep(ctl[a], ctl[Peer(a)])
  BY <1>1, PhaseOf
<1> QED BY <1>1, <1>2, Zenon DEF ReceiveData

\* The sending end reads no data while its peer waits.
LEMMA WaitingReads ==
  ASSUME Inv, NEW a \in Entity, Ends(a), ~InStep(ctl[a], ctl[Peer(a)])
  PROVE  ~MayReadOn(a)
<1>1. ~Idle(ctl[a])
  BY PhaseOfEnds DEF After
<1> QED BY <1>1, Zenon DEF MayReadOn, MayRead, resetInProgress, Idle

LEMMA WaitingStep ==
  ASSUME Inv, Uppers, NEW a \in Entity, Ends(a), ~InStep(ctl[a], ctl[Peer(a)]),
         WaitingOk(source[a], upper[Peer(a)], written[a]), [Next]_vars
  PROVE  \/ WaitingOk(source'[a], upper'[Peer(a)], written'[a])
         \/ \E e \in Entity : Resets(e)
<1> DEFINE Goal == WaitingOk(source'[a], upper'[Peer(a)], written'[a])
<1>1. /\ Peer(a) \in Entity /\ Peer(a) # a /\ \A x \in Entity : x = a \/ x = Peer(a)
      /\ source[a] \in Source /\ written[a] \in Seq(Sdu)
  BY FlowTypes
<1>2. ~ReceiveData(a) /\ ~ReceiveData(Peer(a)) /\ ~MayReadOn(a)
  BY NoData, WaitingReads
<1>3. ASSUME source'[a] = source[a], upper' = upper, written' = written PROVE Goal
  BY <1>3
<1>4. ASSUME NEW e \in Entity, RlcReadLowSide(e) PROVE Goal
  <2>1. upper' = upper /\ written' = written
    BY <1>4, Zenon DEF RlcReadLowSide, ReadResetAck, ReadReset, ReadStatus,
         ReadRetransmission, ReadNewData, ReadPollOnly, Transmit, env
  <2>2. source' = source \/ (e = Peer(a) /\ ReadNewData(e))
    <3>1. ASSUME ReadNewData(e) PROVE e = Peer(a)
      <4>1. MayReadOn(e)
        BY <3>1, Zenon DEF ReadNewData, MayReadData
      <4> QED BY <1>1, <1>2, <4>1
    <3>2. source' = source \/ ReadNewData(e)
      BY <1>4, Zenon DEF RlcReadLowSide, ReadResetAck, ReadReset, ReadStatus,
         ReadRetransmission, ReadPollOnly
    <3> QED BY <3>1, <3>2
  <2>3. source'[a] = source[a]
    BY <1>1, <2>2, Zenon DEF ReadNewData, Inv, TypeOK
  <2> QED BY <1>3, <2>1, <2>3
<1>5. ASSUME NEW e \in Entity, RlcWriteLowSide(e), ~Resets(e) PROVE Goal
  <2>1. ReceiveStatus(e)
    BY <1>1, <1>2, <1>5, Zenon DEF RlcWriteLowSide, Resets
  <2>2. source' = source /\ upper' = upper /\ written' = written
    BY <2>1, Zenon DEF ReceiveStatus, env
  <2> QED BY <1>3, <2>2
<1>6. ASSUME NEW e \in Entity, NEW sdu \in Sdu, RlcWriteHighSide(e, sdu) PROVE Goal
  <2>1. upper' = upper /\ sdu.id = Len(written[e]) + 1
    BY <1>6, Zenon DEF RlcWriteHighSide
  <2>2. CASE e = a
    <3>1. /\ source'[a] = rlcWriteHighSide(source[a], sdu)
          /\ written'[a] = Append(written[a], sdu)
      BY <1>6, <2>2, Zenon DEF RlcWriteHighSide, Inv, TypeOK
    <3> QED BY <1>1, <2>1, <2>2, <3>1, WaitingWrite
  <2>3. CASE e # a
    <3>1. source'[a] = source[a] /\ written'[a] = written[a]
      BY <1>6, <2>3, Zenon DEF RlcWriteHighSide, Inv, TypeOK
    <3> QED BY <2>1, <3>1
  <2> QED BY <2>2, <2>3
<1>7. ASSUME NEW e \in Entity,
             \/ TriggerReset(e) \/ RstTimerExpires(e) \/ LosePdu(e)
             \/ \E timer \in PollTimers : PollTimerExpires(e, timer)
      PROVE  Goal
  <2>1. source' = source /\ upper' = upper /\ written' = written
    BY <1>7, Zenon DEF TriggerReset, RstTimerExpires, PollTimerExpires, LosePdu, env, tran
  <2> QED BY <1>3, <2>1
<1>8. ASSUME UNCHANGED vars PROVE Goal
  <2>1. source' = source /\ upper' = upper /\ written' = written
    BY <1>8 DEF vars, tran, env
  <2> QED BY <1>3, <2>1
<1> HIDE DEF Goal
<1>9. Goal \/ \E e \in Entity : Resets(e)
  BY <1>4, <1>5, <1>6, <1>7, <1>8 DEF Next
<1> QED BY <1>9 DEF Goal

LEMMA WriterUpper ==
  ASSUME Inv, Uppers, NEW a \in Entity, Ends(a), upper[a] = upperInit, [Next]_vars
  PROVE  upper'[a] = upperInit
<1>1. ~ReceiveData(a)
  BY NoData
<1>2. discardPartialSdu(upperInit) = upperInit
  BY DEF discardPartialSdu, upperInit
<1>3. ASSUME NEW e \in Entity, RlcReadLowSide(e) PROVE upper' = upper
  BY <1>3, Zenon DEF RlcReadLowSide, ReadResetAck, ReadReset, ReadStatus,
         ReadRetransmission, ReadNewData, ReadPollOnly, Transmit
<1>4. ASSUME NEW e \in Entity, ReceiveData(e) PROVE upper'[a] = upper[a]
  <2>1. e # a
    BY <1>1, <1>4
  <2>2. \E x : upper' = [upper EXCEPT ![e] = x]
    BY <1>4, Zenon DEF ReceiveData
  <2> QED BY <2>1, <2>2, Zenon DEF Uppers
<1>5. ASSUME NEW e \in Entity, RlcWriteLowSide(e), ~ReceiveData(e)
      PROVE  upper'[a] = upper[a] \/ upper'[a] = discardPartialSdu(upper[a])
  <2>1. upper' = upper \/ upper' = [upper EXCEPT ![e] = discardPartialSdu(upper[e])]
    BY <1>5, Zenon DEF RlcWriteLowSide, ReceiveStatus, ReceiveReset,
         ReceiveResetAck, FullReset, ResetTo
  <2> QED BY <2>1, Zenon DEF Uppers
<1>6. ASSUME NEW e \in Entity,
             \/ \E sdu \in Sdu : RlcWriteHighSide(e, sdu)
             \/ TriggerReset(e) \/ RstTimerExpires(e)
             \/ \E timer \in PollTimers : PollTimerExpires(e, timer)
             \/ LosePdu(e)
      PROVE  upper' = upper
  BY <1>6, Zenon DEF RlcWriteHighSide, TriggerReset, RstTimerExpires, PollTimerExpires,
                     LosePdu
<1>7. ASSUME UNCHANGED vars PROVE upper' = upper
  BY <1>7 DEF vars
<1>8. upper'[a] = upper[a] \/ upper'[a] = discardPartialSdu(upper[a])
  BY <1>3, <1>4, <1>5, <1>6, <1>7 DEF Next
<1> QED BY <1>2, <1>8

\* The RESET arrives: what the peer has of an SDU is thrown away.
LEMMA ResetDelivery ==
  ASSUME Inv, NEW a \in Entity, OneWayInv(a), DeliveryInv(a),
         NEW e \in Entity, ReceiveReset(e)
  PROVE  /\ InStep(ctl[a], ctl[Peer(a)])' => FlowTo(a)'
         /\ ~InStep(ctl[a], ctl[Peer(a)])' =>
              WaitingOk(source'[a], upper'[Peer(a)], written'[a])
<1> DEFINE b == Peer(a)
           d == ctl[b]
           rsn == Head(link[b]).rsn
           x == Acked(controlReset(d), rsn)
           y == Acked(d, rsn)
<1>1. /\ b \in Entity /\ b # a /\ (e = a \/ e = b)
      /\ link[a] \in Seq(Pdu) /\ link[b] \in Seq(Pdu)
      /\ ctl[a] \in Control /\ ctl[b] \in Control
  BY EndTypes
<1>2. e = b /\ link[b] # <<>> /\ Take(b) /\ Head(link[b]).type = "RESET"
  BY <1>1, EndArrivals DEF ReceiveReset, OneWayInv, Arrived
<1>3. \/ IsNewReset(d, rsn) /\ FullReset(b, x)
      \/ /\ ~IsNewReset(d, rsn)
         /\ ctl' = [ctl EXCEPT ![b] = y]
         /\ UNCHANGED <<source, win, recv, upper>>
  BY <1>2, Zenon DEF ReceiveReset, IsNewReset, Acked
<1>4. written' = written
  BY Zenon DEF ReceiveReset, env
<1>5. CASE IsNewReset(d, rsn) /\ FullReset(b, x)
  <2>1. /\ Before(win[a], recv[b], link[b], link[a], ctl[a], d)
        /\ After(win[a], recvAmInit, Tail(link[b]), link[a], ctl[a], x)
    BY <1>1, <1>2, <1>5, JoinedReset DEF OneWayInv, Ends
  <2>2. InStep(ctl[a], d) /\ ~InStep(ctl[a], x)
    BY <2>1, PhaseOf
  <2> HIDE DEF x
  <2>3. ctl'[b] = x /\ ctl'[a] = ctl[a] /\ source'[a] = source[a]
    BY <1>1, <1>5, FullResetFields
  <2>4. upper'[b] = discardPartialSdu(upper[b])
    BY <1>1, <1>5, Zenon DEF FullReset, ResetTo, DeliveryInv, Uppers
  <2>5. WaitingOk(source[a], discardPartialSdu(upper[b]), written[a])
    BY <2>2, FlowsReset DEF DeliveryInv, FlowTo
  <2> QED BY <1>4, <2>2, <2>3, <2>4, <2>5
<1>6. CASE /\ ~IsNewReset(d, rsn)
           /\ ctl' = [ctl EXCEPT ![b] = y]
           /\ UNCHANGED <<source, win, recv, upper>>
  <2>1. d.mResetReceived /\ rsn = d.mResetAckRSN
    BY <1>6 DEF IsNewReset
  <2>2. SamePhase(d, y)
    BY <1>1, <2>1, Zenon DEF SamePhase, Acked, Control
  <2>3. ctl'[b] = y /\ ctl'[a] = ctl[a]
    BY <1>1, <1>6, Zenon DEF Inv, TypeOK
  <2> HIDE DEF y
  <2>4. InStep(ctl'[a], ctl'[b]) <=> InStep(ctl[a], ctl[b])
    BY <2>2, <2>3, Zenon DEF InStep, SamePhase
  <2>5. FlowTo(a) => FlowTo(a)'
    BY <1>1, <1>2, <1>4, <1>6, TakenFlow
  <2> QED BY <1>4, <1>6, <2>4, <2>5, Zenon DEF DeliveryInv
<1> QED BY <1>3, <1>5, <1>6

\* The acknowledgement arrives: the two ends start again from empty windows.
LEMMA ResetAckDelivery ==
  ASSUME Inv, NEW a \in Entity, OneWayInv(a), DeliveryInv(a),
         NEW e \in Entity, ReceiveResetAck(e)
  PROVE  /\ InStep(ctl[a], ctl[Peer(a)])' => FlowTo(a)'
         /\ ~InStep(ctl[a], ctl[Peer(a)])' =>
              WaitingOk(source'[a], upper'[Peer(a)], written'[a])
<1> DEFINE b == Peer(a)
           c == ctl[a]
           cc == [controlReset(c) EXCEPT !.mVTRST = 0, !.mTimer_RST = "off",
                    !.mResetTransRSN = c.mResetTransRSN + 1]
<1>1. /\ b \in Entity /\ b # a /\ (e = a \/ e = b) /\ Peer(b) = a
      /\ link[a] \in Seq(Pdu) /\ link[b] \in Seq(Pdu)
      /\ ctl[a] \in Control /\ ctl[b] \in Control
  BY EndTypes
<1>2. e = a /\ link[a] # <<>> /\ Take(a) /\ Head(link[a]).type = "RESET_ACK"
  BY <1>1, EndArrivals DEF ReceiveResetAck, OneWayInv, Arrived
<1>3. link'[b] = link[b] /\ written' = written
  BY <1>1, <1>2, LinkTaken, Zenon DEF ReceiveResetAck, env
<1>4. \/ Head(link[a]).rsn = c.mResetTransRSN /\ FullReset(a, cc)
      \/ UNCHANGED <<source, win, ctl, recv, upper>>
  BY <1>2, Zenon DEF ReceiveResetAck, tran
<1>5. CASE Head(link[a]).rsn = c.mResetTransRSN /\ FullReset(a, cc)
  <2>1. /\ After(win[a], recv[b], link[b], link[a], c, ctl[b])
        /\ Before(windowInit, recv[b], link[b], Tail(link[a]), cc, ctl[b])
    BY <1>1, <1>2, <1>5, JoinedResetAck DEF OneWayInv, Ends
  <2>2. ~InStep(c, ctl[b]) /\ InStep(cc, ctl[b])
    BY <2>1, PhaseOf
  <2> HIDE DEF cc
  <2>3. /\ win'[a] = windowInit /\ ctl'[a] = cc /\ source'[a] = sourceReset(source[a])
        /\ ctl'[b] = ctl[b] /\ recv'[b] = recv[b]
    BY <1>1, <1>5, FullResetFields
  <2>4. upper'[b] = upper[b]
    BY <1>1, <1>5, Zenon DEF FullReset, ResetTo, DeliveryInv, Uppers
  <2>5. recv[b] = recvAmInit /\ \A i \in 1 .. Len(link[b]) : link[b][i].type # "DATA"
    <3>1. recv[b] = recvAmInit /\ \A i \in 1 .. Len(link[b]) : link[b][i].type = "RESET"
      BY <2>1, Zenon DEF After, IsRsn
    <3>2. "RESET" # "DATA"
      OBVIOUS
    <3> QED BY <3>1, <3>2
  <2>6. WaitingOk(source[a], upper[b], written[a])
    BY <2>2 DEF DeliveryInv
  <2>7. Flows(windowInit, sourceReset(source[a]), recvAmInit, upper[b], link[b], written[a])
    BY <2>5, <2>6, WaitingFlows
  <2>8. FlowTo(a)'
    BY <1>3, <2>3, <2>4, <2>5, <2>7 DEF FlowTo
  <2>9. InStep(ctl'[a], ctl'[b])
    BY <2>2, <2>3
  <2> QED BY <2>8, <2>9
<1>6. CASE UNCHANGED <<source, win, ctl, recv, upper>>
  <2>1. FlowTo(a) => FlowTo(a)'
    BY <1>1, <1>2, <1>3, <1>6, TakenFlow
  <2> QED BY <1>3, <1>6, <2>1, Zenon DEF DeliveryInv
<1> QED BY <1>4, <1>5, <1>6

LEMMA DeliveryNext ==
  ASSUME Inv, Inv', NEW a \in Entity, OneWayInv(a), OneWayInv(a)', DeliveryInv(a),
         [Next]_vars
  PROVE  DeliveryInv(a)'
<1>1. Uppers /\ Uppers' /\ Ends(a) /\ Ends(a)' /\ Peer(a) \in Entity
  BY UppersNext, FlowTypes DEF DeliveryInv, OneWayInv
<1>2. upper'[a] = upperInit
  BY <1>1, WriterUpper DEF DeliveryInv
<1> DEFINE Goal == /\ InStep(ctl[a], ctl[Peer(a)])' => FlowTo(a)'
                   /\ ~InStep(ctl[a], ctl[Peer(a)])' =>
                        WaitingOk(source'[a], upper'[Peer(a)], written'[a])
<1>3. ASSUME NEW e \in Entity, Resets(e) PROVE Goal
  BY <1>3, ResetDelivery, ResetAckDelivery DEF Resets
<1>4. ASSUME \A e \in Entity : ~Resets(e) PROVE Goal
  <2>1. InStep(ctl'[a], ctl'[Peer(a)]) <=> InStep(ctl[a], ctl[Peer(a)])
    <3>1. SamePhase(ctl[a], ctl'[a]) /\ SamePhase(ctl[Peer(a)], ctl'[Peer(a)])
      BY <1>1, <1>4, PhaseNext
    <3> QED BY <3>1, Zenon DEF InStep, SamePhase
  <2>2. CASE InStep(ctl[a], ctl[Peer(a)])
    <3>1. Two(a) /\ FlowTo(a)
      BY <1>1, <2>2, PhaseOfEnds DEF DeliveryInv
    <3>2. Two(a)'
      <4>1. \/ Before(win[a], recv[Peer(a)], link[Peer(a)], link[a], ctl[a], ctl[Peer(a)])'
            \/ After(win[a], recv[Peer(a)], link[Peer(a)], link[a], ctl[a], ctl[Peer(a)])'
        BY <1>1 DEF Ends, Joined
      <4>2. ~After(win'[a], recv'[Peer(a)], link'[Peer(a)], link'[a], ctl'[a], ctl'[Peer(a)])
        BY <2>1, <2>2, PhaseOf
      <4> QED BY <4>1, <4>2 DEF Before, Two
    <3>3. FlowTo(a)'
      BY <1>1, <1>4, <3>1, <3>2, FlowNext
    <3> QED BY <2>1, <2>2, <3>3
  <2>3. CASE ~InStep(ctl[a], ctl[Peer(a)])
    <3>1. WaitingOk(source[a], upper[Peer(a)], written[a])
      BY <2>3 DEF DeliveryInv
    <3>2. WaitingOk(source'[a], upper'[Peer(a)], written'[a])
      BY <1>1, <1>4, <2>3, <3>1, WaitingStep
    <3> QED BY <2>1, <2>3, <3>2
  <2> QED BY <2>2, <2>3
<1>5. Goal
  BY <1>3, <1>4
<1> QED BY <1>1, <1>2, <1>5 DEF DeliveryInv

LEMMA DeliveryInit == ASSUME Init, NEW a \in Entity PROVE DeliveryInv(a)
<1>1. Uppers /\ FlowTo(a)
  BY InitUppers, InitFlow
<1>2. upper[a] = upperInit /\ ctl[a] = controlInit /\ ctl[Peer(a)] = controlInit
  BY PeerType, Zenon DEF Init
<1>3. InStep(controlInit, controlInit)
  BY DEF controlInit, InStep
<1> QED BY <1>1, <1>2, <1>3 DEF DeliveryInv

LEMMA DeliveryProperty ==
  ASSUME Inv, NEW a \in Entity, DeliveryInv(a) PROVE DeliveredInOrder
<1>1. /\ Peer(a) \in Entity /\ Peer(Peer(a)) = a /\ \A x \in Entity : x = a \/ x = Peer(a)
  BY TwoEntities
<1>2. Handed(upper[Peer(a)].delivered, written[a]) /\ upper[Peer(a)] \in Upper
  BY FlowHanded DEF DeliveryInv, WaitingOk
<1>3. Handed(upper[a].delivered, written[Peer(a)]) /\ upper[a] \in Upper
  <2>1. upper[a] = upperInit /\ upperInit.delivered = <<>>
    BY DEF DeliveryInv, upperInit
  <2>2. \A i \in 1 .. Len(<<>>) : FALSE
    BY EmptySeq, SMT
  <2>3. Handed(<<>>, written[Peer(a)])
    BY <2>2, Zenon DEF Handed
  <2>4. <<>> \in Seq(Segment) /\ <<>> \in Seq(Seq(Segment))
    BY EmptySeq
  <2>5. upperInit \in Upper
    BY <2>4, Zenon DEF upperInit, Upper
  <2> QED BY <2>1, <2>3, <2>5
<1>4. \A x \in Entity : Handed(upper[Peer(x)].delivered, written[x]) /\ upper[Peer(x)] \in Upper
  BY <1>1, <1>2, <1>3
<1> QED BY <1>4, AllDelivered

\* What an end hands up is whole SDUs in the order its peer wrote them, none of
\* them twice, across any number of resets by the writing end, with RESETs,
\* acknowledgements and data lost and old ones still under way: a reset loses
\* SDUs (recvDoReset, URlcRecvAmUm.h:29) and never joins the beginning of
\* one to the end of another.
THEOREM SpecDeliveredInOrder ==
  ASSUME NEW a \in Entity, OneWay(a) PROVE Spec => []DeliveredInOrder
<1>1. Init => OneWayInv(a)
  BY OneWayInit
<1>2. Inv /\ OneWayInv(a) /\ [Next]_vars => OneWayInv(a)'
  BY OneWayNext
<1>3. Init => DeliveryInv(a)
  BY DeliveryInit
<1>4. Inv /\ Inv' /\ OneWayInv(a) /\ OneWayInv(a)' /\ DeliveryInv(a) /\ [Next]_vars
        => DeliveryInv(a)'
  BY DeliveryNext
<1>5. Inv /\ DeliveryInv(a) => DeliveredInOrder
  BY DeliveryProperty
<1> QED BY <1>1, <1>2, <1>3, <1>4, <1>5, SpecInv, PTL DEF Spec
=============================================================================
