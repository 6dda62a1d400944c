----------------------------- MODULE RlcAmProofs -----------------------------
(***************************************************************************)
(* Facts about the sequence-number arithmetic, for every even number       *)
(* space; and the operators of AmTransmitter and AmReceiver, which keep    *)
(* the records of an entity well-formed, keep what the retransmission      *)
(* pointer relies on and keep the PDU at mVRR missing.  Then two           *)
(* invariants of a pair of acknowledged-mode entities, proved for every    *)
(* configuration, number space, set of SDUs and bound: the NACK            *)
(* pointer is good whenever it is dereferenced, and the next PDU expected  *)
(* is never one already received.  Typing alone is not inductive: a step   *)
(* that repeats the PDU at mVSNack keeps the window well-formed only       *)
(* because that PDU exists.  Inv adds what is missing.                     *)
(***************************************************************************)
EXTENDS RlcAmProperties, SequenceTheorems, WellFoundedInduction, TLAPS

\* A set of natural numbers that is not empty has a least element: what the
\* CHOOSEs that stand for the loops over PDU numbers rely on.
LEMMA NatMin ==
  ASSUME NEW T \in SUBSET Nat, T # {}
  PROVE  \E x \in T : \A y \in T : x <= y
<1> DEFINE R == OpToRel(<, Nat)
<1>1. IsWellFoundedOn(R, Nat)
  BY NatLessThanWellFounded, Zenon
<1>2. \A x, y \in Nat : y < x => <<y, x>> \in R
  BY Zenon DEF OpToRel
<1> HIDE DEF R
<1>3. \E x \in T : \A y \in T : ~ (<<y, x>> \in R)
  BY <1>1, WFMin, Zenon
<1>4. \E x \in T : \A y \in T : ~ (y < x)
  BY <1>3, <1>2, Zenon
<1> QED
  BY <1>4, SMT

\* Bounded sets of natural numbers have a greatest element.
LEMMA NatMax ==
  ASSUME NEW T \in SUBSET Nat, T # {}, NEW N \in Nat, \A x \in T : x <= N
  PROVE  \E x \in T : \A y \in T : y <= x
<1> DEFINE D == {N - x : x \in T}
<1>1. D \in SUBSET Nat /\ D # {}
  <2>1. \A x \in T : N - x \in Nat
    BY SMT
  <2> QED
    BY <2>1, Zenon
<1>2. PICK d \in D : \A y \in D : d <= y
  <2> HIDE DEF D
  <2> QED BY <1>1, NatMin
<1>3. PICK x \in T : d = N - x
  BY <1>2
<1>4. \A y \in T : N - y \in D
  OBVIOUS
<1>5. \A y \in T : y <= x
  BY <1>2, <1>3, <1>4, SMT
<1> QED
  BY <1>3, <1>5

\* Sums of sequence numbers, forwards or backwards, are sequence numbers.
LEMMA AddSNType ==
  ASSUME NEW a \in Int, NEW b \in Int
  PROVE  addSN(a, b) \in SN
BY SNSAssumption, SMT DEF addSN, SN

LEMMA IncSNType == ASSUME NEW a \in SN PROVE incSN(a) \in SN
BY AddSNType, SNSAssumption, SMT DEF incSN, SN

LEMMA DeltaSNType ==
  ASSUME NEW a \in SN, NEW b \in SN
  PROVE  deltaSN(a, b) \in -(mSNS \div 2) .. (mSNS \div 2)
BY SNSAssumption, SMT DEF deltaSN, SN

LEMMA OffsetType ==
  ASSUME NEW a \in SN, NEW b \in SN PROVE Offset(a, b) \in SN
BY SNSAssumption, SMT DEF Offset, SN

LEMMA MinSNType ==
  ASSUME NEW a \in SN, NEW b \in SN PROVE minSN(a, b) \in SN
BY Zenon DEF minSN

\* The number a scan from `from` on stops at belongs to the set it looks for.
LEMMA NearestType ==
  ASSUME NEW from \in SN, NEW S \in SUBSET SN, S # {}
  PROVE  Nearest(from, S) \in S
<1> DEFINE D == {Offset(from, sn) : sn \in S}
<1>1. D \in SUBSET Nat /\ D # {}
  <2>1. \A sn \in S : Offset(from, sn) \in Nat
    BY OffsetType, SNSAssumption, SMT DEF SN
  <2> QED
    BY <2>1, Zenon
<1>2. PICK d \in D : \A y \in D : d <= y
  <2> HIDE DEF D
  <2> QED BY <1>1, NatMin
<1>3. PICK sn \in S : d = Offset(from, sn)
  BY <1>2
<1>4. \A other \in S : Offset(from, sn) <= Offset(from, other)
  BY <1>2, <1>3
<1> QED
  BY <1>3, <1>4, Zenon DEF Nearest

-----------------------------------------------------------------------------
(* Distances.  Moving the number they are measured from shifts them all    *)
(* alike, as long as they stay below half of the number space.             *)

\* deltaSN is exact for numbers less than Half apart.
Half == mSNS \div 2

LEMMA HalfType == Half \in Nat /\ mSNS = 2 * Half /\ Half >= 1
BY SNSAssumption, SMT DEF Half

\* deltaSN, its two corrections as one choice.
LEMMA DeltaSNCases ==
  ASSUME NEW a \in SN, NEW b \in SN
  PROVE  /\ deltaSN(a, b) \in Int
         /\ deltaSN(a, b) = IF a - b < -Half THEN a - b + mSNS
                         ELSE IF a - b > Half THEN a - b - mSNS ELSE a - b
         /\ a \in Int /\ b \in Int /\ 0 <= a /\ a < mSNS /\ 0 <= b /\ b < mSNS
<1>1. a \in Int /\ b \in Int /\ 0 <= a /\ a < mSNS /\ 0 <= b /\ b < mSNS /\ mSNS \in Int
  BY SNSAssumption, SMT DEF SN
<1>2. deltaSN(a, b) = IF a - b < -Half THEN a - b + mSNS
                         ELSE IF a - b > Half THEN a - b - mSNS ELSE a - b
  BY <1>1, HalfType, SMT DEF deltaSN, Half
<1> QED BY <1>1, <1>2, HalfType, SMT

\* Distances add up while they are small.
LEMMA DeltaShift ==
  ASSUME NEW a \in SN, NEW b \in SN, NEW x \in SN,
         deltaSN(x, a) - deltaSN(b, a) < Half, -Half < deltaSN(x, a) - deltaSN(b, a)
  PROVE  deltaSN(x, b) = deltaSN(x, a) - deltaSN(b, a)
<1> DEFINE h == Half
<1>1. h \in Nat /\ mSNS = 2 * h /\ h >= 1
  BY HalfType
<1> HIDE DEF h
<1> QED
BY <1>1, DeltaSNCases, HalfType, SMT

LEMMA DeltaZero ==
  ASSUME NEW a \in SN, NEW b \in SN
  PROVE  deltaSN(a, b) = 0 <=> a = b
BY DeltaSNCases, HalfType, SMT

LEMMA DeltaInc ==
  ASSUME NEW a \in SN, NEW x \in SN,
         deltaSN(x, a) < Half - 1, -Half < deltaSN(x, a)
  PROVE  incSN(x) \in SN /\ deltaSN(incSN(x), a) = deltaSN(x, a) + 1
<1>1. incSN(x) = IF x = mSNS - 1 THEN 0 ELSE x + 1
  BY SNSAssumption, SMT DEF incSN, addSN, SN
<1>2. incSN(x) \in SN
  BY IncSNType
<1> QED
BY <1>1, <1>2, DeltaSNCases, HalfType, SMT

LEMMA OffsetCases ==
  ASSUME NEW a \in SN, NEW x \in SN
  PROVE  Offset(a, x) = IF x >= a THEN x - a ELSE x - a + mSNS
BY SNSAssumption, SMT DEF Offset, SN

\* A loop from one number to a later one visits what lies between.
LEMMA SpanDelta ==
  ASSUME NEW from \in SN, NEW to \in SN, NEW x \in SN,
         0 <= deltaSN(to, from), deltaSN(to, from) < Half
  PROVE  x \in Span(from, to) <=> 0 <= deltaSN(x, from) /\ deltaSN(x, from) < deltaSN(to, from)
<1>1. deltaSN(from, to) = - deltaSN(to, from)
  BY DeltaSNCases, HalfType, SMT
<1>2. x \in Span(from, to) <=> deltaSN(from, to) < 0 /\ Offset(from, x) < deltaSN(to, from)
  BY Zenon DEF Span
<1> QED
  BY <1>1, <1>2, OffsetCases, DeltaSNCases, HalfType, SMT

\* addSN, with no remainder.
LEMMA AddCases ==
  ASSUME NEW x \in SN, NEW k \in Nat, k < mSNS
  PROVE  /\ addSN(x, k) \in SN
         /\ addSN(x, k) = IF x + k >= mSNS THEN x + k - mSNS ELSE x + k
BY SNSAssumption, SMT DEF addSN, SN

LEMMA DeltaAdd ==
  ASSUME NEW a \in SN, NEW x \in SN, NEW k \in Nat,
         -Half < deltaSN(x, a), deltaSN(x, a) + k < Half
  PROVE  /\ addSN(x, k) \in SN
         /\ deltaSN(addSN(x, k), a) = deltaSN(x, a) + k
<1>1. deltaSN(x, a) \in Int /\ Half \in Nat /\ mSNS = 2 * Half /\ Half >= 1
  BY DeltaSNCases, HalfType
<1>2. k < mSNS
  BY <1>1, SMT
<1>3. addSN(x, k) \in SN
  BY <1>2, AddCases
<1>4. addSN(x, k) = IF x + k >= mSNS THEN x + k - mSNS ELSE x + k
  BY <1>2, AddCases
<1> QED BY <1>1, <1>3, <1>4, DeltaSNCases, SMT

\* The two ways to measure how far a number is ahead agree.
LEMMA DeltaOffset ==
  ASSUME NEW from \in SN, NEW sn \in SN, 0 <= deltaSN(sn, from),
         deltaSN(sn, from) < Half
  PROVE  Offset(from, sn) = deltaSN(sn, from)
BY OffsetCases, DeltaSNCases, HalfType, SMT

-----------------------------------------------------------------------------
(* The records of an entity.                                               *)

LEMMA ZeroSN == 0 \in SN
BY SNSAssumption, SMT DEF SN

LEMMA TimerType == {"off", "running", "expired"} \subseteq Timer
BY DEF Timer

-----------------------------------------------------------------------------
(* Initial states and resets.                                              *)

LEMMA SourceInitType == sourceInit \in Source
BY EmptySeq, SMT DEF sourceInit, Source

LEMMA WindowInitType == windowInit \in Window
BY ZeroSN, SMT DEF windowInit, Window

LEMMA PollingInitType == pollingInit \in Polling
BY ZeroSN, ConfigAssumption, SMT DEF pollingInit, Polling, Timer

LEMMA ControlInitType == controlInit \in Control
BY SMT DEF controlInit, Control, Timer

LEMMA SourceResetType ==
  ASSUME NEW s \in Source PROVE sourceReset(s) \in Source
BY SourceInitType, Zenon DEF sourceReset, Source

LEMMA PollingResetType ==
  ASSUME NEW p \in Polling PROVE pollingReset(p) \in Polling
<1>1. mConfig.mPollPdu \in Nat /\ mConfig.mPollSdu \in Nat
  BY ConfigAssumption, SMT
<1> QED
  BY <1>1, TimerType, Zenon DEF pollingReset, Polling

LEMMA ControlResetType ==
  ASSUME NEW c \in Control PROVE controlReset(c) \in Control
BY Zenon DEF controlReset, Control

LEMMA ResetStartedType ==
  ASSUME NEW c \in Control PROVE ResetStarted(c) \in Control
<1>1. c.mVTRST + 1 \in Nat
  BY SMT DEF Control
<1> QED
  BY <1>1, TimerType, Zenon DEF ResetStarted, Control

-----------------------------------------------------------------------------
(* The SDUs to be sent.                                                    *)

LEMMA RlcWriteHighSideType ==
  ASSUME NEW s \in Source, NEW sdu \in Sdu
  PROVE  rlcWriteHighSide(s, sdu) \in Source
<1> DEFINE q     == Append(s.mSduTxQ, sdu)
           extra == Len(q) - mConfig.mTransmissionBufferSdus
<1>1. q \in Seq(Sdu) /\ Len(q) \in Nat
  BY SMT DEF Source
<1>2. extra \in Int /\ extra <= Len(q)
  BY <1>1, ConfigAssumption, SMT
<1>3. CASE s.mSplitSdu = NoSdu /\ extra > 0
  <2>1. SubSeq(q, extra + 1, Len(q)) \in Seq(Sdu)
    <3> HIDE DEF q
    <3> QED BY <1>1, <1>2, <1>3, SMT
  <2>2. s.mVTSDU + extra - 1 \in Nat
    BY <1>2, <1>3, SMT DEF Source
  <2> QED
    BY <1>3, <2>1, <2>2, Zenon DEF rlcWriteHighSide, Source
<1>4. CASE ~ (s.mSplitSdu = NoSdu /\ extra > 0)
  BY <1>1, <1>4, Zenon DEF rlcWriteHighSide, Source
<1> QED
  BY <1>3, <1>4

LEMMA NextSegmentType ==
  ASSUME NEW s \in Source PROVE NextSegment(s) \in Segment \cup {NoSdu}
BY SMT DEF NextSegment, Source, Segment

LEMMA EndsSduType == ASSUME NEW seg PROVE EndsSdu(seg) \in BOOLEAN
BY SMT DEF EndsSdu

LEMMA FilledPayloadType ==
  ASSUME NEW s \in Source PROVE FilledPayload(s) \in Payload
BY NextSegmentType, SMT DEF FilledPayload, Payload, Source, EndsSdu

LEMMA FillPduDataType ==
  ASSUME NEW s \in Source PROVE fillPduData(s) \in Source
BY NextSegmentType, SduAssumption, SMT
   DEF fillPduData, Source, EndsSdu, Segment
-----------------------------------------------------------------------------
(* The transmission window.                                                *)

\* The pointer to the next PDU to repeat is good whenever it may be followed.
NackOk(w) == w.mNackedBlocksWaiting => IsNacked(w, w.mVSNack)

LEMMA PduSnType ==
  ASSUME NEW w \in Window
  PROVE  /\ w.mVTS \in SN /\ w.mVTA \in SN /\ w.mVSNack \in SN
         /\ w.mNackedBlocksWaiting \in BOOLEAN
         /\ w.mPduTxQ \in [SN -> TxPdu \cup {NoPdu}]
BY Zenon DEF Window

LEMMA GetDataPduType ==
  ASSUME NEW w \in Window, NEW payload \in Payload
  PROVE  /\ getDataPdu(w, payload) \in Window
         /\ getDataPdu(w, payload).mPduTxQ[w.mVTS] \in TxPdu
         /\ getDataPdu(w, payload).mNackedBlocksWaiting = w.mNackedBlocksWaiting
<1> DEFINE pdu == [payload |-> payload, mNacked |-> FALSE, mVTDAT |-> 0]
<1>1. pdu \in TxPdu
  BY SMT DEF TxPdu
<1>2. incSN(w.mVTS) \in SN
  BY IncSNType, PduSnType
<1>3. [w.mPduTxQ EXCEPT ![w.mVTS] = pdu] \in [SN -> TxPdu \cup {NoPdu}]
  BY <1>1, PduSnType, Zenon
<1>4. [w.mPduTxQ EXCEPT ![w.mVTS] = pdu][w.mVTS] = pdu
  BY PduSnType, Zenon
<1>5. getDataPdu(w, payload) =
        [w EXCEPT !.mPduTxQ = [w.mPduTxQ EXCEPT ![w.mVTS] = pdu],
                  !.mVTS = incSN(w.mVTS)]
  BY Zenon DEF getDataPdu
<1> HIDE DEF pdu
<1>6. getDataPdu(w, payload) \in Window
  BY <1>2, <1>3, <1>5, Zenon DEF Window
<1>7. getDataPdu(w, payload).mPduTxQ = [w.mPduTxQ EXCEPT ![w.mVTS] = pdu]
  BY <1>5, Zenon DEF Window
<1>8. getDataPdu(w, payload).mNackedBlocksWaiting = w.mNackedBlocksWaiting
  BY <1>5, Zenon DEF Window
<1> QED
  BY <1>1, <1>4, <1>6, <1>7, <1>8

LEMMA SetNAckType ==
  ASSUME NEW w \in Window, NEW nacks \in SUBSET SN
  PROVE  setNAck(w, nacks) \in Window
<1> DEFINE hit == {sn \in nacks : w.mPduTxQ[sn] # NoPdu}
           q   == [sn \in SN |-> IF sn \in hit
                                 THEN [w.mPduTxQ[sn] EXCEPT !.mNacked = TRUE]
                                 ELSE w.mPduTxQ[sn]]
<1>1. \A sn \in hit : [w.mPduTxQ[sn] EXCEPT !.mNacked = TRUE] \in TxPdu
  BY PduSnType, Zenon DEF TxPdu
<1>2. q \in [SN -> TxPdu \cup {NoPdu}]
  BY <1>1, PduSnType, Zenon
<1>3. setNAck(w, nacks) =
        [w EXCEPT !.mPduTxQ = q,
                  !.mNackedBlocksWaiting = w.mNackedBlocksWaiting \/ hit # {}]
  BY Zenon DEF setNAck
<1> HIDE DEF q, hit
<1> QED
  BY <1>2, <1>3, PduSnType, Zenon DEF Window

LEMMA AdvanceVTAType ==
  ASSUME NEW w \in Window, NEW newvta \in SN
  PROVE  advanceVTA(w, newvta) \in Window
<1>1. [sn \in SN |-> IF sn \in Span(w.mVTA, newvta) THEN NoPdu ELSE w.mPduTxQ[sn]]
        \in [SN -> TxPdu \cup {NoPdu}]
  BY PduSnType, Zenon
<1> QED
  BY <1>1, Zenon DEF advanceVTA, Window

\* The scan leaves a good pointer, whatever it starts from.
LEMMA AdvanceVSType ==
  ASSUME NEW w \in Window, NEW from \in SN
  PROVE  /\ advanceVS(w, from) \in Window
         /\ advanceVS(w, from).mPduTxQ = w.mPduTxQ
         /\ NackOk(advanceVS(w, from))
<1> DEFINE nacked == {sn \in Span(from, w.mVTS) : IsNacked(w, sn)}
<1>1. CASE nacked # {}
  <2>1. nacked \in SUBSET SN
    BY Zenon DEF Span
  <2>2. Nearest(from, nacked) \in nacked
    <3> HIDE DEF nacked
    <3> QED BY <1>1, <2>1, NearestType, Zenon
  <2>3. advanceVS(w, from) = [w EXCEPT !.mVSNack = Nearest(from, nacked)]
    BY <1>1, Zenon DEF advanceVS
  <2>4. /\ Nearest(from, nacked) \in SN
        /\ IsNacked(w, Nearest(from, nacked))
    BY <2>1, <2>2
  <2> HIDE DEF nacked
  <2>5. /\ advanceVS(w, from) \in Window
        /\ advanceVS(w, from).mPduTxQ = w.mPduTxQ
        /\ advanceVS(w, from).mVSNack = Nearest(from, nacked)
    BY <2>3, <2>4, Zenon DEF Window
  <2> QED
    BY <2>4, <2>5, Zenon DEF NackOk, IsNacked
<1>2. CASE nacked = {}
  <2>1. PICK vs \in SN : advanceVS(w, from) =
          [w EXCEPT !.mVSNack = vs, !.mNackedBlocksWaiting = FALSE]
    BY <1>2, PduSnType, Zenon DEF advanceVS
  <2>2. /\ advanceVS(w, from) \in Window
        /\ advanceVS(w, from).mPduTxQ = w.mPduTxQ
        /\ ~advanceVS(w, from).mNackedBlocksWaiting
    BY <2>1, Zenon DEF Window
  <2> QED
    BY <2>2, Zenon DEF NackOk
<1> QED
  BY <1>1, <1>2
\* A status report, from wherever it comes, leaves a good pointer behind.
LEMMA ProcessSUFIsType ==
  ASSUME NEW w \in Window, NEW status \in Status
  PROVE  /\ processSUFIs2(w, status) \in Window
         /\ NackOk(processSUFIs2(w, status))
<1> DEFINE newva == minSN(w.mVTA, status.first)
           bound == IF status.nacks = {} \/ deltaSN(status.lsn, newva) <= 0
                    THEN status.lsn ELSE newva
           acked == advanceVTA(setNAck(w, status.nacks), bound)
<1>1. status.nacks \in SUBSET SN /\ status.first \in SN /\ status.lsn \in SN
  BY Zenon DEF Status
<1>2. newva \in SN
  BY <1>1, PduSnType, MinSNType
<1>3. bound \in SN
  BY <1>1, <1>2, Zenon
<1>4. acked \in Window
  <2> HIDE DEF bound
  <2> QED BY <1>1, <1>3, SetNAckType, AdvanceVTAType, Zenon
<1>5. processSUFIs2(w, status) =
        IF acked.mNackedBlocksWaiting THEN advanceVS(acked, acked.mVTA) ELSE acked
  BY Zenon DEF processSUFIs2
<1> HIDE DEF acked
<1>6. CASE acked.mNackedBlocksWaiting
  BY <1>4, <1>5, <1>6, PduSnType, AdvanceVSType, Zenon
<1>7. CASE ~acked.mNackedBlocksWaiting
  BY <1>4, <1>5, <1>7, Zenon DEF NackOk
<1> QED
  BY <1>6, <1>7

LEMMA IsNackedTxPdu ==
  ASSUME NEW w \in Window, NEW sn \in SN, IsNacked(w, sn)
  PROVE  w.mPduTxQ[sn] \in TxPdu
BY PduSnType, Zenon DEF IsNacked

\* Repeating the PDU the pointer names keeps the PDU and moves the pointer.
LEMMA RetransmittedType ==
  ASSUME NEW w \in Window, w.mNackedBlocksWaiting, NackOk(w)
  PROVE  /\ Retransmitted(w) \in Window
         /\ NackOk(Retransmitted(w))
         /\ Retransmitted(w).mPduTxQ[w.mVSNack] \in TxPdu
<1> DEFINE pdu == [w.mPduTxQ[w.mVSNack] EXCEPT !.mNacked = FALSE]
           q   == [w.mPduTxQ EXCEPT ![w.mVSNack] = pdu]
           cleared == [w EXCEPT !.mPduTxQ = q]
<1>1. w.mVSNack \in SN
  BY PduSnType
<1>2. w.mPduTxQ[w.mVSNack] \in TxPdu
  BY <1>1, IsNackedTxPdu, Zenon DEF NackOk
<1>3. pdu \in TxPdu
  BY <1>2, Zenon DEF TxPdu
<1>4. q \in [SN -> TxPdu \cup {NoPdu}] /\ q[w.mVSNack] = pdu
  BY <1>1, <1>3, PduSnType, Zenon
<1>5. Retransmitted(w) = advanceVS(cleared, incSN(w.mVSNack))
  BY Zenon DEF Retransmitted
<1> HIDE DEF pdu, q
<1>6. cleared \in Window /\ cleared.mPduTxQ = q
  BY <1>4, Zenon DEF Window
<1>7. incSN(w.mVSNack) \in SN
  BY <1>1, IncSNType
<1> QED
  BY <1>3, <1>4, <1>5, <1>6, <1>7, AdvanceVSType, Zenon

LEMMA CountTransmissionType ==
  ASSUME NEW w \in Window, NEW sn \in SN, w.mPduTxQ[sn] \in TxPdu
  PROVE  /\ CountTransmission(w, sn) \in Window
         /\ NackOk(w) => NackOk(CountTransmission(w, sn))
<1> DEFINE pdu == [w.mPduTxQ[sn] EXCEPT !.mVTDAT = w.mPduTxQ[sn].mVTDAT + 1]
           q   == [w.mPduTxQ EXCEPT ![sn] = pdu]
<1>1. w.mPduTxQ[sn].mVTDAT + 1 \in Nat
  BY SMT DEF TxPdu
<1>2. pdu \in TxPdu /\ pdu.mNacked = w.mPduTxQ[sn].mNacked
  BY <1>1, Zenon DEF TxPdu
<1>3. pdu # NoPdu
  BY <1>2, NullAssumption
<1>4. q \in [SN -> TxPdu \cup {NoPdu}]
  BY <1>2, PduSnType, Zenon
<1>5. \A x \in SN : q[x] = IF x = sn THEN pdu ELSE w.mPduTxQ[x]
  BY PduSnType, Zenon
<1>6. CountTransmission(w, sn) = [w EXCEPT !.mPduTxQ = q]
  BY Zenon DEF CountTransmission
<1> HIDE DEF pdu, q
<1>7. /\ CountTransmission(w, sn) \in Window
      /\ CountTransmission(w, sn).mPduTxQ = q
      /\ CountTransmission(w, sn).mVSNack = w.mVSNack
      /\ CountTransmission(w, sn).mNackedBlocksWaiting = w.mNackedBlocksWaiting
  BY <1>4, <1>6, Zenon DEF Window
<1> QED
  BY <1>2, <1>3, <1>5, <1>7, PduSnType, Zenon DEF NackOk, IsNacked

-----------------------------------------------------------------------------
(* Polling.                                                                *)

LEMMA PollAnsweredType ==
  ASSUME NEW p \in Polling, NEW w PROVE PollAnswered(p, w) \in Polling
BY TimerType, Zenon DEF PollAnswered, Polling

LEMMA IsPollTriggeredType ==
  ASSUME NEW p \in Polling, NEW s \in Source
  PROVE  IsPollTriggered(p, s) \in Polling
<1>1. /\ s.mVTPDU + mConfig.mPollPdu \in Nat
      /\ s.mVTSDU + mConfig.mPollSdu \in Nat
  BY ConfigAssumption, SMT DEF Source
<1>2. (\/ PollPduDue(p, s) \/ PollSduDue(p, s)
       \/ PeriodicDue(p)   \/ TimerPollDue(p)) \in BOOLEAN
  BY Zenon
<1>3. /\ p.mVTPDUPollTrigger \in Nat /\ p.mVTSDUPollTrigger \in Nat
      /\ p.mTimer_Poll_Periodic \in Timer
  BY Zenon DEF Polling
<1> QED
  BY <1>1, <1>2, <1>3, TimerType, Zenon DEF IsPollTriggered, Polling

LEMMA PollSentType ==
  ASSUME NEW p \in Polling, NEW vts \in SN PROVE PollSent(p, vts) \in Polling
BY TimerType, Zenon DEF PollSent, Polling

LEMMA PollAskedIfType ==
  ASSUME NEW p \in Polling, NEW asked \in BOOLEAN
  PROVE  PollAskedIf(p, asked) \in Polling
BY Zenon DEF PollAskedIf, Polling

-----------------------------------------------------------------------------
(* The receiving half.                                                     *)

\* The next PDU expected has not been received.
NextMissing(r) == r.mPduRxQ[r.mVRR] = NoPdu

LEMMA RxType ==
  ASSUME NEW r \in Rx
  PROVE  /\ r.mVRR \in SN /\ r.mVRH \in SN /\ r.mStatusSN \in SN
         /\ r.mPduRxQ \in [SN -> Payload \cup {NoPdu}]
BY Zenon DEF Rx

LEMMA RecvAmInitType == recvAmInit \in Rx /\ NextMissing(recvAmInit)
BY ZeroSN, Zenon DEF recvAmInit, Rx, NextMissing

LEMMA PollSeenType ==
  ASSUME NEW r \in Rx, NEW p
  PROVE  /\ PollSeen(r, p) \in Rx
         /\ PollSeen(r, p).mVRR = r.mVRR
         /\ PollSeen(r, p).mPduRxQ = r.mPduRxQ
BY Zenon DEF PollSeen, Rx

LEMMA StoredType ==
  ASSUME NEW r \in Rx, NEW sn \in SN, NEW payload \in Payload
  PROVE  /\ Stored(r, sn, payload) \in Rx
         /\ Stored(r, sn, payload).mVRR = r.mVRR
         /\ sn # r.mVRR /\ NextMissing(r) => NextMissing(Stored(r, sn, payload))
<1> DEFINE q == [r.mPduRxQ EXCEPT ![sn] = payload]
<1>1. /\ q \in [SN -> Payload \cup {NoPdu}]
      /\ \A x \in SN : x # sn => q[x] = r.mPduRxQ[x]
  BY RxType, Zenon
<1>2. incSN(sn) \in SN
  BY IncSNType
<1>3. Stored(r, sn, payload) =
        [r EXCEPT !.mPduRxQ = q,
                  !.mVRH = IF RaisesVRH(r, sn) THEN incSN(sn) ELSE r.mVRH]
  BY Zenon DEF Stored
<1> HIDE DEF q
<1>4. /\ Stored(r, sn, payload) \in Rx
      /\ Stored(r, sn, payload).mVRR = r.mVRR
      /\ Stored(r, sn, payload).mPduRxQ = q
  BY <1>1, <1>2, <1>3, Zenon DEF Rx
<1> QED
  BY <1>1, <1>4, RxType, Zenon DEF NextMissing

\* The PDUs taken off the queue are all there, and the run of them is the
\* longest: it is ended by a gap, or it is the whole number space.
LEMMA InSequenceMaximal ==
  ASSUME NEW r \in Rx
  PROVE  /\ InSequence(r) \in 0 .. mSNS
         /\ \A i \in 0 .. (InSequence(r) - 1) : r.mPduRxQ[addSN(r.mVRR, i)] # NoPdu
         /\ InSequence(r) < mSNS =>
              r.mPduRxQ[addSN(r.mVRR, InSequence(r))] = NoPdu
<1> DEFINE run == {n \in 0 .. mSNS : \A i \in 0 .. (n - 1) :
                                        r.mPduRxQ[addSN(r.mVRR, i)] # NoPdu}
<1>1. mSNS \in Nat
  BY SNSAssumption
<1>2. /\ run \in SUBSET Nat
      /\ \A n \in run : n <= mSNS
      /\ 0 \in run
  BY <1>1, SMT
<1>3. \E n \in run : \A m \in run : m <= n
  <2> HIDE DEF run
  <2> QED BY <1>1, <1>2, NatMax
<1>4. /\ InSequence(r) \in run
      /\ \A m \in run : m <= InSequence(r)
  BY <1>3, Zenon DEF InSequence
<1>5. ASSUME InSequence(r) < mSNS,
             r.mPduRxQ[addSN(r.mVRR, InSequence(r))] # NoPdu
      PROVE  FALSE
  <2>1. InSequence(r) + 1 \in run
    BY <1>1, <1>4, <1>5, SMT
  <2> QED
    <3> DEFINE n == InSequence(r)
    <3>1. n \in 0 .. mSNS
      BY <1>4
    <3>2. n + 1 <= n
      BY <1>4, <2>1
    <3> HIDE DEF n
    <3> QED
      BY <1>1, <3>1, <3>2, SMT
<1> QED
  BY <1>4, <1>5, SMT

LEMMA AdvanceVRRType ==
  ASSUME NEW r \in Rx
  PROVE  /\ advanceVRR(r) \in Rx
         /\ NextMissing(advanceVRR(r))
<1> DEFINE n   == InSequence(r)
           vrr == addSN(r.mVRR, n)
           q   == [sn \in SN |-> IF Offset(r.mVRR, sn) < n
                                 THEN NoPdu ELSE r.mPduRxQ[sn]]
<1>1. n \in 0 .. mSNS /\ r.mVRR \in 0 .. (mSNS - 1)
  BY InSequenceMaximal, RxType DEF SN
<1>2. vrr \in SN
  BY <1>1, SNSAssumption, AddSNType, SMT
<1>3. q \in [SN -> Payload \cup {NoPdu}]
  BY RxType, Zenon
<1>4. q[vrr] = NoPdu
  <2>1. CASE n < mSNS
    <3>1. r.mPduRxQ[vrr] = NoPdu
      BY <2>1, InSequenceMaximal
    <3> QED
      BY <1>2, <3>1, Zenon
  <2>2. CASE n = mSNS
    <3>1. Offset(r.mVRR, vrr) < n
      BY <1>1, <1>2, <2>2, OffsetType, RxType, SNSAssumption, SMT DEF SN
    <3> QED
      BY <1>2, <3>1, Zenon
  <2> QED
    BY <1>1, <2>1, <2>2, SNSAssumption, SMT
<1>5. advanceVRR(r) = [r EXCEPT !.mVRR = vrr, !.mPduRxQ = q]
  BY Zenon DEF advanceVRR
<1> HIDE DEF vrr, q
<1>6. /\ advanceVRR(r) \in Rx
      /\ advanceVRR(r).mVRR = vrr
      /\ advanceVRR(r).mPduRxQ = q
  BY <1>2, <1>3, <1>5, Zenon DEF Rx
<1> QED
  BY <1>4, <1>6, Zenon DEF NextMissing

\* What rlcWriteLowSide does with a PDU it wants.
LEMMA AcceptedType ==
  ASSUME NEW r \in Rx, NEW sn \in SN, NEW payload \in Payload, NextMissing(r)
  PROVE  /\ Accepted(Stored(r, sn, payload), sn) \in Rx
         /\ NextMissing(Accepted(Stored(r, sn, payload), sn))
BY StoredType, AdvanceVRRType, Zenon DEF Accepted

-----------------------------------------------------------------------------
(* Status reports.                                                         *)

LEMMA StatusEndType ==
  ASSUME NEW r \in Rx
  PROVE  StatusStart(r) \in SN /\ StatusEnd(r) \in SN
<1>1. StatusStart(r) \in SN
  BY RxType, Zenon DEF StatusStart
<1>2. BeyondRoom(r, StatusStart(r)) \in SUBSET SN
  BY Zenon DEF BeyondRoom, Span
<1>3. StatusEnd(r) \in SN
  BY <1>1, <1>2, RxType, NearestType, Zenon DEF StatusEnd
<1> QED
  BY <1>1, <1>3

LEMMA StatusReportedType ==
  ASSUME NEW r \in Rx
  PROVE  /\ StatusReported(r) \in Rx
         /\ NextMissing(r) => NextMissing(StatusReported(r))
<1>1. /\ StatusReported(r) \in Rx
      /\ StatusReported(r).mVRR = r.mVRR
      /\ StatusReported(r).mPduRxQ = r.mPduRxQ
  BY StatusEndType, Zenon DEF StatusReported, Rx
<1> QED
  BY <1>1, Zenon DEF NextMissing

LEMMA AddAckNackType ==
  ASSUME NEW r \in Rx PROVE addAckNack(r) \in Status
<1> DEFINE nacks == Missing(r, StatusStart(r)) \ Span(StatusEnd(r), r.mVRH)
           first == IF nacks = {} THEN 0 ELSE Nearest(StatusStart(r), nacks)
<1>1. nacks \in SUBSET SN
  BY Zenon DEF Missing, Span
<1>2. first \in SN
  <2> HIDE DEF nacks
  <2> QED BY <1>1, StatusEndType, NearestType, ZeroSN, Zenon
<1>3. AckLsn(r) \in SN
  BY RxType, Zenon DEF AckLsn
<1>4. addAckNack(r) =
        [type |-> "STATUS", nacks |-> nacks, first |-> first, lsn |-> AckLsn(r)]
  BY Zenon DEF addAckNack
<1> HIDE DEF nacks, first
<1> QED
  BY <1>1, <1>2, <1>3, <1>4, SMT DEF Status

-----------------------------------------------------------------------------
(* A pair of entities.                                                     *)

\* The inductive invariant.
Inv == TypeOK /\ NackPointerValid /\ NextPduMissing

-----------------------------------------------------------------------------
(* Updating the state of one entity.                                       *)

LEMMA PeerType == ASSUME NEW e \in Entity PROVE Peer(e) \in Entity
BY LinkAssumption, Zenon DEF Peer

LEMMA WinUpdate ==
  ASSUME NEW e \in Entity, NEW w \in Window, NackOk(w),
         win \in [Entity -> Window], NackPointerValid,
         win' = [win EXCEPT ![e] = w]
  PROVE  win' \in [Entity -> Window] /\ NackPointerValid'
BY Zenon DEF NackPointerValid, NackOk, IsNacked

LEMMA RecvUpdate ==
  ASSUME NEW e \in Entity, NEW r \in Rx, NextMissing(r),
         recv \in [Entity -> Rx], NextPduMissing,
         recv' = [recv EXCEPT ![e] = r]
  PROVE  recv' \in [Entity -> Rx] /\ NextPduMissing'
BY Zenon DEF NextPduMissing, NextMissing

LEMMA SendType ==
  ASSUME NEW e \in Entity, NEW msg \in Pdu, link \in [Entity -> Seq(Pdu)],
         Send(e, msg)
  PROVE  link' \in [Entity -> Seq(Pdu)]
<1>1. Append(link[Peer(e)], msg) \in Seq(Pdu)
  BY PeerType, AppendProperties
<1> QED
  BY <1>1, PeerType, Zenon DEF Send

LEMMA TakeType ==
  ASSUME NEW e \in Entity, link \in [Entity -> Seq(Pdu)], link[e] # <<>>, Take(e)
  PROVE  link' \in [Entity -> Seq(Pdu)] /\ Head(link[e]) \in Pdu
<1>1. Head(link[e]) \in Pdu /\ Tail(link[e]) \in Seq(Pdu)
  BY HeadTailProperties
<1> QED
  BY <1>1, Zenon DEF Take

\* A PDU taken from the link has the fields of its type.
LEMMA PduKinds ==
  ASSUME NEW m \in Pdu
  PROVE  /\ m.type = "DATA" => m \in Data
         /\ m.type = "STATUS" => m \in Status
         /\ m.type \in {"RESET", "RESET_ACK"} => m \in Reset
<1>1. \A d \in Data : d.type = "DATA"
  BY SMT DEF Data
<1>2. \A s \in Status : s.type = "STATUS"
  BY SMT DEF Status
<1>3. \A r \in Reset : r.type \in {"RESET", "RESET_ACK"}
  BY SMT DEF Reset
<1> QED
  BY <1>1, <1>2, <1>3, SMT DEF Pdu

LEMMA ResetMsgType ==
  ASSUME NEW kind \in {"RESET", "RESET_ACK"}, NEW rsn \in Nat
  PROVE  ResetMsg(kind, rsn) \in Pdu
BY SMT DEF ResetMsg, Pdu, Reset

\* A PDU kept in the transmission window can be sent under its number.
LEMMA DataMsgType ==
  ASSUME NEW w \in Window, NEW sn \in SN, w.mPduTxQ[sn] \in TxPdu, NEW p \in BOOLEAN
  PROVE  DataMsg(w, sn, p) \in Pdu
<1>1. w.mPduTxQ[sn].payload \in Payload
  BY Zenon DEF TxPdu
<1> QED
  BY <1>1, SMT DEF DataMsg, Data, Pdu

-----------------------------------------------------------------------------
LEMMA InitInv == Init => Inv
<1> SUFFICES ASSUME Init PROVE Inv
  OBVIOUS
<1>1. /\ source \in [Entity -> Source] /\ win \in [Entity -> Window]
      /\ poll \in [Entity -> Polling]  /\ ctl \in [Entity -> Control]
      /\ recv \in [Entity -> Rx]
  BY SourceInitType, WindowInitType, PollingInitType, ControlInitType,
     RecvAmInitType, Zenon DEF Init
<1>2. link \in [Entity -> Seq(Pdu)] /\ written \in [Entity -> Seq(Sdu)]
  BY EmptySeq, Zenon DEF Init
<1>3. losses \in 0 .. MaxLosses /\ triggers \in 0 .. MaxTriggers
  BY LinkAssumption, SMT DEF Init
<1>4. NackPointerValid
  BY Zenon DEF Init, NackPointerValid, windowInit
<1>5. NextPduMissing
  BY RecvAmInitType, Zenon DEF Init, NextPduMissing, NextMissing
<1> QED
  BY <1>1, <1>2, <1>3, <1>4, <1>5 DEF Inv, TypeOK
-----------------------------------------------------------------------------
(* The upper layer, the test hook and time.                                *)

LEMMA RlcWriteHighSideInv ==
  ASSUME Inv, NEW e \in Entity, NEW sdu \in Sdu, RlcWriteHighSide(e, sdu)
  PROVE  Inv'
<1>1. source' \in [Entity -> Source]
  BY RlcWriteHighSideType, Zenon DEF Inv, TypeOK, RlcWriteHighSide
<1>2. written' \in [Entity -> Seq(Sdu)]
  <2>1. Append(written[e], sdu) \in Seq(Sdu)
    BY AppendProperties DEF Inv, TypeOK
  <2> QED
    BY <2>1, Zenon DEF Inv, TypeOK, RlcWriteHighSide
<1> QED
  BY <1>1, <1>2, Zenon
     DEF Inv, TypeOK, RlcWriteHighSide, NackPointerValid, NextPduMissing

LEMMA TriggerResetInv ==
  ASSUME Inv, NEW e \in Entity, TriggerReset(e) PROVE Inv'
<1>1. [ctl[e] EXCEPT !.mResetTriggered = TRUE] \in Control
  BY ZenonT(40) DEF Inv, TypeOK, Control
<1>2. ctl' \in [Entity -> Control]
  BY <1>1, Zenon DEF Inv, TypeOK, TriggerReset
<1>3. triggers' \in 0 .. MaxTriggers
  BY LinkAssumption, SMT DEF Inv, TypeOK, TriggerReset
<1> QED
  BY <1>2, <1>3, Zenon
     DEF Inv, TypeOK, TriggerReset, NackPointerValid, NextPduMissing

LEMMA RstTimerExpiresInv ==
  ASSUME Inv, NEW e \in Entity, RstTimerExpires(e) PROVE Inv'
<1>1. [ctl[e] EXCEPT !.mTimer_RST = "expired"] \in Control
  BY TimerType, ZenonT(40) DEF Inv, TypeOK, Control
<1>2. ctl' \in [Entity -> Control]
  BY <1>1, Zenon DEF Inv, TypeOK, RstTimerExpires
<1> QED
  BY <1>2, Zenon
     DEF Inv, TypeOK, RstTimerExpires, NackPointerValid, NextPduMissing, env

LEMMA PollTimerExpiresInv ==
  ASSUME Inv, NEW e \in Entity, NEW timer \in PollTimers,
         PollTimerExpires(e, timer)
  PROVE  Inv'
<1>1. [poll[e] EXCEPT ![timer] = "expired"] \in Polling
  <2>1. poll[e] \in Polling
    BY Zenon DEF Inv, TypeOK
  <2>2. CASE timer = "mTimer_Poll"
    BY <2>1, <2>2, TimerType, Zenon DEF Polling
  <2>3. CASE timer = "mTimer_Poll_Prohibit"
    BY <2>1, <2>3, TimerType, Zenon DEF Polling
  <2>4. CASE timer = "mTimer_Poll_Periodic"
    BY <2>1, <2>4, TimerType, Zenon DEF Polling
  <2> QED
    BY <2>2, <2>3, <2>4 DEF PollTimers
<1>2. poll' \in [Entity -> Polling]
  BY <1>1, Zenon DEF Inv, TypeOK, PollTimerExpires
<1> QED
  BY <1>2, Zenon
     DEF Inv, TypeOK, PollTimerExpires, NackPointerValid, NextPduMissing, env

LEMMA LosePduInv ==
  ASSUME Inv, NEW e \in Entity, LosePdu(e) PROVE Inv'
<1>1. link' \in [Entity -> Seq(Pdu)]
  BY TakeType, Zenon DEF Inv, TypeOK, LosePdu
<1>2. losses' \in 0 .. MaxLosses
  BY LinkAssumption, SMT DEF Inv, TypeOK, LosePdu
<1> QED
  BY <1>1, <1>2, Zenon
     DEF Inv, TypeOK, LosePdu, NackPointerValid, NextPduMissing, tran

-----------------------------------------------------------------------------
(* Control PDUs and status reports sent.                                   *)

LEMMA EmitResetType ==
  ASSUME Inv, NEW e \in Entity, EmitReset(e)
  PROVE  ctl' \in [Entity -> Control] /\ link' \in [Entity -> Seq(Pdu)]
<1> DEFINE c == ResetStarted(ctl[e])
<1>1. c \in Control
  BY ResetStartedType, Zenon DEF Inv, TypeOK
<1>2. ctl' = [ctl EXCEPT ![e] = c]
  BY Zenon DEF EmitReset
<1>3. c.mResetTransRSN \in Nat
  <2> HIDE DEF c
  <2> QED BY <1>1, Zenon DEF Control
<1>4. link' \in [Entity -> Seq(Pdu)]
  <2>1. ResetMsg("RESET", c.mResetTransRSN) \in Pdu
    BY <1>3, ResetMsgType
  <2>2. link' = link \/ Send(e, ResetMsg("RESET", c.mResetTransRSN))
    BY Zenon DEF EmitReset
  <2> HIDE DEF c
  <2> QED
    BY <2>1, <2>2, SendType, Zenon DEF Inv, TypeOK
<1> HIDE DEF c
<1> QED
  BY <1>1, <1>2, <1>4, Zenon DEF Inv, TypeOK

LEMMA ReadResetAckInv ==
  ASSUME Inv, NEW e \in Entity, ReadResetAck(e) PROVE Inv'
<1>1. [ctl[e] EXCEPT !.mSendResetAck = FALSE] \in Control
  BY ZenonT(40) DEF Inv, TypeOK, Control
<1>2. ctl' \in [Entity -> Control]
  BY <1>1, Zenon DEF Inv, TypeOK, ReadResetAck
<1>3. ctl[e].mResetAckRSN \in Nat
  <2>1. ctl[e].mResetAckRSN \in {0, 1}
    BY Zenon DEF Inv, TypeOK, Control
  <2> QED
    BY <2>1, SMT
<1>4. link' \in [Entity -> Seq(Pdu)]
  BY <1>3, ResetMsgType, SendType, Zenon DEF Inv, TypeOK, ReadResetAck
<1> QED
  BY <1>2, <1>4, Zenon
     DEF Inv, TypeOK, ReadResetAck, NackPointerValid, NextPduMissing, env

LEMMA ReadResetInv ==
  ASSUME Inv, NEW e \in Entity, ReadReset(e) PROVE Inv'
BY EmitResetType, Zenon
   DEF Inv, TypeOK, ReadReset, NackPointerValid, NextPduMissing, env

LEMMA ReadStatusInv ==
  ASSUME Inv, NEW e \in Entity, ReadStatus(e) PROVE Inv'
<1> DEFINE more == ~lastStatusReport(recv[e])
<1>1. ctl' = [ctl EXCEPT ![e].mStatusTriggered = more] /\ more \in BOOLEAN
  BY Zenon DEF ReadStatus
<1> HIDE DEF more
<1>2. ctl' \in [Entity -> Control]
  <2>1. [ctl[e] EXCEPT !.mStatusTriggered = more] \in Control
    BY <1>1, ZenonT(40) DEF Inv, TypeOK, Control
  <2> QED
    BY <1>1, <2>1, Zenon DEF Inv, TypeOK
<1>3. recv[e] \in Rx /\ NextMissing(recv[e])
  BY Zenon DEF Inv, TypeOK, NextPduMissing, NextMissing
<1>4. recv' \in [Entity -> Rx] /\ NextPduMissing'
  BY <1>3, StatusReportedType, RecvUpdate, Zenon DEF Inv, TypeOK, ReadStatus
<1>5. addAckNack(recv[e]) \in Pdu
  BY <1>3, AddAckNackType, Zenon DEF Pdu
<1>6. link' \in [Entity -> Seq(Pdu)]
  BY <1>5, SendType, Zenon DEF Inv, TypeOK, ReadStatus
<1> QED
  BY <1>2, <1>4, <1>6, Zenon
     DEF Inv, TypeOK, ReadStatus, NackPointerValid, env
-----------------------------------------------------------------------------
(* Data PDUs sent.                                                         *)

LEMMA TransmitType ==
  ASSUME Inv, NEW e \in Entity, source' \in [Entity -> Source],
         NEW w \in Window, NackOk(w), NEW p \in Polling,
         NEW sn \in SN, w.mPduTxQ[sn] \in TxPdu,
         Transmit(e, w, p, sn)
  PROVE  /\ win' \in [Entity -> Window] /\ NackPointerValid'
         /\ poll' \in [Entity -> Polling]
         /\ ctl' \in [Entity -> Control]
         /\ link' \in [Entity -> Seq(Pdu)]
<1> DEFINE counted == CountTransmission(w, sn)
           asked   == IsPollTriggered(p, source'[e])
           polls   == asked.mPollTriggered /\ ~PollProhibited(asked)
<1>1. counted \in Window /\ NackOk(counted)
  BY CountTransmissionType
<1>2. asked \in Polling
  BY IsPollTriggeredType
<1>3. PollSent(asked, w.mVTS) \in Polling
  BY <1>2, PollSentType, PduSnType
<1>4. polls \in BOOLEAN
  BY Zenon
<1>5. DataMsg(w, sn, polls) \in Pdu
  BY <1>4, DataMsgType
<1>6. /\ win' = [win EXCEPT ![e] = counted]
      /\ \/ /\ poll' = [poll EXCEPT ![e] = p]
            /\ EmitReset(e)
         \/ /\ poll' = [poll EXCEPT ![e] =
                          IF polls THEN PollSent(asked, w.mVTS) ELSE asked]
            /\ Send(e, DataMsg(w, sn, polls))
            /\ UNCHANGED ctl
  BY Zenon DEF Transmit
<1> HIDE DEF counted, asked, polls
<1>7. win' \in [Entity -> Window] /\ NackPointerValid'
  BY <1>1, <1>6, WinUpdate, Zenon DEF Inv, TypeOK
<1>8. poll' \in [Entity -> Polling]
  BY <1>2, <1>3, <1>6, Zenon DEF Inv, TypeOK
<1>9. ctl' \in [Entity -> Control] /\ link' \in [Entity -> Seq(Pdu)]
  BY <1>5, <1>6, EmitResetType, SendType, Zenon DEF Inv, TypeOK
<1> QED
  BY <1>7, <1>8, <1>9

LEMMA ReadRetransmissionInv ==
  ASSUME Inv, NEW e \in Entity, ReadRetransmission(e) PROVE Inv'
<1> DEFINE w == Retransmitted(win[e])
           asked == /\ ~w.mNackedBlocksWaiting
                    /\ mConfig.mLastRetransmissionPduPoll
           p == PollAskedIf(poll[e], asked)
<1>1. win[e] \in Window /\ NackOk(win[e]) /\ win[e].mNackedBlocksWaiting
  BY Zenon DEF Inv, TypeOK, NackPointerValid, NackOk, ReadRetransmission
<1>2. w \in Window /\ NackOk(w) /\ w.mPduTxQ[win[e].mVSNack] \in TxPdu
  BY <1>1, RetransmittedType
<1>3. win[e].mVSNack \in SN
  BY <1>1, PduSnType
<1>4. p \in Polling
  <2>1. asked \in BOOLEAN /\ poll[e] \in Polling
    BY Zenon DEF Inv, TypeOK
  <2> QED
    BY <2>1, PollAskedIfType
<1>5. /\ source' = source
      /\ Transmit(e, w, p, win[e].mVSNack)
  BY Zenon DEF ReadRetransmission
<1>6. UNCHANGED <<recv, upper, env>>
  BY <1>5, Zenon DEF Transmit
<1> HIDE DEF w, p
<1>7. /\ win' \in [Entity -> Window] /\ NackPointerValid'
      /\ poll' \in [Entity -> Polling]
      /\ ctl' \in [Entity -> Control]
      /\ link' \in [Entity -> Seq(Pdu)]
  BY <1>2, <1>3, <1>4, <1>5, TransmitType, Zenon DEF Inv, TypeOK
<1> QED
  BY <1>5, <1>6, <1>7, Zenon DEF Inv, TypeOK, NextPduMissing, env

LEMMA ReadNewDataInv ==
  ASSUME Inv, NEW e \in Entity, ReadNewData(e) PROVE Inv'
<1> DEFINE w == getDataPdu(win[e], FilledPayload(source[e]))
           asked == pdusFinished(source'[e]) /\ mConfig.mLastTransmissionPduPoll
           p == PollAskedIf(poll[e], asked)
<1>1. /\ source[e] \in Source /\ win[e] \in Window
      /\ ~win[e].mNackedBlocksWaiting
  BY Zenon DEF Inv, TypeOK, ReadNewData
<1>2. source' \in [Entity -> Source]
  BY <1>1, FillPduDataType, Zenon DEF Inv, TypeOK, ReadNewData
<1>3. w \in Window /\ w.mPduTxQ[win[e].mVTS] \in TxPdu /\ NackOk(w)
  BY <1>1, FilledPayloadType, GetDataPduType, Zenon DEF NackOk
<1>4. win[e].mVTS \in SN
  BY <1>1, PduSnType
<1>5. p \in Polling
  <2>1. asked \in BOOLEAN /\ poll[e] \in Polling
    BY Zenon DEF Inv, TypeOK
  <2> QED
    BY <2>1, PollAskedIfType
<1>6. Transmit(e, w, p, win[e].mVTS)
  BY Zenon DEF ReadNewData
<1>7. UNCHANGED <<recv, upper, env>>
  BY <1>6, Zenon DEF Transmit
<1> HIDE DEF w, p
<1>8. /\ win' \in [Entity -> Window] /\ NackPointerValid'
      /\ poll' \in [Entity -> Polling]
      /\ ctl' \in [Entity -> Control]
      /\ link' \in [Entity -> Seq(Pdu)]
  BY <1>2, <1>3, <1>4, <1>5, <1>6, TransmitType, Zenon
<1> QED
  BY <1>2, <1>7, <1>8, Zenon DEF Inv, TypeOK, NextPduMissing, env

LEMMA ReadPollOnlyInv ==
  ASSUME Inv, NEW e \in Entity, ReadPollOnly(e) PROVE Inv'
<1> DEFINE asked == IsPollTriggered(poll[e], source[e])
<1>1. source[e] \in Source /\ win[e] \in Window /\ poll[e] \in Polling
  BY Zenon DEF Inv, TypeOK
<1>2. asked \in Polling /\ PollSent(asked, win[e].mVTS) \in Polling
  BY <1>1, IsPollTriggeredType, PollSentType, PduSnType
<1>3. poll' \in [Entity -> Polling]
  BY <1>2, Zenon DEF Inv, TypeOK, ReadPollOnly
<1>4. link' \in [Entity -> Seq(Pdu)]
  <2>1. CASE PollRepeats(e, asked)
    <3>1. LastSent(e) \in SN
      <4>1. win[e].mVTS \in SN
        BY <1>1, PduSnType
      <4>2. win[e].mVTS \in Int
        BY <4>1, SNSAssumption, SMT DEF SN
      <4> QED
        BY <4>2, AddSNType DEF LastSent
    <3>2. win[e].mPduTxQ[LastSent(e)] \in TxPdu
      BY <1>1, <2>1, <3>1, PduSnType, Zenon DEF PollRepeats
    <3>3. DataMsg(win[e], LastSent(e), TRUE) \in Pdu
      BY <1>1, <3>1, <3>2, DataMsgType, Zenon
    <3>4. Send(e, DataMsg(win[e], LastSent(e), TRUE))
      BY <2>1, Zenon DEF ReadPollOnly
    <3> QED
      BY <3>3, <3>4, SendType, Zenon DEF Inv, TypeOK
  <2>2. CASE ~PollRepeats(e, asked)
    BY <2>2, Zenon DEF Inv, TypeOK, ReadPollOnly
  <2> QED
    BY <2>1, <2>2
<1> QED
  BY <1>3, <1>4, Zenon
     DEF Inv, TypeOK, ReadPollOnly, NackPointerValid, NextPduMissing, env
-----------------------------------------------------------------------------
(* PDUs received.                                                          *)

LEMMA ArrivedPdu ==
  ASSUME Inv, NEW e \in Entity, NEW type, Arrived(e, type), Take(e)
  PROVE  /\ link' \in [Entity -> Seq(Pdu)]
         /\ Head(link[e]) \in Pdu /\ Head(link[e]).type = type
BY TakeType, Zenon DEF Inv, TypeOK, Arrived

LEMMA ReceiveDataInv ==
  ASSUME Inv, NEW e \in Entity, ReceiveData(e) PROVE Inv'
<1> DEFINE m == Head(link[e])
           r == PollSeen(recv[e], m.poll)
           s == Stored(r, m.sn, m.payload)
           triggered == \/ ctl[e].mStatusTriggered \/ m.poll
                        \/ Unwanted(r, m.sn) \/ MissingPduDetected(r, m.sn)
<1>1. link' \in [Entity -> Seq(Pdu)] /\ m \in Data
  BY ArrivedPdu, PduKinds, Zenon DEF ReceiveData
<1>2. m.sn \in SN /\ m.payload \in Payload
  BY <1>1, SMT DEF Data
<1>3. r \in Rx /\ NextMissing(r)
  <2>1. recv[e] \in Rx /\ recv[e].mPduRxQ[recv[e].mVRR] = NoPdu
    BY Zenon DEF Inv, TypeOK, NextPduMissing
  <2> QED
    BY <2>1, PollSeenType, Zenon DEF NextMissing
<1>4. Accepted(s, m.sn) \in Rx /\ NextMissing(Accepted(s, m.sn))
  BY <1>2, <1>3, AcceptedType
<1>5. recv' = [recv EXCEPT ![e] = IF Unwanted(r, m.sn) THEN r ELSE Accepted(s, m.sn)]
  BY Zenon DEF ReceiveData
<1>6. ctl' = [ctl EXCEPT ![e].mStatusTriggered = triggered] /\ triggered \in BOOLEAN
  BY Zenon DEF ReceiveData
<1> HIDE DEF r, s, triggered
<1>7. recv' \in [Entity -> Rx] /\ NextPduMissing'
  BY <1>3, <1>4, <1>5, RecvUpdate, Zenon DEF Inv, TypeOK
<1>8. ctl' \in [Entity -> Control]
  <2>1. [ctl[e] EXCEPT !.mStatusTriggered = triggered] \in Control
    BY <1>6, Zenon DEF Inv, TypeOK, Control
  <2> QED
    BY <1>6, <2>1, Zenon DEF Inv, TypeOK
<1> QED
  BY <1>1, <1>7, <1>8, Zenon
     DEF Inv, TypeOK, ReceiveData, NackPointerValid, env

LEMMA ReceiveStatusInv ==
  ASSUME Inv, NEW e \in Entity, ReceiveStatus(e) PROVE Inv'
<1> DEFINE w == processSUFIs2(win[e], Head(link[e]))
<1>1. link' \in [Entity -> Seq(Pdu)] /\ Head(link[e]) \in Status
  BY ArrivedPdu, PduKinds, Zenon DEF ReceiveStatus
<1>2. w \in Window /\ NackOk(w)
  BY <1>1, ProcessSUFIsType, Zenon DEF Inv, TypeOK
<1>3. win' = [win EXCEPT ![e] = w]
  BY Zenon DEF ReceiveStatus
<1> HIDE DEF w
<1>4. win' \in [Entity -> Window] /\ NackPointerValid'
  BY <1>2, <1>3, WinUpdate, Zenon DEF Inv, TypeOK
<1>5. poll' \in [Entity -> Polling]
  BY PollAnsweredType, Zenon DEF Inv, TypeOK, ReceiveStatus
<1> QED
  BY <1>1, <1>4, <1>5, Zenon DEF Inv, TypeOK, ReceiveStatus, NextPduMissing, env

LEMMA FullResetType ==
  ASSUME Inv, NEW e \in Entity, NEW c \in Control, FullReset(e, c)
  PROVE  /\ source' \in [Entity -> Source] /\ poll' \in [Entity -> Polling]
         /\ win' \in [Entity -> Window] /\ NackPointerValid'
         /\ ctl' \in [Entity -> Control]
         /\ recv' \in [Entity -> Rx] /\ NextPduMissing'
<1>1. source' \in [Entity -> Source] /\ poll' \in [Entity -> Polling]
  BY SourceResetType, PollingResetType, Zenon DEF Inv, TypeOK, FullReset, ResetTo
<1>2. win' \in [Entity -> Window] /\ NackPointerValid'
  <2>1. NackOk(windowInit)
    BY Zenon DEF NackOk, windowInit
  <2> QED
    BY <2>1, WindowInitType, WinUpdate, Zenon DEF Inv, TypeOK, FullReset, ResetTo
<1>3. ctl' \in [Entity -> Control]
  BY Zenon DEF Inv, TypeOK, FullReset, ResetTo
<1>4. recv' \in [Entity -> Rx] /\ NextPduMissing'
  BY RecvAmInitType, RecvUpdate, Zenon DEF Inv, TypeOK, FullReset, ResetTo
<1> QED
  BY <1>1, <1>2, <1>3, <1>4

LEMMA ReceiveResetInv ==
  ASSUME Inv, NEW e \in Entity, ReceiveReset(e) PROVE Inv'
<1> DEFINE rsn == Head(link[e]).rsn
           Acknowledge(d) == [d EXCEPT !.mResetAckRSN = rsn, !.mResetReceived = TRUE,
                                       !.mSendResetAck = TRUE]
<1>1. link' \in [Entity -> Seq(Pdu)] /\ Head(link[e]) \in Reset
  BY ArrivedPdu, PduKinds, Zenon DEF ReceiveReset
<1>2. rsn \in {0, 1}
  BY <1>1, SMT DEF Reset
<1>3. \A d \in Control : Acknowledge(d) \in Control
  BY <1>2, Zenon DEF Control
<1>4. ctl[e] \in Control
  BY Zenon DEF Inv, TypeOK
<1>5. \/ FullReset(e, Acknowledge(controlReset(ctl[e])))
      \/ /\ ctl' = [ctl EXCEPT ![e] = Acknowledge(ctl[e])]
         /\ UNCHANGED <<source, win, poll, recv, upper>>
  BY Zenon DEF ReceiveReset
<1>6. UNCHANGED env
  BY Zenon DEF ReceiveReset
<1>7. CASE FullReset(e, Acknowledge(controlReset(ctl[e])))
  <2>1. Acknowledge(controlReset(ctl[e])) \in Control
    BY <1>3, <1>4, ControlResetType
  <2> HIDE DEF Acknowledge
  <2> QED
    BY <1>1, <1>6, <1>7, <2>1, FullResetType, Zenon DEF Inv, TypeOK, env
<1>8. CASE /\ ctl' = [ctl EXCEPT ![e] = Acknowledge(ctl[e])]
           /\ UNCHANGED <<source, win, poll, recv, upper>>
  <2>1. ctl' \in [Entity -> Control]
    <3> HIDE DEF Acknowledge
    <3> QED BY <1>3, <1>4, <1>8, Zenon DEF Inv, TypeOK
  <2> QED
    BY <1>1, <1>6, <1>8, <2>1, Zenon
       DEF Inv, TypeOK, NackPointerValid, NextPduMissing, env
<1> QED
  BY <1>5, <1>7, <1>8

LEMMA ReceiveResetAckInv ==
  ASSUME Inv, NEW e \in Entity, ReceiveResetAck(e) PROVE Inv'
<1> DEFINE c == [controlReset(ctl[e]) EXCEPT
                   !.mVTRST = 0, !.mTimer_RST = "off",
                   !.mResetTransRSN = ctl[e].mResetTransRSN + 1]
<1>1. link' \in [Entity -> Seq(Pdu)]
  BY ArrivedPdu, Zenon DEF ReceiveResetAck
<1>2. c \in Control
  <2>1. ctl[e] \in Control
    BY Zenon DEF Inv, TypeOK
  <2>2. 0 \in Nat /\ ctl[e].mResetTransRSN + 1 \in Nat
    BY <2>1, SMT DEF Control
  <2>3. controlReset(ctl[e]) \in Control
    BY <2>1, ControlResetType
  <2> QED
    BY <2>2, <2>3, TimerType, Zenon DEF Control
<1>3. FullReset(e, c) \/ UNCHANGED <<tran, recv, upper>>
  BY Zenon DEF ReceiveResetAck
<1>4. UNCHANGED env
  BY Zenon DEF ReceiveResetAck
<1> HIDE DEF c
<1>5. CASE FullReset(e, c)
  BY <1>1, <1>2, <1>4, <1>5, FullResetType, Zenon DEF Inv, TypeOK, env
<1>6. CASE UNCHANGED <<tran, recv, upper>>
  BY <1>1, <1>4, <1>6, Zenon
     DEF Inv, TypeOK, NackPointerValid, NextPduMissing, tran, env
<1> QED
  BY <1>3, <1>5, <1>6

-----------------------------------------------------------------------------
(* The theorems.                                                           *)

LEMMA NextInv == Inv /\ [Next]_vars => Inv'
<1> SUFFICES ASSUME Inv, [Next]_vars PROVE Inv'
  OBVIOUS
<1>1. CASE UNCHANGED vars
  BY <1>1, Zenon
     DEF Inv, TypeOK, NackPointerValid, NextPduMissing, vars, tran, env
<1>2. ASSUME NEW e \in Entity, RlcReadLowSide(e) PROVE Inv'
  BY <1>2, ReadResetAckInv, ReadResetInv, ReadStatusInv, ReadRetransmissionInv,
     ReadNewDataInv, ReadPollOnlyInv DEF RlcReadLowSide
<1>3. ASSUME NEW e \in Entity, RlcWriteLowSide(e) PROVE Inv'
  BY <1>3, ReceiveDataInv, ReceiveStatusInv, ReceiveResetInv, ReceiveResetAckInv
     DEF RlcWriteLowSide
<1>4. ASSUME NEW e \in Entity,
             \/ \E sdu \in Sdu : RlcWriteHighSide(e, sdu)
             \/ TriggerReset(e)
             \/ RstTimerExpires(e)
             \/ \E timer \in PollTimers : PollTimerExpires(e, timer)
             \/ LosePdu(e)
      PROVE  Inv'
  BY <1>4, RlcWriteHighSideInv, TriggerResetInv, RstTimerExpiresInv,
     PollTimerExpiresInv, LosePduInv
<1> QED
  BY <1>1, <1>2, <1>3, <1>4 DEF Next

LEMMA SpecInv == Spec => []Inv
BY InitInv, NextInv, PTL DEF Spec

\* Every record of both entities keeps its shape, and every PDU under way is
\* one that readLowSidePdu2 can build.
THEOREM SpecTypeOK == Spec => []TypeOK
BY SpecInv, PTL DEF Inv

\* readLowSidePdu2 never dereferences a NULL entry of mPduTxQ at mVSNack
\* (URlcTransAm.cpp:441), whatever is lost, reset or repeated.
THEOREM SpecNackPointerValid == Spec => []NackPointerValid
BY SpecInv, PTL DEF Inv

\* The PDU at mVRR is always missing: the assertions at URlcRecvAm.cpp:34 and
\* 304 never fail.
THEOREM SpecNextPduMissing == Spec => []NextPduMissing
BY SpecInv, PTL DEF Inv
=============================================================================
