-------------------------- MODULE RlcAmServiceProofs --------------------------
(***************************************************************************)
(* As long as no RESET is sent and no SDU is dropped from the buffer, the  *)
(* two entities implement SduService.  RlcAmDeliveryProofs shows that what *)
(* is handed up is right; here nothing is missing from it: each SDU        *)
(* written has been handed up, or is still to come in the PDUs not yet     *)
(* delivered or in the buffer (Complete).  It is what the window keeps     *)
(* until the receiver has moved past it.                                   *)
(***************************************************************************)
EXTENDS RlcAmDeliveryProofs

\* There is room for one more SDU, so that rlcWriteHighSide drops none.
RoomLeft == \A e \in Entity : Len(source[e].mSduTxQ) < mConfig.mTransmissionBufferSdus

CompleteTo(a) ==
  Complete(win[a], source[a], upper[Peer(a)], written[a], recv[Peer(a)].mVRR)

-----------------------------------------------------------------------------
(* What one operator does to Complete.                                     *)

LEMMA KeptComplete ==
  ASSUME NEW w \in Window, NEW v \in Window, SenderOk(w), SenderOk(v), KeepsText(w, v),
         KeepsRest(w, v), NEW s, NEW u, NEW wr, NEW sn \in SN, InWindow(v, sn) \/ sn = v.mVTS,
         Complete(w, s, u, wr, sn)
  PROVE  Complete(v, s, u, wr, sn)
<1>1. CutAt(v, s, sn) = CutAt(w, s, sn)
  BY KeptStream
<1>2. ASSUME NEW id, Comes(w, s, sn, id) PROVE Comes(v, s, sn, id)
  <2>1. CASE InSource(s, id)
    BY <2>1 DEF Comes
  <2>2. ASSUME NEW x \in SN, InWindow(w, x), Pos(w, sn) <= Pos(w, x), Carries(Text(w, x), id)
        PROVE  Comes(v, s, sn, id)
    <3>1. InWindow(v, sn)
      <4>1. w.mVTS = v.mVTS /\ w.mVTS \in SN
        BY PduSnType DEF KeepsText
      <4>2. sn # w.mVTS
        BY <2>2, <4>1, PosType, SMT DEF InWindow
      <4> QED BY <4>1, <4>2
    <3>2. InWindow(v, x)
      BY <2>2, <3>1 DEF KeepsRest
    <3>3. Pos(v, sn) <= Pos(v, x) /\ Text(v, x) = Text(w, x)
      BY <2>2, <3>1, <3>2, Zenon DEF KeepsText
    <3> QED BY <2>2, <3>2, <3>3, Zenon DEF Comes
  <2> QED BY <1>2, <2>1, <2>2 DEF Comes
<1> QED BY <1>1, <1>2, Zenon DEF Complete

\* An SDU is written and none dropped.
LEMMA WriteHighSideComplete ==
  ASSUME NEW s \in Source, NEW sdu \in Sdu, NEW wr \in Seq(Sdu), sdu.id = Len(wr) + 1,
         Len(s.mSduTxQ) < mConfig.mTransmissionBufferSdus
  PROVE  LET v == rlcWriteHighSide(s, sdu)
             x == Append(wr, sdu)
         IN  /\ Cut(v) = Cut(s)
             /\ \A id : InSource(s, id) \/ id = Len(wr) + 1 => InSource(v, id)
             /\ \A id \in 1 .. Len(x) : id \in 1 .. Len(wr) \/ id = Len(wr) + 1
<1> DEFINE q == Append(s.mSduTxQ, sdu)
           v == rlcWriteHighSide(s, sdu)
<1>1. /\ s.mSduTxQ \in Seq(Sdu) /\ Len(s.mSduTxQ) \in Nat
      /\ Len(q) = Len(s.mSduTxQ) + 1
      /\ \A i \in 1 .. Len(s.mSduTxQ) : q[i] = s.mSduTxQ[i]
      /\ q[Len(s.mSduTxQ) + 1] = sdu
  BY SourceType, AppendProperties, LenProperties, SMT
<1>2. ~ (Len(q) - mConfig.mTransmissionBufferSdus > 0)
  BY <1>1, ConfigAssumption, SMT
<1>3. v = [s EXCEPT !.mSduTxQ = q]
  BY <1>2, Zenon DEF rlcWriteHighSide
<1> HIDE DEF q, v
<1>4. v.mSduTxQ = q /\ v.mSplitSdu = s.mSplitSdu /\ v.mLILeftOver = s.mLILeftOver
  BY <1>3, Zenon DEF Source
<1>5. /\ \A i \in 1 .. Len(s.mSduTxQ) : i \in 1 .. Len(q)
      /\ Len(s.mSduTxQ) + 1 \in 1 .. Len(q)
  BY <1>1, SMT
<1>6. \A id : InSource(s, id) \/ id = Len(wr) + 1 => InSource(v, id)
  BY <1>1, <1>4, <1>5, Zenon DEF InSource
<1>7. Cut(v) = Cut(s)
  BY <1>4 DEF Cut
<1>8. \A id \in 1 .. Len(Append(wr, sdu)) : id \in 1 .. Len(wr) \/ id = Len(wr) + 1
  BY AppendProperties, LenProperties, SMT
<1> QED BY <1>6, <1>7, <1>8 DEF v

LEMMA GrownComplete ==
  ASSUME NEW w, NEW s, NEW v, NEW wr, NEW x, NEW u, NEW sn, Cut(v) = Cut(s),
         \A id : InSource(s, id) \/ id = Len(wr) + 1 => InSource(v, id),
         \A id \in 1 .. Len(x) : id \in 1 .. Len(wr) \/ id = Len(wr) + 1,
         Complete(w, s, u, wr, sn)
  PROVE  Complete(w, v, u, x, sn)
<1>1. CutAt(w, v, sn) = CutAt(w, s, sn)
  BY Zenon DEF CutAt
<1>2. \A id : Comes(w, s, sn, id) \/ id = Len(wr) + 1 => Comes(w, v, sn, id)
  BY Zenon DEF Comes
<1> QED BY <1>1, <1>2, Zenon DEF Complete

\* A new PDU carries what the source lets go.
LEMMA FilledAll ==
  ASSUME NEW s \in Source, NEW id, InSource(s, id)
  PROVE  InSource(fillPduData(s), id) \/ Carries(FilledPayload(s), id)
<1> DEFINE g == NextSegment(s)
           q == s.mSduTxQ
           t == fillPduData(s)
<1>1. /\ t.mSduTxQ = IF s.mSplitSdu = NoSdu /\ q # <<>> THEN Tail(q) ELSE q
      /\ t.mSplitSdu = IF EndsSdu(g) THEN NoSdu ELSE g
      /\ FilledPayload(s).data = g
  BY Zenon DEF fillPduData, FilledPayload
<1>2. q \in Seq(Sdu) /\ s.mSplitSdu \in Segment \cup {NoSdu}
  BY SourceType
<1> HIDE DEF t
<1>3. CASE s.mSplitSdu # NoSdu
  <2>1. g = [s.mSplitSdu EXCEPT !.part = s.mSplitSdu.part + 1]
    BY <1>3, Zenon DEF NextSegment
  <2>2. s.mSplitSdu \in Segment
    BY <1>2, <1>3
  <2>3. g = [sdu |-> s.mSplitSdu.sdu, part |-> s.mSplitSdu.part + 1]
    BY <2>1, <2>2, SMT DEF Segment
  <2>4. g # NoSdu /\ g.sdu = s.mSplitSdu.sdu
    <3>1. g \in Segment
      BY <2>2, <2>3, SMT DEF Segment
    <3> QED BY <2>3, <3>1, NullAssumption
  <2> HIDE DEF g
  <2>5. CASE s.mSplitSdu.sdu.id = id
    BY <1>1, <2>4, <2>5 DEF Carries
  <2>6. CASE \E i \in 1 .. Len(q) : q[i].id = id
    <3>1. t.mSduTxQ = q
      BY <1>1, <1>3
    <3> QED BY <2>6, <3>1, Zenon DEF InSource, t
  <2> QED BY <2>5, <2>6 DEF InSource
<1>4. CASE s.mSplitSdu = NoSdu
  <2>1. PICK i \in 1 .. Len(q) : q[i].id = id
    BY <1>4 DEF InSource
  <2>2. q # <<>>
    BY <1>2, <2>1, EmptySeq, SMT
  <2>3. g = [sdu |-> Head(q), part |-> 1] /\ Head(q) = q[1] /\ q[1] \in Sdu
    <3>1. Head(q) = q[1] /\ q[1] \in Sdu
      BY <1>2, <2>2, SMT
    <3> QED BY <1>4, <2>2, <3>1 DEF NextSegment
  <2>4. g # NoSdu /\ g.sdu = q[1]
    <3>1. g \in Segment
      BY <2>3, SMT DEF Segment
    <3> QED BY <2>3, <3>1, NullAssumption
  <2> HIDE DEF g
  <2>5. CASE i = 1
    BY <1>1, <2>1, <2>4, <2>5 DEF Carries
  <2>6. CASE i # 1
    <3>1. i - 1 \in 1 .. Len(Tail(q)) /\ Tail(q)[i - 1] = q[i]
      BY <1>2, <2>1, <2>2, <2>6, SMT
    <3>2. t.mSduTxQ = Tail(q)
      BY <1>1, <1>4, <2>2
    <3> QED BY <2>1, <3>1, <3>2, Zenon DEF InSource, t
  <2> QED BY <2>5, <2>6
<1> QED BY <1>3, <1>4

LEMMA NewDataComplete ==
  ASSUME NEW w \in Window, SenderOk(w), ~stalled(w), NEW s \in Source, NEW wr,
         NEW u, NEW sn \in SN, InWindow(w, sn) \/ sn = w.mVTS, SourceOk(s, wr),
         Complete(w, s, u, wr, sn)
  PROVE  Complete(getDataPdu(w, FilledPayload(s)), fillPduData(s), u, wr, sn)
<1> DEFINE p == FilledPayload(s)
           t == fillPduData(s)
           v == getDataPdu(w, p)
<1>1. p \in Payload
  BY FilledPayloadType
<1> HIDE DEF p, t, v
<1>2. /\ v.mVTS = incSN(w.mVTS) /\ v.mVTS # w.mVTS
      /\ \A x : Pos(v, x) = Pos(w, x)
      /\ \A x \in SN : InWindow(v, x) <=> InWindow(w, x) \/ x = w.mVTS
      /\ \A x \in SN : InWindow(w, x) => Text(v, x) = Text(w, x) /\ x # v.mVTS
      /\ Text(v, w.mVTS) = p
  BY <1>1, NewDataWindow DEF v
<1>3. Cut(s) = CutBefore(p) /\ \A id : InSource(s, id) => InSource(t, id) \/ Carries(p, id)
  BY FilledOk, FilledAll DEF p, t
<1>4. CutAt(v, t, sn) = CutAt(w, s, sn)
  <2>1. CASE sn = w.mVTS
    BY <1>2, <1>3, <2>1, Zenon DEF CutAt
  <2>2. CASE InWindow(w, sn)
    BY <1>2, <2>2, NextInWindow, Zenon DEF CutAt
  <2> QED BY <2>1, <2>2
<1>5. w.mVTS \in SN /\ Pos(w, sn) <= Pos(w, w.mVTS)
  <2>1. w.mVTS \in SN /\ Pos(w, sn) \in Int /\ Pos(w, w.mVTS) \in Int
    BY PduSnType, PosType
  <2> QED BY <2>1, SMT DEF InWindow
<1>6. ASSUME NEW id, Comes(w, s, sn, id) PROVE Comes(v, t, sn, id)
  <2>1. CASE Carries(p, id)
    <3>1. InWindow(v, w.mVTS) /\ Pos(v, sn) <= Pos(v, w.mVTS) /\ Carries(Text(v, w.mVTS), id)
      BY <1>2, <1>5, <2>1
    <3> QED BY <1>5, <3>1, Zenon DEF Comes
  <2>2. CASE InSource(t, id)
    BY <2>2 DEF Comes
  <2>3. ASSUME NEW x \in SN, InWindow(w, x), Pos(w, sn) <= Pos(w, x), Carries(Text(w, x), id)
        PROVE  Comes(v, t, sn, id)
    <3>1. InWindow(v, x) /\ Pos(v, sn) <= Pos(v, x) /\ Text(v, x) = Text(w, x)
      BY <1>2, <2>3
    <3> QED BY <2>3, <3>1, Zenon DEF Comes
  <2> QED BY <1>3, <1>6, <2>1, <2>2, <2>3 DEF Comes
<1>7. Complete(v, t, u, wr, sn)
  BY <1>4, <1>6, Zenon DEF Complete
<1> QED BY <1>7 DEF v, t, p

-----------------------------------------------------------------------------
(* What each action does: one lemma per action that can disturb it.        *)

\* What the next PDU to be delivered has been, and the SDUs handed up.
CompleteStep(a) ==
  /\ CompleteTo(a)'
  /\ Len(upper[Peer(a)].delivered) <= Len(upper'[Peer(a)].delivered)

LEMMA DeliveredLength ==
  ASSUME NEW a, FlowTo(a)
  PROVE  Len(upper[Peer(a)].delivered) \in Nat
BY UpperType, LenProperties DEF FlowTo, Flows, UpperAt

LEMMA SameComplete ==
  ASSUME NEW a, FlowTo(a), upper'[Peer(a)] = upper[Peer(a)],
         Complete(win'[a], source'[a], upper[Peer(a)], written'[a], recv'[Peer(a)].mVRR)
  PROVE  CompleteStep(a)
<1>1. Len(upper[Peer(a)].delivered) <= Len(upper[Peer(a)].delivered)
  BY DeliveredLength, SMT
<1>2. CompleteTo(a)'
  BY DEF CompleteTo
<1> QED BY <1>1, <1>2 DEF CompleteStep

LEMMA QuietComplete ==
  ASSUME Inv, NEW a \in Entity, FlowTo(a), CompleteTo(a),
         UNCHANGED <<win, source, upper, written>>,
         recv'[Peer(a)].mVRR = recv[Peer(a)].mVRR
  PROVE  CompleteStep(a)
<1>1. upper'[Peer(a)] = upper[Peer(a)]
  OBVIOUS
<1>2. Complete(win'[a], source'[a], upper[Peer(a)], written'[a], recv'[Peer(a)].mVRR)
  BY DEF CompleteTo
<1> QED BY <1>1, <1>2, SameComplete

\* The receiver's next PDU in the sender's window.
LEMMA NextExpected ==
  ASSUME Inv, NEW a \in Entity, Two(a)
  PROVE  /\ win[a] \in Window /\ SenderOk(win[a]) /\ recv[Peer(a)].mVRR \in SN
         /\ InWindow(win[a], recv[Peer(a)].mVRR) \/ recv[Peer(a)].mVRR = win[a].mVTS
<1>1. win[a] \in Window /\ recv[Peer(a)] \in Rx
  BY FlowTypes
<1>2. SenderOk(win[a]) /\ ReceiverOk(win[a], recv[Peer(a)])
  BY DEF Two, Aligned
<1> QED BY <1>1, <1>2, ReceiverInWindow

LEMMA WriteHighSideAll ==
  ASSUME Inv, NEW a \in Entity, FlowTo(a), CompleteTo(a), RoomLeft, NEW e \in Entity,
         NEW sdu \in Sdu, RlcWriteHighSide(e, sdu)
  PROVE  CompleteStep(a)
<1>1. UNCHANGED <<win, recv, upper, link>>
  BY Zenon DEF RlcWriteHighSide
<1>2. CASE e # a
  <2>1. source'[a] = source[a] /\ written'[a] = written[a]
    BY <1>2, Zenon DEF RlcWriteHighSide, Inv, TypeOK
  <2> QED BY <1>1, <2>1, SameComplete DEF CompleteTo
<1>3. CASE e = a
  <2> DEFINE v == rlcWriteHighSide(source[a], sdu)
             x == Append(written[a], sdu)
  <2>1. source'[a] = v /\ written'[a] = x /\ sdu.id = Len(written[a]) + 1
    BY <1>3, Zenon DEF RlcWriteHighSide, Inv, TypeOK
  <2>2. /\ source[a] \in Source /\ written[a] \in Seq(Sdu)
        /\ Len(source[a].mSduTxQ) < mConfig.mTransmissionBufferSdus
    BY FlowTypes DEF RoomLeft
  <2>3. /\ Cut(v) = Cut(source[a])
        /\ \A id : InSource(source[a], id) \/ id = Len(written[a]) + 1 => InSource(v, id)
        /\ \A id \in 1 .. Len(x) : id \in 1 .. Len(written[a]) \/ id = Len(written[a]) + 1
    BY <2>1, <2>2, WriteHighSideComplete
  <2> HIDE DEF v, x
  <2>4. Complete(win[a], v, upper[Peer(a)], x, recv[Peer(a)].mVRR)
    BY <2>3, GrownComplete DEF CompleteTo
  <2> QED BY <1>1, <2>1, <2>4, SameComplete
<1> QED BY <1>2, <1>3

LEMMA TransmitAll ==
  ASSUME Inv, NEW a \in Entity, FlowTo(a), NEW e \in Entity, NEW w \in Window, NEW p,
         NEW sn \in SN, w.mPduTxQ[sn] \in TxPdu, Transmit(e, w, p, sn), Inv', Two(a)',
         written' = written,
         e = a => /\ SenderOk(w)
                  /\ Complete(w, source'[a], upper[Peer(a)], written[a], recv[Peer(a)].mVRR),
         e # a => CompleteTo(a) /\ source'[a] = source[a]
  PROVE  CompleteStep(a)
<1> DEFINE counted == CountTransmission(w, sn)
<1>1. counted \in Window /\ SameWindow(w, counted) /\ KeptPdus(w, counted)
  BY CountTransmissionType, CountTransmissionSame, CountTransmissionKept
<1>2. win' = [win EXCEPT ![e] = counted] /\ recv' = recv /\ upper' = upper
  BY Zenon DEF Transmit
<1> HIDE DEF counted
<1>3. CASE e = a
  <2>1. win'[a] = counted
    BY <1>2, <1>3, Zenon DEF Inv, TypeOK
  <2>2. /\ recv[Peer(a)].mVRR \in SN /\ SenderOk(counted)
        /\ InWindow(counted, recv[Peer(a)].mVRR) \/ recv[Peer(a)].mVRR = counted.mVTS
    <3>1. recv[Peer(a)] \in Rx
      BY FlowTypes
    <3>2. SenderOk(counted) /\ ReceiverOk(counted, recv[Peer(a)])
      BY <1>2, <2>1 DEF Two, Aligned
    <3> QED BY <1>1, <3>1, <3>2, ReceiverInWindow
  <2>3. KeepsText(w, counted) /\ KeepsRest(w, counted)
    BY <1>1, <1>3, SameKeeps, SameRest
  <2>4. Complete(counted, source'[a], upper[Peer(a)], written[a], recv[Peer(a)].mVRR)
    BY <1>1, <1>3, <2>2, <2>3, KeptComplete
  <2> QED BY <1>2, <2>1, <2>4, SameComplete
<1>4. CASE e # a
  <2>1. win'[a] = win[a]
    BY <1>2, <1>4, Zenon DEF Inv, TypeOK
  <2> QED BY <1>2, <1>4, <2>1, SameComplete DEF CompleteTo
<1> QED BY <1>3, <1>4

LEMMA ReadRetransmissionAll ==
  ASSUME Inv, Inv', NEW a \in Entity, NEW e \in Entity, Two(a), Two(a)', FlowTo(a),
         CompleteTo(a), ReadRetransmission(e)
  PROVE  CompleteStep(a)
<1> DEFINE w == Retransmitted(win[e])
           sn == win[e].mVSNack
           p == PollAskedIf(poll[e], /\ ~w.mNackedBlocksWaiting
                                     /\ mConfig.mLastRetransmissionPduPoll)
<1>1. win[e] \in Window /\ NackOk(win[e]) /\ win[e].mNackedBlocksWaiting
  BY StateTypes DEF ReadRetransmission
<1>2. w \in Window /\ w.mPduTxQ[sn] \in TxPdu /\ SameWindow(win[e], w)
  BY <1>1, RetransmittedType, RetransmittedSame
<1>3. sn \in SN
  BY <1>1, PduSnType
<1>4. Transmit(e, w, p, sn) /\ source' = source /\ written' = written
  BY Zenon DEF ReadRetransmission, Transmit, env
<1>5. KeptPdus(win[e], w)
  BY <1>1, RetransmittedKept
<1> HIDE DEF w
<1>6. ASSUME e = a
      PROVE  /\ SenderOk(w)
             /\ Complete(w, source'[a], upper[Peer(a)], written[a], recv[Peer(a)].mVRR)
  <2>1. SenderOk(w) /\ ReceiverOk(w, recv[Peer(a)])
    BY <1>1, <1>2, <1>6, SameWindowOk DEF Two, Aligned
  <2>2. SenderOk(win[a]) /\ win[a] \in Window /\ recv[Peer(a)] \in Rx
    BY NextExpected, FlowTypes
  <2>3. KeepsText(win[a], w) /\ KeepsRest(win[a], w)
    BY <1>1, <1>2, <1>5, <1>6, <2>2, SameKeeps, SameRest
  <2>4. recv[Peer(a)].mVRR \in SN
        /\ (InWindow(w, recv[Peer(a)].mVRR) \/ recv[Peer(a)].mVRR = w.mVTS)
    BY <1>2, <2>1, <2>2, ReceiverInWindow
  <2>5. Complete(w, source[a], upper[Peer(a)], written[a], recv[Peer(a)].mVRR)
    BY <1>2, <2>1, <2>2, <2>3, <2>4, KeptComplete DEF CompleteTo
  <2> QED BY <1>4, <2>1, <2>5
<1> HIDE DEF sn, p
<1> QED BY <1>2, <1>3, <1>4, <1>6, TransmitAll

LEMMA ReadNewDataAll ==
  ASSUME Inv, Inv', NEW a \in Entity, NEW e \in Entity, Two(a), Two(a)', FlowTo(a),
         CompleteTo(a), ReadNewData(e)
  PROVE  CompleteStep(a)
<1> DEFINE payload == FilledPayload(source[e])
           w == getDataPdu(win[e], payload)
           sn == win[e].mVTS
           p == PollAskedIf(poll[e], /\ pdusFinished(source'[e])
                                     /\ mConfig.mLastTransmissionPduPoll)
<1>1. win[e] \in Window /\ ~stalled(win[e]) /\ payload \in Payload
  BY StateTypes, FilledPayloadType DEF ReadNewData, NoNewData
<1> HIDE DEF payload
<1>2. w \in Window /\ w.mPduTxQ[sn] \in TxPdu
  BY <1>1, GetDataPduType
<1>3. sn \in SN
  BY <1>1, PduSnType
<1>4. Transmit(e, w, p, sn) /\ source' = [source EXCEPT ![e] = fillPduData(source[e])]
      /\ written' = written
  BY Zenon DEF ReadNewData, payload, Transmit, env
<1>5. ASSUME e = a
      PROVE  /\ SenderOk(w)
             /\ Complete(w, source'[a], upper[Peer(a)], written[a], recv[Peer(a)].mVRR)
  <2>1. source[a] \in Source /\ SourceOk(source[a], written[a])
    BY FlowTypes DEF FlowTo, Flows
  <2>2. source'[a] = fillPduData(source[a])
    BY <1>4, <1>5, Zenon DEF Inv, TypeOK
  <2>3. SenderOk(w)
    BY <1>1, <1>5, NextExpected, NewDataWindow
  <2>4. Complete(w, fillPduData(source[a]), upper[Peer(a)], written[a], recv[Peer(a)].mVRR)
    BY <1>1, <1>5, <2>1, NextExpected, NewDataComplete DEF CompleteTo, payload
  <2> QED BY <2>2, <2>3, <2>4
<1>6. e # a => source'[a] = source[a]
  BY <1>4, Zenon DEF Inv, TypeOK
<1> HIDE DEF w, sn, p
<1> QED BY <1>2, <1>3, <1>4, <1>5, <1>6, TransmitAll

LEMMA ReceiveDataAll ==
  ASSUME Inv, Uppers, NEW a \in Entity, NEW e \in Entity, Two(a), FlowTo(a), CompleteTo(a),
         ReceiveData(e)
  PROVE  CompleteStep(a)
<1> DEFINE m == Head(link[e])
           p == PollSeen(recv[e], m.poll)
           s == Stored(p, m.sn, m.payload)
           r == IF Unwanted(p, m.sn) THEN p ELSE Accepted(s, m.sn)
           u == IF Unwanted(p, m.sn) THEN upper[e] ELSE Delivered(s, upper[e], m.sn)
<1>1. /\ link[e] # <<>> /\ m.type = "DATA"
      /\ UNCHANGED <<win, source, written>>
      /\ recv' = [recv EXCEPT ![e] = r]
      /\ upper' = [upper EXCEPT ![e] = u]
  BY Zenon DEF ReceiveData, Arrived, env
<1>2. CASE e = a
  <2> HIDE DEF r, u
  <2>1. recv'[Peer(a)] = recv[Peer(a)]
    BY <1>1, <1>2, FlowTypes, Zenon DEF Inv, TypeOK
  <2>2. upper'[Peer(a)] = upper[Peer(a)]
    BY <1>1, <1>2, FlowTypes
  <2> QED BY <1>1, <2>1, <2>2, SameComplete DEF CompleteTo
<1>3. CASE e = Peer(a)
  <2>1. Onward(win[a], source[a], upper[e], u, written[a], recv[e].mVRR, r.mVRR)
    <3>1. win[a] \in Window /\ recv[e] \in Rx /\ link[e] \in Seq(Pdu)
      BY FlowTypes
    <3>2. /\ Aligned(win[a], recv[e], link[e], link[a])
          /\ Flows(win[a], source[a], recv[e], upper[e], link[e], written[a])
      BY <1>3 DEF Two, FlowTo
    <3> QED BY <1>1, <3>1, <3>2, DataReceivedFlows
  <2> HIDE DEF r, u
  <2>2. recv'[Peer(a)] = r
    BY <1>1, <1>3, FlowTypes, Zenon DEF Inv, TypeOK
  <2>3. upper'[Peer(a)] = u
    BY <1>1, <1>3, Zenon DEF Uppers
  <2>4. Complete(win[a], source[a], u, written[a], r.mVRR)
    BY <1>3, <2>1 DEF CompleteTo, Onward
  <2>5. Len(upper[e].delivered) <= Len(u.delivered)
    BY <2>1 DEF Onward
  <2> QED BY <1>1, <1>3, <2>2, <2>3, <2>4, <2>5 DEF CompleteStep, CompleteTo
<1> QED BY <1>2, <1>3, FlowTypes

LEMMA ReceiveStatusAll ==
  ASSUME Inv, NEW a \in Entity, NEW e \in Entity, Two(a), Two(a)', FlowTo(a), CompleteTo(a),
         ReceiveStatus(e)
  PROVE  CompleteStep(a)
<1>1. /\ link[e] # <<>> /\ Head(link[e]).type = "STATUS"
      /\ UNCHANGED <<source, recv, upper, written>>
      /\ win' = [win EXCEPT ![e] = processSUFIs2(win[e], Head(link[e]))]
  BY Zenon DEF ReceiveStatus, Arrived, env
<1>2. CASE e = Peer(a)
  <2>1. win'[a] = win[a]
    BY <1>1, <1>2, FlowTypes, Zenon DEF Inv, TypeOK
  <2> QED BY <1>1, <2>1, SameComplete DEF CompleteTo
<1>3. CASE e = a
  <2> DEFINE v == processSUFIs2(win[a], Head(link[a]))
  <2>1. win'[a] = v
    BY <1>1, <1>3, Zenon DEF Inv, TypeOK
  <2>2. SenderOk(win[a]) /\ StatusOk(win[a], link[a])
    BY DEF Two, Aligned
  <2>3. win[a] \in Window /\ recv[Peer(a)] \in Rx /\ link[a] \in Seq(Pdu)
    BY FlowTypes
  <2>4. v \in Window /\ KeepsText(win[a], v) /\ KeepsRest(win[a], v)
    BY <1>1, <1>3, <2>2, <2>3, StatusReceivedKeeps
  <2> HIDE DEF v
  <2>5. SenderOk(v) /\ ReceiverOk(v, recv[Peer(a)])
    BY <1>1, <2>1 DEF Two, Aligned
  <2>6. /\ recv[Peer(a)].mVRR \in SN
        /\ InWindow(v, recv[Peer(a)].mVRR) \/ recv[Peer(a)].mVRR = v.mVTS
    BY <2>3, <2>4, <2>5, ReceiverInWindow
  <2>7. Complete(v, source[a], upper[Peer(a)], written[a], recv[Peer(a)].mVRR)
    BY <2>2, <2>3, <2>4, <2>5, <2>6, KeptComplete DEF CompleteTo
  <2> QED BY <1>1, <2>1, <2>7, SameComplete
<1> QED BY <1>2, <1>3, FlowTypes

LEMMA CompleteNext ==
  ASSUME Inv, Inv', Uppers, NEW a \in Entity, Two(a), Two(a)', FlowTo(a), CompleteTo(a),
         RoomLeft, [Next]_vars
  PROVE  CompleteStep(a) \/ \E e \in Entity : Resets(e)
<1>1. ASSUME NEW e \in Entity, RlcReadLowSide(e) PROVE CompleteStep(a)
  <2>1. CASE ReadResetAck(e) \/ ReadReset(e) \/ ReadPollOnly(e)
    <3>1. UNCHANGED <<win, recv, source, upper, written>>
      BY <2>1, Zenon DEF ReadReset, ReadResetAck, ReadPollOnly, env
    <3> QED BY <3>1, QuietComplete
  <2>2. CASE ReadStatus(e)
    <3>1. /\ UNCHANGED <<win, source, upper, written>>
          /\ recv' = [recv EXCEPT ![e] = StatusReported(recv[e])]
      BY <2>2, Zenon DEF ReadStatus, env
    <3>2. recv[Peer(a)] \in Rx /\ Peer(a) \in Entity
      BY FlowTypes
    <3>3. StatusReported(recv[Peer(a)]).mVRR = recv[Peer(a)].mVRR
      BY <3>2, Zenon DEF StatusReported, Rx
    <3>4. recv'[Peer(a)] = recv[Peer(a)] \/ recv'[Peer(a)] = StatusReported(recv[Peer(a)])
      BY <3>1, <3>2, Zenon DEF Inv, TypeOK
    <3>5. recv'[Peer(a)].mVRR = recv[Peer(a)].mVRR
      BY <3>3, <3>4
    <3> QED BY <3>1, <3>5, QuietComplete
  <2> QED BY <1>1, <2>1, <2>2, ReadRetransmissionAll, ReadNewDataAll DEF RlcReadLowSide
<1>2. ASSUME NEW e \in Entity, RlcWriteLowSide(e), ~Resets(e) PROVE CompleteStep(a)
  BY <1>2, ReceiveDataAll, ReceiveStatusAll DEF RlcWriteLowSide, Resets
<1>3. ASSUME NEW e \in Entity, NEW sdu \in Sdu, RlcWriteHighSide(e, sdu)
      PROVE  CompleteStep(a)
  BY <1>3, WriteHighSideAll
<1>4. ASSUME NEW e \in Entity,
             \/ LosePdu(e) \/ TriggerReset(e) \/ RstTimerExpires(e)
             \/ \E timer \in PollTimers : PollTimerExpires(e, timer)
      PROVE  CompleteStep(a)
  <2>1. UNCHANGED <<source, win, recv, upper, written>>
    BY <1>4, Zenon DEF LosePdu, TriggerReset, RstTimerExpires, PollTimerExpires, env, tran
  <2> QED BY <2>1, QuietComplete
<1>5. ASSUME UNCHANGED vars PROVE CompleteStep(a)
  <2>1. UNCHANGED <<source, win, recv, upper, written>>
    BY <1>5 DEF vars, tran, env
  <2> QED BY <2>1, QuietComplete
<1> QED BY <1>1, <1>2, <1>3, <1>4, <1>5 DEF Next

-----------------------------------------------------------------------------
(* What has been handed up is what was written first.                      *)

LEMMA HandedPrefix ==
  ASSUME NEW u \in Upper, NEW mark
  PROVE  LET d == HandedBy(u, mark)
         IN  \A i \in 1 .. Len(u.delivered) : i \in 1 .. Len(d) /\ d[i] = u.delivered[i]
<1>1. u.delivered \in Seq(Seq(Segment)) /\ u.mUpSdu \in Seq(Segment)
  BY UpperType
<1>2. CASE mark
  <2>1. HandedBy(u, mark) = Append(u.delivered, u.mUpSdu)
    BY <1>2 DEF HandedBy
  <2>2. /\ Len(Append(u.delivered, u.mUpSdu)) = Len(u.delivered) + 1
        /\ Len(u.delivered) \in Nat
        /\ \A i \in 1 .. Len(u.delivered) : Append(u.delivered, u.mUpSdu)[i] = u.delivered[i]
    BY <1>1, AppendProperties, LenProperties
  <2> QED BY <2>1, <2>2, SMT
<1>3. CASE ~mark
  BY <1>3 DEF HandedBy
<1> QED BY <1>2, <1>3

\* The n-th SDU handed up is the n-th written.
LEMMA AllHanded ==
  ASSUME NEW w, NEW s, NEW u, NEW wr \in Seq(Sdu), NEW sn,
         UpperAt(w, s, u, wr, sn), Complete(w, s, u, wr, sn)
  PROVE  /\ Len(u.delivered) \in Nat /\ Len(u.delivered) <= Len(wr)
         /\ \A i \in 1 .. Len(u.delivered) : u.delivered[i] = WholeSdu(wr[i])
<1> DEFINE mark == CutAt(w, s, sn).mark
           d == HandedBy(u, mark)
           up == u.delivered
<1>1. /\ u \in Upper /\ Handed(d, wr)
      /\ \A i \in 1 .. Len(d) : \A id \in Nat : Comes(w, s, sn, id) => IdOf(d[i]) < id
      /\ \A id \in 1 .. Len(wr) :
           (\E i \in 1 .. Len(d) : IdOf(d[i]) = id) \/ Comes(w, s, sn, id)
  BY Zenon DEF UpperAt, Complete
<1>2. up \in Seq(Seq(Segment)) /\ Len(up) \in Nat /\ Len(wr) \in Nat
  BY <1>1, UpperType, LenProperties
<1>3. \A i \in 1 .. Len(up) : i \in 1 .. Len(d) /\ d[i] = up[i]
  BY <1>1, HandedPrefix
<1> HIDE DEF mark, d, up
<1>4. ASSUME NEW i \in 1 .. Len(d)
      PROVE  /\ IdOf(d[i]) \in 1 .. Len(wr) /\ IdOf(d[i]) \in Nat
             /\ d[i] = WholeSdu(wr[IdOf(d[i])])
  <2>1. PICK sdu \in Sdu : Known(wr, sdu) /\ d[i] = WholeSdu(sdu)
    BY <1>1, Zenon DEF Handed
  <2>2. IdOf(d[i]) = sdu.id
    BY <2>1, IdOfWhole
  <2> QED BY <2>1, <2>2, SduType DEF Known
<1>5. \A i \in 1 .. Len(d) : IdOf(d[i]) = i
  <2> DEFINE T == {i \in 1 .. Len(d) : IdOf(d[i]) # i}
  <2> SUFFICES ASSUME T # {} PROVE FALSE
    OBVIOUS
  <2>1. T \in SUBSET Nat
    BY SMT
  <2>2. PICK i \in T : \A m \in T : i <= m
    <3> HIDE DEF T
    <3> QED BY <2>1, NatMin
  <2>3. i \in 1 .. Len(d) /\ i \in Nat /\ IdOf(d[i]) # i /\ 1 <= i
    BY <2>1, <2>2, SMT
  <2>4. \A m \in 1 .. Len(d) : m < i => IdOf(d[m]) = m
    <3> SUFFICES ASSUME NEW m \in 1 .. Len(d), m < i, IdOf(d[m]) # m PROVE FALSE
      OBVIOUS
    <3>1. m \in T /\ m \in Int
      BY SMT
    <3> HIDE DEF T
    <3> QED BY <2>2, <2>3, <3>1, SMT
  <2> HIDE DEF T
  <2>5. IdOf(d[i]) \in Nat /\ IdOf(d[i]) \in 1 .. Len(wr)
    BY <1>4, <2>3
  <2>6. i < IdOf(d[i])
    <3>1. CASE i = 1
      BY <2>3, <2>5, <3>1, SMT
    <3>2. CASE i # 1
      <4>1. i - 1 \in 1 .. Len(d) /\ i - 1 < i /\ i - 1 \in Nat
        BY <2>3, <3>2, SMT
      <4>2. IdOf(d[i - 1]) = i - 1 /\ IdOf(d[i - 1]) < IdOf(d[i])
        BY <1>1, <2>3, <2>4, <4>1 DEF Handed
      <4> QED BY <2>3, <2>5, <4>1, <4>2, SMT
    <3> QED BY <3>1, <3>2
  <2>7. i \in 1 .. Len(wr)
    BY <1>2, <2>3, <2>5, <2>6, SMT
  <2>8. CASE Comes(w, s, sn, i)
    <3>1. IdOf(d[i]) < i
      BY <1>1, <2>3, <2>8
    <3> QED BY <2>3, <2>5, <2>6, <3>1, SMT
  <2>9. ASSUME NEW j \in 1 .. Len(d), IdOf(d[j]) = i PROVE FALSE
    <3>1. j \in Nat
      BY SMT
    <3>2. CASE j < i
      BY <2>3, <2>4, <2>9, <3>1, <3>2, SMT
    <3>3. CASE j = i
      BY <2>3, <2>9, <3>3
    <3>4. CASE i < j
      <4>1. IdOf(d[i]) < IdOf(d[j])
        BY <1>1, <2>3, <3>4 DEF Handed
      <4> QED BY <2>3, <2>5, <2>6, <2>9, <4>1, SMT
    <3> QED BY <2>3, <3>1, <3>2, <3>3, <3>4, SMT
  <2> QED BY <1>1, <2>7, <2>8, <2>9
<1>6. \A i \in 1 .. Len(up) : i \in 1 .. Len(wr) /\ up[i] = WholeSdu(wr[i])
  BY <1>3, <1>4, <1>5
<1>7. Len(up) <= Len(wr)
  <2>1. CASE Len(up) = 0
    BY <1>2, <2>1, SMT
  <2>2. CASE Len(up) # 0
    <3>1. Len(up) \in 1 .. Len(up)
      BY <1>2, <2>2, SMT
    <3> QED BY <1>2, <1>6, <3>1, SMT
  <2> QED BY <2>1, <2>2
<1> QED BY <1>2, <1>6, <1>7 DEF up

-----------------------------------------------------------------------------
(* The refinement mapping.                                                 *)

\* The SDUs up stands for.
SdusOf(up) ==
  [i \in DOMAIN up |->
     LET segs == up[i]
     IN  IF segs # <<>> /\ segs = WholeSdu(segs[1].sdu) THEN segs[1].sdu ELSE NoSdu]

LEMMA SdusOfHanded ==
  ASSUME NEW up \in Seq(Seq(Segment)), NEW wr \in Seq(Sdu), Len(up) <= Len(wr),
         \A i \in 1 .. Len(up) : up[i] = WholeSdu(wr[i])
  PROVE  SdusOf(up) = SubSeq(wr, 1, Len(up)) /\ Len(SdusOf(up)) = Len(up)
<1>1. DOMAIN up = 1 .. Len(up) /\ Len(up) \in Nat /\ Len(wr) \in Nat
  BY LenProperties
<1>2. \A i \in 1 .. Len(up) : i \in 1 .. Len(wr) /\ wr[i] \in Sdu
  BY <1>1, SMT
<1>3. ASSUME NEW i \in 1 .. Len(up)
      PROVE  up[i] # <<>> /\ up[i][1].sdu = wr[i] /\ up[i] = WholeSdu(up[i][1].sdu)
  <2>1. up[i] = WholeSdu(wr[i]) /\ wr[i] \in Sdu
    BY <1>2
  <2>2. wr[i].pdus \in Nat /\ wr[i].pdus >= 1
    BY <2>1, SduType
  <2>3. WholeSdu(wr[i]) = Part(wr[i], wr[i].pdus)
    BY DEF WholeSdu, Part
  <2>4. WholeSdu(wr[i]) # <<>>
    BY <2>1, <2>2, <2>3, PartType, SMT
  <2>5. 1 \in 1 .. wr[i].pdus
    BY <2>2, SMT
  <2>6. WholeSdu(wr[i])[1] = [sdu |-> wr[i], part |-> 1]
    BY <2>5, Zenon DEF WholeSdu
  <2> QED BY <2>1, <2>4, <2>6
<1>4. \A i \in 1 .. Len(up) :
        (IF up[i] # <<>> /\ up[i] = WholeSdu(up[i][1].sdu) THEN up[i][1].sdu ELSE NoSdu) = wr[i]
  BY <1>3
<1>5. SdusOf(up) = [i \in 1 .. Len(up) |-> wr[i]]
  BY <1>1, <1>4, Zenon DEF SdusOf
<1>6. /\ [i \in 1 .. Len(up) |-> wr[i]] = SubSeq(wr, 1, Len(up))
      /\ Len(SubSeq(wr, 1, Len(up))) = Len(up)
  BY <1>1, SMT
<1> QED BY <1>5, <1>6

LEMMA DeliveredAre ==
  DeliveredSdus = [e \in Entity |-> SdusOf(upper[e].delivered)]
BY Zenon DEF DeliveredSdus, SdusOf

LEMMA ToDelivered ==
  ASSUME Inv, NEW a \in Entity, FlowTo(a), CompleteTo(a)
  PROVE  LET up == upper[Peer(a)].delivered
         IN  /\ Len(up) \in Nat /\ Len(up) <= Len(written[a])
             /\ DeliveredSdus[Peer(a)] = SubSeq(written[a], 1, Len(up))
             /\ Len(DeliveredSdus[Peer(a)]) = Len(up)
<1> DEFINE u == upper[Peer(a)]
           up == u.delivered
<1>1. Peer(a) \in Entity /\ written[a] \in Seq(Sdu)
  BY FlowTypes
<1>2. UpperAt(win[a], source[a], u, written[a], recv[Peer(a)].mVRR)
  BY DEF FlowTo, Flows
<1>3. /\ Len(up) \in Nat /\ Len(up) <= Len(written[a])
      /\ \A i \in 1 .. Len(up) : up[i] = WholeSdu(written[a][i])
  BY <1>1, <1>2, AllHanded DEF CompleteTo
<1>4. up \in Seq(Seq(Segment))
  BY <1>2, UpperType DEF UpperAt
<1>5. SdusOf(up) = SubSeq(written[a], 1, Len(up)) /\ Len(SdusOf(up)) = Len(up)
  BY <1>1, <1>3, <1>4, SdusOfHanded
<1>6. DeliveredSdus[Peer(a)] = SdusOf(up)
  BY <1>1, DeliveredAre, Zenon
<1> QED BY <1>3, <1>5, <1>6

LEMMA ToDeliveredNext ==
  ASSUME Inv', NEW a \in Entity, FlowTo(a)', CompleteTo(a)'
  PROVE  LET up == upper'[Peer(a)].delivered
         IN  /\ Len(up) \in Nat /\ Len(up) <= Len(written'[a])
             /\ DeliveredSdus'[Peer(a)] = SubSeq(written'[a], 1, Len(up))
<1> DEFINE u == upper'[Peer(a)]
           wr == written'[a]
           w == win'[a]
           s == source'[a]
           sn == recv'[Peer(a)].mVRR
           up == u.delivered
<1>1. Peer(a) \in Entity
  BY TwoEntities
<1>2. wr \in Seq(Sdu)
  BY Zenon DEF Inv, TypeOK
<1>3. UpperAt(w, s, u, wr, sn)
  BY DEF FlowTo, Flows
<1>4. Complete(w, s, u, wr, sn)
  BY DEF CompleteTo
<1>5. /\ Len(up) \in Nat /\ Len(up) <= Len(wr)
      /\ \A i \in 1 .. Len(up) : up[i] = WholeSdu(wr[i])
  <2> HIDE DEF u, wr, w, s, sn
  <2> QED BY <1>2, <1>3, <1>4, AllHanded
<1>6. up \in Seq(Seq(Segment))
  BY <1>3, UpperType DEF UpperAt
<1>7. SdusOf(up) = SubSeq(wr, 1, Len(up))
  BY <1>2, <1>5, <1>6, SdusOfHanded
<1>8. DeliveredSdus'[Peer(a)] = SdusOf(up)
  BY <1>1, Zenon DEF DeliveredSdus, SdusOf
<1> QED BY <1>5, <1>7, <1>8

-----------------------------------------------------------------------------
(* A step of the entities is a step of the service.                        *)

\* A step writes an SDU, or changes what one end has been handed, or neither.
LEMMA UpperSteps ==
  ASSUME [Next]_vars
  PROVE  \/ \E e \in Entity : \E sdu \in Sdu :
              /\ written' = [written EXCEPT ![e] = Append(written[e], sdu)]
              /\ upper' = upper
         \/ written' = written /\ upper' = upper
         \/ \E e \in Entity : \E u : written' = written /\ upper' = [upper EXCEPT ![e] = u]
<1>1. ASSUME NEW e \in Entity, RlcReadLowSide(e) PROVE written' = written /\ upper' = upper
  BY <1>1, Zenon DEF RlcReadLowSide, ReadResetAck, ReadReset, ReadStatus,
       ReadRetransmission, ReadNewData, ReadPollOnly, Transmit, env
<1>2. ASSUME NEW e \in Entity, RlcWriteLowSide(e)
      PROVE  /\ written' = written
             /\ upper' = upper \/ \E u : upper' = [upper EXCEPT ![e] = u]
  BY <1>2, Zenon DEF RlcWriteLowSide, ReceiveData, ReceiveStatus, ReceiveReset,
       ReceiveResetAck, FullReset, ResetTo, env
<1>3. ASSUME NEW e \in Entity, NEW sdu \in Sdu, RlcWriteHighSide(e, sdu)
      PROVE  /\ written' = [written EXCEPT ![e] = Append(written[e], sdu)]
             /\ upper' = upper
  BY <1>3, Zenon DEF RlcWriteHighSide
<1>4. ASSUME NEW e \in Entity,
             \/ TriggerReset(e) \/ RstTimerExpires(e)
             \/ \E timer \in PollTimers : PollTimerExpires(e, timer)
             \/ LosePdu(e)
      PROVE  written' = written /\ upper' = upper
  BY <1>4, Zenon DEF TriggerReset, RstTimerExpires, PollTimerExpires, LosePdu, env
<1>5. ASSUME UNCHANGED vars PROVE written' = written /\ upper' = upper
  BY <1>5 DEF vars, env
<1> QED BY <1>1, <1>2, <1>3, <1>4, <1>5, Zenon DEF Next

LEMMA ServiceStep ==
  ASSUME Inv, Inv', CalmInv, CalmInv', CalmFlow, CalmFlow', NeverReset, NeverReset',
         RoomLeft, \A a \in Entity : CompleteTo(a), [Next]_vars
  PROVE  /\ \A a \in Entity : CompleteTo(a)'
         /\ [Service!Next]_<<written, DeliveredSdus>>
<1>1. ASSUME NEW a \in Entity
      PROVE  /\ Peer(a) \in Entity /\ Peer(a) # a /\ Peer(Peer(a)) = a
             /\ FlowTo(a) /\ FlowTo(a)' /\ CompleteStep(a)
  <2>1. Two(a) /\ Two(a)' /\ FlowTo(a) /\ FlowTo(a)'
    BY Zenon DEF CalmInv, CalmFlow
  <2>2. CompleteStep(a)
    <3>1. CompleteStep(a) \/ \E e \in Entity : Resets(e)
      BY <2>1, CompleteNext DEF CalmFlow
    <3>2. \A e \in Entity : ~Resets(e)
      BY CalmResets DEF CalmInv
    <3> QED BY <3>1, <3>2
  <2> QED BY <2>1, <2>2, EndTypes
<1>2. \A a \in Entity : CompleteTo(a)'
  BY <1>1 DEF CompleteStep
<1>3. ASSUME upper' = upper PROVE DeliveredSdus' = DeliveredSdus
  BY <1>3, Zenon DEF DeliveredSdus
<1>4. ASSUME written' = written, upper' = upper
      PROVE  [Service!Next]_<<written, DeliveredSdus>>
  BY <1>3, <1>4
<1>5. ASSUME NEW e \in Entity, NEW sdu \in Sdu,
             written' = [written EXCEPT ![e] = Append(written[e], sdu)], upper' = upper
      PROVE  Service!Next
  <2>1. Service!Write(e)
    BY <1>3, <1>5, Zenon DEF Service!Write
  <2> QED BY <2>1 DEF Service!Next
<1>6. ASSUME NEW e \in Entity, NEW u, written' = written,
             upper' = [upper EXCEPT ![e] = u]
      PROVE  [Service!Next]_<<written, DeliveredSdus>>
  <2> DEFINE a == Peer(e)
             m == Len(upper[e].delivered)
             n == Len(upper'[e].delivered)
  <2>1. a \in Entity /\ Peer(a) = e /\ a # e
    BY <1>1
  <2>2. /\ m \in Nat /\ Len(DeliveredSdus[e]) = m
        /\ DeliveredSdus[e] = SubSeq(written[a], 1, m)
    BY <1>1, <2>1, ToDelivered
  <2>3. /\ n \in Nat /\ n <= Len(written[a])
        /\ DeliveredSdus'[e] = SubSeq(written[a], 1, n)
    <3>1. LET up == upper'[Peer(a)].delivered
          IN  /\ Len(up) \in Nat /\ Len(up) <= Len(written'[a])
              /\ DeliveredSdus'[Peer(a)] = SubSeq(written'[a], 1, Len(up))
      BY <1>1, <1>2, <2>1, ToDeliveredNext
    <3> QED BY <1>6, <2>1, <3>1
  <2>4. m <= n
    BY <1>1, <2>1 DEF CompleteStep
  <2>5. \A x \in Entity : x # e => DeliveredSdus'[x] = DeliveredSdus[x]
    <3>1. \A x \in Entity : x # e => upper'[x] = upper[x]
      BY <1>6, Zenon DEF CalmFlow, Uppers
    <3>2. \A x \in Entity : DeliveredSdus[x] = SdusOf(upper[x].delivered)
      BY DeliveredAre, Zenon
    <3>3. \A x \in Entity : DeliveredSdus'[x] = SdusOf(upper'[x].delivered)
      BY Zenon DEF DeliveredSdus, SdusOf
    <3> QED BY <3>1, <3>2, <3>3, Zenon
  <2>6. DeliveredSdus' = [DeliveredSdus EXCEPT ![e] = SubSeq(written[a], 1, n)]
    <3>1. DeliveredSdus = [x \in Entity |-> DeliveredSdus[x]]
      BY Zenon DEF DeliveredSdus
    <3>2. DeliveredSdus' = [x \in Entity |-> DeliveredSdus'[x]]
      BY Zenon DEF DeliveredSdus
    <3> HIDE DEF n, a
    <3> QED BY <2>3, <2>5, <3>1, <3>2, Zenon
  <2> HIDE DEF m, n, a
  <2>7. CASE m = n
    <3>1. \A x \in Entity : DeliveredSdus'[x] = DeliveredSdus[x]
      BY <2>2, <2>3, <2>5, <2>7
    <3>2. DeliveredSdus = [x \in Entity |-> DeliveredSdus[x]]
      BY Zenon DEF DeliveredSdus
    <3>3. DeliveredSdus' = [x \in Entity |-> DeliveredSdus'[x]]
      BY Zenon DEF DeliveredSdus
    <3>4. DeliveredSdus' = DeliveredSdus
      BY <3>1, <3>2, <3>3, Zenon
    <3> QED BY <1>6, <3>4
  <2>8. CASE m # n
    <3>1. n \in Len(DeliveredSdus[e]) + 1 .. Len(written[a])
      <4>1. Len(written[a]) \in Nat
        BY <2>1, FlowTypes, LenProperties
      <4> QED BY <2>2, <2>3, <2>4, <2>8, <4>1, SMT
    <3>2. Service!Deliver(a, e)
      BY <1>6, <2>1, <2>6, <3>1, Zenon DEF Service!Deliver
    <3> QED BY <2>1, <3>2 DEF Service!Next
  <2> QED BY <2>7, <2>8
<1>7. [Service!Next]_<<written, DeliveredSdus>>
  BY <1>4, <1>5, <1>6, UpperSteps
<1> QED BY <1>2, <1>7

LEMMA CompleteInit == ASSUME Init, NEW a \in Entity PROVE CompleteTo(a)
<1>1. written[a] = <<>>
  BY Zenon DEF Init
<1>2. \A id \in 1 .. Len(<<>>) : FALSE
  BY EmptySeq, SMT
<1> QED BY <1>1, <1>2, Zenon DEF CompleteTo, Complete

LEMMA ServiceInit == Init => Service!Init
<1> SUFFICES ASSUME Init PROVE Service!Init
  OBVIOUS
<1>1. written = [e \in Entity |-> <<>>]
  BY DEF Init
<1>2. \A e \in Entity : upper[e].delivered = <<>>
  BY Zenon DEF Init, upperInit
<1>3. SdusOf(<<>>) = <<>>
  <2>1. DOMAIN <<>> = 1 .. 0
    BY EmptySeq, SMT
  <2> QED BY <2>1, SMT DEF SdusOf
<1>4. DeliveredSdus = [e \in Entity |-> <<>>]
  BY <1>2, <1>3, DeliveredAre, Zenon
<1> QED BY <1>1, <1>4 DEF Service!Init

-----------------------------------------------------------------------------
(* With a buffer as large as all that is written, there is always room.    *)

\* No more SDUs wait than were written.
Queued ==
  \A e \in Entity : /\ Len(source[e].mSduTxQ) <= Len(written[e])
                    /\ Len(written[e]) <= MaxSdus

\* A step writes an SDU, or shortens a queue, or keeps it.
LEMMA SourceSteps ==
  ASSUME [Next]_vars
  PROVE  \/ \E e \in Entity : \E sdu \in Sdu : RlcWriteHighSide(e, sdu)
         \/ /\ written' = written
            /\ \/ source' = source
               \/ \E e \in Entity : \/ source' = [source EXCEPT ![e] = fillPduData(source[e])]
                                    \/ source' = [source EXCEPT ![e] = sourceReset(source[e])]
<1>1. ASSUME NEW e \in Entity, RlcReadLowSide(e)
      PROVE  /\ written' = written
             /\ source' = source \/ source' = [source EXCEPT ![e] = fillPduData(source[e])]
  BY <1>1, Zenon DEF RlcReadLowSide, ReadResetAck, ReadReset, ReadStatus,
       ReadRetransmission, ReadNewData, ReadPollOnly, Transmit, env
<1>2. ASSUME NEW e \in Entity, RlcWriteLowSide(e)
      PROVE  /\ written' = written
             /\ source' = source \/ source' = [source EXCEPT ![e] = sourceReset(source[e])]
  BY <1>2, Zenon DEF RlcWriteLowSide, ReceiveData, ReceiveStatus, ReceiveReset,
       ReceiveResetAck, FullReset, ResetTo, env, tran
<1>3. ASSUME NEW e \in Entity,
             \/ TriggerReset(e) \/ RstTimerExpires(e)
             \/ \E timer \in PollTimers : PollTimerExpires(e, timer)
             \/ LosePdu(e)
      PROVE  written' = written /\ source' = source
  BY <1>3, Zenon DEF TriggerReset, RstTimerExpires, PollTimerExpires, LosePdu, env, tran
<1>4. ASSUME UNCHANGED vars PROVE written' = written /\ source' = source
  BY <1>4 DEF vars, env, tran
<1> QED BY <1>1, <1>2, <1>3, <1>4, Zenon DEF Next

LEMMA QueuedNext == ASSUME Inv, Queued, [Next]_vars PROVE Queued'
<1>1. \A e \in Entity : source[e].mSduTxQ \in Seq(Sdu) /\ written[e] \in Seq(Sdu)
  BY Zenon DEF Inv, TypeOK, Source
<1>2. ASSUME NEW e \in Entity, NEW sdu \in Sdu, RlcWriteHighSide(e, sdu)
      PROVE  Queued'
  <2> DEFINE s == rlcWriteHighSide(source[e], sdu)
             wr == Append(written[e], sdu)
  <2>1. /\ written' = [written EXCEPT ![e] = wr] /\ source' = [source EXCEPT ![e] = s]
        /\ Len(written[e]) < MaxSdus
    BY <1>2, Zenon DEF RlcWriteHighSide
  <2>2. /\ Len(wr) = Len(written[e]) + 1 /\ Len(written[e]) \in Nat
    BY <1>1, AppendProperties, LenProperties
  <2>3. Len(s.mSduTxQ) <= Len(source[e].mSduTxQ) + 1
    <3> DEFINE q == Append(source[e].mSduTxQ, sdu)
               extra == Len(q) - mConfig.mTransmissionBufferSdus
    <3>1. q \in Seq(Sdu) /\ Len(q) = Len(source[e].mSduTxQ) + 1 /\ Len(q) \in Nat
      BY <1>1, AppendProperties, LenProperties
    <3>2. source[e] \in Source
      BY Zenon DEF Inv, TypeOK
    <3>3. \/ s.mSduTxQ = q
          \/ extra > 0 /\ s.mSduTxQ = SubSeq(q, extra + 1, Len(q))
      BY <3>2 DEF rlcWriteHighSide, Source
    <3>4. mConfig.mTransmissionBufferSdus \in Nat
      BY ConfigAssumption
    <3>5. extra > 0 => Len(SubSeq(q, extra + 1, Len(q))) <= Len(q)
      BY <3>1, <3>4, SMT
    <3>6. CASE s.mSduTxQ = q
      <4> HIDE DEF q, s
      <4> QED BY <3>1, <3>6
    <3>7. CASE extra > 0 /\ s.mSduTxQ = SubSeq(q, extra + 1, Len(q))
      <4>1. Len(s.mSduTxQ) <= Len(q)
        <5> HIDE DEF q, extra, s
        <5> QED BY <3>5, <3>7
      <4> HIDE DEF q, s
      <4> QED BY <3>1, <4>1
    <3> QED BY <3>3, <3>6, <3>7
  <2>4. Len(source[e].mSduTxQ) \in Nat /\ Len(s.mSduTxQ) <= Len(wr) /\ Len(wr) <= MaxSdus
    <3>1. Len(source[e].mSduTxQ) \in Nat /\ Len(source[e].mSduTxQ) <= Len(written[e])
      BY <1>1, LenProperties DEF Queued
    <3>2. MaxSdus \in Nat
      BY LinkAssumption
    <3> HIDE DEF s, wr
    <3> QED BY <2>1, <2>2, <2>3, <3>1, <3>2, SMT
  <2>5. \A x \in Entity : /\ source'[x] = IF x = e THEN s ELSE source[x]
                          /\ written'[x] = IF x = e THEN wr ELSE written[x]
    BY <2>1, Zenon DEF Inv, TypeOK
  <2> HIDE DEF s, wr
  <2> QED BY <2>4, <2>5, Zenon DEF Queued
<1>3. ASSUME written' = written, NEW e \in Entity, NEW s,
             source' = [source EXCEPT ![e] = s],
             Len(s.mSduTxQ) <= Len(source[e].mSduTxQ), Len(s.mSduTxQ) \in Nat
      PROVE  Queued'
  <2>1. \A x \in Entity : source'[x] = IF x = e THEN s ELSE source[x]
    BY <1>3, Zenon DEF Inv, TypeOK
  <2>2. Len(s.mSduTxQ) <= Len(written[e])
    <3>1. /\ Len(source[e].mSduTxQ) \in Nat /\ Len(written[e]) \in Nat
          /\ Len(source[e].mSduTxQ) <= Len(written[e])
      BY <1>1, LenProperties DEF Queued
    <3> QED BY <1>3, <3>1, SMT
  <2> QED BY <1>3, <2>1, <2>2, Zenon DEF Queued
<1>4. ASSUME NEW e \in Entity
      PROVE  LET s == fillPduData(source[e])
             IN  Len(s.mSduTxQ) <= Len(source[e].mSduTxQ) /\ Len(s.mSduTxQ) \in Nat
  <2> DEFINE q == source[e].mSduTxQ
  <2>1. q \in Seq(Sdu) /\ Len(q) \in Nat
    BY <1>1, LenProperties
  <2>2. fillPduData(source[e]).mSduTxQ = q
        \/ (q # <<>> /\ fillPduData(source[e]).mSduTxQ = Tail(q))
    BY Zenon DEF fillPduData
  <2>3. q # <<>> => Len(Tail(q)) <= Len(q) /\ Len(Tail(q)) \in Nat
    BY <2>1, SMT
  <2>4. Len(q) <= Len(q)
    BY <2>1, SMT
  <2> DEFINE r == fillPduData(source[e]).mSduTxQ
  <2>5. Len(r) <= Len(q) /\ Len(r) \in Nat
    <3> HIDE DEF q, r
    <3>1. r = q \/ (q # <<>> /\ r = Tail(q))
      BY <2>2 DEF q, r
    <3> QED BY <2>1, <2>3, <2>4, <3>1, Zenon
  <2> QED BY <2>5
<1>5. ASSUME NEW e \in Entity
      PROVE  LET s == sourceReset(source[e])
             IN  Len(s.mSduTxQ) <= Len(source[e].mSduTxQ) /\ Len(s.mSduTxQ) \in Nat
  <2>1. sourceReset(source[e]).mSduTxQ = source[e].mSduTxQ
    BY DEF sourceReset, sourceInit
  <2>2. Len(source[e].mSduTxQ) \in Nat
    BY <1>1, LenProperties
  <2> QED BY <2>1, <2>2, SMT
<1>6. ASSUME written' = written, source' = source PROVE Queued'
  BY <1>6, Zenon DEF Queued
<1> QED BY <1>2, <1>3, <1>4, <1>5, <1>6, SourceSteps

\* A buffer for more SDUs than are written drops none.
LEMMA SpecRoomLeft ==
  ASSUME MaxSdus < mConfig.mTransmissionBufferSdus PROVE Spec => []RoomLeft
<1>1. Init => Queued
  <2> SUFFICES ASSUME Init, NEW e \in Entity
               PROVE  Len(source[e].mSduTxQ) <= Len(written[e]) /\ Len(written[e]) <= MaxSdus
    BY DEF Queued
  <2>1. source[e].mSduTxQ = <<>> /\ written[e] = <<>>
    BY Zenon DEF Init, sourceInit
  <2>2. Len(<<>>) = 0 /\ MaxSdus \in Nat
    BY EmptySeq, LinkAssumption
  <2> QED BY <2>1, <2>2, SMT
<1>2. Inv /\ Queued /\ [Next]_vars => Queued'
  BY QueuedNext
<1>3. Inv /\ Queued => RoomLeft
  <2> SUFFICES ASSUME Inv, Queued, NEW e \in Entity
               PROVE  Len(source[e].mSduTxQ) < mConfig.mTransmissionBufferSdus
    BY DEF RoomLeft
  <2>1. source[e].mSduTxQ \in Seq(Sdu) /\ written[e] \in Seq(Sdu)
    BY Zenon DEF Inv, TypeOK, Source
  <2>2. /\ Len(source[e].mSduTxQ) \in Nat /\ Len(written[e]) \in Nat
        /\ Len(source[e].mSduTxQ) <= Len(written[e]) /\ Len(written[e]) <= MaxSdus
    BY <2>1, LenProperties DEF Queued
  <2>3. MaxSdus \in Nat /\ mConfig.mTransmissionBufferSdus \in Nat
    BY LinkAssumption, ConfigAssumption
  <2> QED BY <2>2, <2>3, SMT
<1> QED BY <1>1, <1>2, <1>3, SpecInv, PTL DEF Spec

-----------------------------------------------------------------------------
\* As long as no RESET is sent and rlcWriteHighSide (URlcTransAmUm.cpp:20) finds
\* room in the buffer, whatever is lost or repeated: what each end has been handed
\* is the first SDUs its peer wrote, none missing among them, and each step hands
\* up the next ones or none (advanceVR, URlcRecvAm.cpp:297).
THEOREM SpecImplementsService ==
  Spec /\ [](NeverReset /\ RoomLeft) => ImplementsService
<1>1. Init => CalmInv /\ CalmFlow /\ \A a \in Entity : CompleteTo(a)
  BY CalmInit, InitUppers, InitFlow, CompleteInit DEF CalmFlow
<1>2. Inv /\ CalmInv /\ [Next]_vars => CalmInv'
  BY CalmNext
<1>3. Inv /\ Inv' /\ CalmInv /\ CalmInv' /\ CalmFlow /\ [Next]_vars => CalmFlow'
  BY CalmFlowNext
<1>4. /\ Inv /\ Inv' /\ CalmInv /\ CalmInv' /\ CalmFlow /\ CalmFlow'
      /\ (NeverReset /\ RoomLeft) /\ (NeverReset /\ RoomLeft)'
      /\ (\A a \in Entity : CompleteTo(a)) /\ [Next]_vars
      => (\A a \in Entity : CompleteTo(a))' /\ [Service!Next]_<<written, DeliveredSdus>>
  BY ServiceStep
<1>5. Init => Service!Init
  BY ServiceInit
<1> QED BY <1>1, <1>2, <1>3, <1>4, <1>5, SpecInv, PTL DEF Spec, ImplementsService, Service!Spec

\* The same without the hypothesis on the buffer, for as many SDUs as it holds:
\* what the runs check.
THEOREM SpecImplementsServiceInRoom ==
  ASSUME MaxSdus < mConfig.mTransmissionBufferSdus
  PROVE  Spec /\ []NeverReset => ImplementsService
BY SpecRoomLeft, SpecImplementsService, PTL
=============================================================================
