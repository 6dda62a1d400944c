----------------------------- MODULE AmReceiver -----------------------------
(***************************************************************************)
(* The receiving half of an acknowledged-mode entity: URlcRecvAm with what *)
(* it inherits from URlcRecvAmUm.  The state is two records, the reception *)
(* window (Rx) and the SDUs made from it (Upper), and the operators map    *)
(* them, like those of AmTransmitter.                                      *)
(***************************************************************************)
EXTENDS AmTransmitter, FiniteSets

Rx == [ mVRR : SN, mVRH : SN, mStatusSN : SN,
        mPduRxQ : [SN -> Payload \cup {NoPdu}] ]

\* mUpSdu is the SDU under reassembly, the segments appended so far (<<>> is
\* the NULL pointer).  delivered holds what rlcSendHighSide was given.
Upper == [ mUpSdu : Seq(Segment), delivered : Seq(Seq(Segment)) ]

recvAmInit ==
  [ mVRR |-> 0, mVRH |-> 0, mStatusSN |-> 0, mPduRxQ |-> [sn \in SN |-> NoPdu] ]

upperInit == [ mUpSdu |-> <<>>, delivered |-> <<>> ]

\* recvAmReset makes the window recvAmInit and throws the partial SDU away.
discardPartialSdu(u) == [u EXCEPT !.mUpSdu = <<>>]

isReceiverOk(r) == deltaSN(r.mVRH, r.mVRR) >= 0

-----------------------------------------------------------------------------
(* Data PDUs.                                                              *)

sendSdu(u) == [u EXCEPT !.delivered = Append(@, u.mUpSdu), !.mUpSdu = <<>>]

addUpSdu(u, seg) == [u EXCEPT !.mUpSdu = Append(@, seg)]

\* The first length indicator may end the SDU in progress; the octets are
\* appended; a length indicator of their own ends their SDU.
parsePduData(u, payload) ==
  LET started == IF payload.start /\ u.mUpSdu # <<>> THEN sendSdu(u) ELSE u
      added   == IF payload.data = NoSdu THEN started
                 ELSE addUpSdu(started, payload.data)
  IN  IF payload.end THEN sendSdu(added) ELSE added

\* How many consecutive PDUs are stored from mVRR on.
InSequence(r) ==
  LET run == {n \in 0 .. mSNS : \A i \in 0 .. (n - 1) :
                                   r.mPduRxQ[addSN(r.mVRR, i)] # NoPdu}
  IN  CHOOSE n \in run : \A m \in run : m <= n

\* badAdvanceVRR: only the first PDU of the run is taken off the queue.
badAdvanceVRR(r) == [r EXCEPT !.mVRR = incSN(@), !.mPduRxQ[r.mVRR] = NoPdu]

\* The loop that ends rlcWriteLowSide frees those PDUs and parses each.
advanceVRR(r) ==
  LET n == InSequence(r)
  IN  [ r EXCEPT
          !.mVRR = addSN(@, n),
          !.mPduRxQ = [sn \in SN |-> IF Offset(r.mVRR, sn) < n THEN NoPdu ELSE @[sn]] ]

ParsedInSequence(r, u) ==
  LET parsed[n \in 0 .. mSNS] ==
        IF n = 0 THEN u
        ELSE parsePduData(parsed[n - 1], r.mPduRxQ[addSN(r.mVRR, n - 1)])
  IN  parsed[InSequence(r)]

\* A poll marks where the status report it asks for is to start.
PollSeen(r, p) == IF p THEN [r EXCEPT !.mStatusSN = r.mVRR] ELSE r

\* Already delivered, or already stored: dropped, but answered by a status.
Unwanted(r, sn) == deltaSN(sn, r.mVRR) < 0 \/ r.mPduRxQ[sn] # NoPdu

RaisesVRH(r, sn) == deltaSN(sn, r.mVRH) >= 0

\* The missing-PDU test of rlcWriteLowSide, as the code writes it.
MissingPduDetected(r, sn) ==
  /\ RaisesVRH(r, sn)
  /\ mConfig.mStatusDetectionOfMissingPDU
  /\ sn # addSN(r.mVRH, 1)

\* badStored: mVRH is the highest number received, not the one after it.
badStored(r, sn, payload) ==
  [r EXCEPT !.mPduRxQ[sn] = payload, !.mVRH = IF RaisesVRH(r, sn) THEN sn ELSE @]

Stored(r, sn, payload) ==
  [r EXCEPT !.mPduRxQ[sn] = payload,
            !.mVRH = IF RaisesVRH(r, sn) THEN incSN(sn) ELSE @]

\* What becomes of the window, and of the SDUs, once a wanted PDU is stored.
Accepted(r, sn) == IF sn = r.mVRR THEN advanceVRR(r) ELSE r
Delivered(r, u, sn) == IF sn = r.mVRR THEN ParsedInSequence(r, u) ELSE u

-----------------------------------------------------------------------------
(* Status reports: addAckNack.                                             *)

firstStatusReport(r) == deltaSN(r.mVRR, r.mStatusSN) >= 0

StatusStart(r) == IF firstStatusReport(r) THEN r.mVRR ELSE r.mStatusSN

\* The PDUs below mVRH that a report starting at `from` finds missing, and
\* the first of each range of them.
Missing(r, from) == {sn \in Span(from, r.mVRH) : r.mPduRxQ[sn] = NoPdu}

RangeStarts(r, from) ==
  {sn \in Missing(r, from) : sn = from \/ addSN(sn, -1) \notin Missing(r, from)}

\* A status PDU has room for mStatusRanges ranges: the PDUs stored beyond the
\* last range that fits.  Empty when all of them fit with room to spare.
BeyondRoom(r, from) ==
  {sn \in Span(from, r.mVRH) :
     /\ r.mPduRxQ[sn] # NoPdu
     /\ Cardinality({s \in RangeStarts(r, from) :
                       Offset(from, s) < Offset(from, sn)}) >= mConfig.mStatusRanges}

\* Where the scan of the report stops: right after the last range listed, even
\* when nothing else is missing, or at mVRH.
StatusEnd(r) ==
  LET beyond == BeyondRoom(r, StatusStart(r))
  IN  IF beyond = {} THEN r.mVRH ELSE Nearest(StatusStart(r), beyond)

lastStatusReport(r) == StatusEnd(r) = r.mVRH

\* badAckLsn: the last of several reports acknowledges up to mVRH, although an
\* earlier one named PDUs that are missing.
badAckLsn(r) == IF lastStatusReport(r) THEN r.mVRH ELSE r.mVRR

\* A report in several parts acknowledges nothing beyond mVRR.
AckLsn(r) ==
  IF firstStatusReport(r) /\ lastStatusReport(r) THEN r.mVRH ELSE r.mVRR

\* The status PDU.
addAckNack(r) ==
  LET from  == StatusStart(r)
      nacks == Missing(r, from) \ Span(StatusEnd(r), r.mVRH)
  IN  [ type |-> "STATUS", nacks |-> nacks,
        first |-> IF nacks = {} THEN 0 ELSE Nearest(from, nacks),
        lsn |-> AckLsn(r) ]

\* The receiver after it is made: the next report goes on from mStatusSN.
StatusReported(r) == [r EXCEPT !.mStatusSN = StatusEnd(r)]
=============================================================================
