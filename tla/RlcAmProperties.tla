--------------------------- MODULE RlcAmProperties ---------------------------
(***************************************************************************)
(* What must be true of two acknowledged-mode entities, whatever is lost   *)
(* and however their threads interleave.                                   *)
(***************************************************************************)
EXTENDS RlcAm

\* The PDU that readLowSidePdu2 takes at mVSNack and dereferences without a
\* test (URlcTransAm.cpp:441) is there, and is one still to be repeated.
NackPointerValid ==
  \A e \in Entity :
    win[e].mNackedBlocksWaiting => IsNacked(win[e], win[e].mVSNack)

\* mPduTxQ holds exactly the PDUs from mVTA to mVTS, never more of them than
\* the window allows: getDataPdu (URlcTransAm.cpp:34) never finds its place
\* taken by a PDU still unacknowledged, and no status moves mVTA past mVTS.
TransmitWindow ==
  \A e \in Entity :
    LET w == win[e]
    IN  /\ deltaSN(w.mVTS, w.mVTA) \in 0 .. mConfig.mConfigured_Tx_Window_Size
        /\ {sn \in SN : w.mPduTxQ[sn] # NoPdu} = Span(w.mVTA, w.mVTS)

\* The PDU at mVRR is missing (assertions at URlcRecvAm.cpp:34 and 304).
NextPduMissing == \A e \in Entity : recv[e].mPduRxQ[recv[e].mVRR] = NoPdu

\* mVRR never overtakes mVRH (assertion at URlcRecvAm.cpp:33 and the
\* "something horrible" of isReceiverOk), an up-to-date receiver is at the
\* start of a report (assertion at 115), and the scan of a status report
\* meets mVRH without running through the whole number space.
ReceiverConsistent ==
  \A e \in Entity :
    LET r == recv[e]
    IN  /\ isReceiverOk(r)
        /\ r.mVRR = r.mVRH => firstStatusReport(r)
        /\ deltaSN(r.mVRH, StatusStart(r)) >= 0

\* No reset is under way between the two ends, and neither has given up.
ResetPending(e) ==
  \/ resetInProgress(ctl[e]) \/ ctl[e].mSendResetAck \/ ctl[e].state = "STOP"
  \/ \E i \in DOMAIN link[e] : link[e][i].type \in {"RESET", "RESET_ACK"}

Synchronised == \A e \in Entity : ~ResetPending(e)

\* The sender's window encloses the receiver's, mVTA <= mVRR <= mVRH <= mVTS,
\* and whatever the receiver still misses the sender still holds: a status
\* report never makes advanceVTA free a PDU that did not get through.  It is
\* what both reset procedures must bring the two ends back to.
WindowsNested ==
  Synchronised =>
    \A e \in Entity :
      LET w == win[e]
          r == recv[Peer(e)]
      IN  /\ deltaSN(r.mVRR, w.mVTA) >= 0
          /\ deltaSN(r.mVRH, r.mVRR) >= 0
          /\ deltaSN(w.mVTS, r.mVRH) >= 0
          /\ \A sn \in Span(r.mVRR, w.mVTS) :
               r.mPduRxQ[sn] = NoPdu => w.mPduTxQ[sn] # NoPdu

-----------------------------------------------------------------------------
(* Delivery.                                                               *)

WholeSdu(sdu) == [n \in 1 .. sdu.pdus |-> [sdu |-> sdu, part |-> n]]

\* Each SDU handed up is one the peer wrote, whole, and they come in the
\* order they were written, none twice: a reset loses SDUs and does nothing
\* worse (inSequenceDelivery, RBInfo.cpp:56).
DeliveredInOrder ==
  \A e \in Entity :
    LET up == upper[e].delivered
    IN  \E place \in [DOMAIN up -> DOMAIN written[Peer(e)]] :
          /\ \A i \in DOMAIN up : up[i] = WholeSdu(written[Peer(e)][place[i]])
          /\ \A i, j \in DOMAIN up : i < j => place[i] < place[j]

\* The SDUs handed up, NoSdu standing for octets that are no whole SDU.
DeliveredSdus ==
  [e \in Entity |->
     [i \in DOMAIN upper[e].delivered |->
        LET segs == upper[e].delivered[i]
        IN  IF segs # <<>> /\ segs = WholeSdu(segs[1].sdu)
            THEN segs[1].sdu ELSE NoSdu]]

Service == INSTANCE SduService WITH delivered <- DeliveredSdus

\* Without resets the two entities implement the service of SduService.
ImplementsService == Service!Spec

\* Every SDU written reaches the peer's upper layer, although PDUs, polls
\* and status reports are lost: Timer_Poll repeats what nobody answers.  It is
\* true of SDUs that fit into the window; the run am_poll_window refutes it
\* for longer ones, which fill the window before any poll ("it forces each
\* SDU completely through using a poll before proceeding", RBInfo.cpp:35):
\* the report that URlcRecvAm.cpp:283 triggers for PDUs in sequence is all
\* that opens the window, and it may be lost.
EverythingDelivered == Service!Live

\* What is sent is acknowledged in the end, so a window cannot stay stalled.
EverythingAcknowledged ==
  \A e \in Entity : (win[e].mVTS # win[e].mVTA) ~> (win[e].mVTS = win[e].mVTA)

\* A reset procedure ends, by an acknowledgement or after mMaxRST RESETs:
\* the entity does not stay silent for ever, waiting for an answer that is
\* lost or does not match (11.4.2 and 11.4.4, URlcTransAm.cpp:366-408).
ResetEnds ==
  \A e \in Entity : resetInProgress(ctl[e]) ~> ~resetInProgress(ctl[e])

-----------------------------------------------------------------------------
Received(e, type) == Arrived(e, type) /\ Take(e) /\ losses' = losses

\* The acknowledgement of the last RESET sent ends the reset procedure:
\* mResetTransRSN is the "RSN value we sent in our last reset pdu"
\* (URlcTransAm.h:69), of which one bit goes out and comes back.  The run
\* am_rsn refutes it.
AckedResetEnds ==
  [][\A e \in Entity :
       /\ Received(e, "RESET_ACK")
       /\ resetInProgress(ctl[e])
       /\ Head(link[e]) = ResetMsg("RESET_ACK", ctl[e].mResetTransRSN)
       => ~resetInProgress(ctl'[e])]_vars
=============================================================================
