----------------------------- MODULE DcchThreadsAm -----------------------------
(* The threads of DcchThreads around an acknowledged-mode bearer.  A PDU that   *)
(* is sent stays in mPduTxQ until it is acknowledged, and macTX gets a          *)
(* duplicate, so that the two share memory.  readLowSidePdu and rlcWriteLowSide *)
(* hold mAmLock; what macTX does with its duplicate after that holds no lock    *)
(* macDCCHRX would wait for.                                                    *)
EXTENDS DcchThreads

VARIABLES mPduTxQ,   \* the PDUs sent and not acknowledged, by the SDU they carry
          copying,   \* the one readLowSidePdu is about to duplicate, or NULL
          mAmLock    \* the thread that holds the lock, or NULL

amVars == <<mPduTxQ, copying, mAmLock>>

InitAm == Init /\ mPduTxQ = {} /\ copying = NULL /\ mAmLock = NULL

Locks(t) == mAmLock = NULL /\ mAmLock' = t

(* getDataPdu makes a PDU and stores it in mPduTxQ ...                          *)
ReadAm ==
  /\ mRlcMode = "AM" /\ At(MacTx, "loop") /\ mSduTxQ # << >>
  /\ Locks(MacTx)
  /\ init(Kept(Head(mSduTxQ)))
  /\ copying' = Head(mSduTxQ)
  /\ mPduTxQ' = mPduTxQ \cup {Head(mSduTxQ)}
  /\ Goes(MacTx, "fill")
  /\ UNCHANGED <<queues, mRlcMode, downlink, uplink>>

FillAm == mRlcMode = "AM" /\ fillPduData("copy") /\ UNCHANGED amVars

(* ... or one that is there is sent again.                                     *)
ReadAmAgain ==
  /\ At(MacTx, "loop")
  /\ Locks(MacTx)
  /\ \E i \in mPduTxQ : copying' = i
  /\ Goes(MacTx, "copy")
  /\ UNCHANGED <<memory, queues, mRlcMode, downlink, uplink, mPduTxQ>>

(* pdu = new URlcPdu(pdu)                                                       *)
CopyPdu ==
  /\ At(MacTx, "copy")
  /\ dup(MacTx, Pdu, Kept(copying))
  /\ pdu' = Pdu /\ copying' = NULL
  /\ Goes(MacTx, "unlock")
  /\ UNCHANGED <<queues, mRlcMode, written, mSduTxQ, uplink, mPduTxQ, mAmLock>>

UnlockTx ==
  /\ At(MacTx, "unlock")
  /\ mAmLock' = NULL
  /\ Goes(MacTx, "log")
  /\ UNCHANGED <<memory, queues, mRlcMode, downlink, uplink, mPduTxQ, copying>>

(* rlcReadLowSide prints the header of the PDU from a segment of it.           *)
LogPdu ==
  /\ At(MacTx, "log")
  /\ dup(MacTx, LogSegment, pdu)
  /\ Goes(MacTx, "logged")
  /\ UNCHANGED <<queues, mRlcMode, downlink, uplink, amVars>>

LogEnds ==
  /\ At(MacTx, "logged")
  /\ clear(MacTx, LogSegment)
  /\ Goes(MacTx, "send")
  /\ UNCHANGED <<queues, mRlcMode, downlink, uplink, amVars>>

(* advanceVTA or transAmReset deletes a PDU.                                   *)
DeletePdu ==
  /\ At(MacRx, "loop")
  /\ Locks(MacRx)
  /\ \E i \in mPduTxQ : clear(MacRx, Kept(i)) /\ mPduTxQ' = mPduTxQ \ {i}
  /\ Goes(MacRx, "unlock")
  /\ UNCHANGED <<queues, mRlcMode, downlink, uplink, copying>>

UnlockRx ==
  /\ At(MacRx, "unlock")
  /\ mAmLock' = NULL
  /\ Goes(MacRx, "loop")
  /\ UNCHANGED <<memory, queues, mRlcMode, downlink, uplink, mPduTxQ, copying>>

NextAm ==
  \/ Next /\ UNCHANGED amVars
  \/ ReadAm \/ FillAm \/ ReadAmAgain \/ CopyPdu \/ UnlockTx \/ LogPdu \/ LogEnds
  \/ DeletePdu \/ UnlockRx

SpecAm == InitAm /\ [][NextAm]_<<vars, amVars>>
=============================================================================
