---------------------------- MODULE AmTransmitter ----------------------------
(***************************************************************************)
(* The sending half of an acknowledged-mode entity: URlcTransAm with the   *)
(* parts of URlcTransAmUm and URlcTrans it inherits.  Its state is four    *)
(* records: the SDUs still to be sent (Source), the transmission window    *)
(* (Window), the polling function (Polling) and the control flags with the *)
(* reset procedure (Control).  An operator named after a C++ member        *)
(* function maps the records it touches to what they are when it returns.  *)
(*                                                                         *)
(* Data are abstracted to what the protocol tells apart.  An SDU is known  *)
(* by an identity, the number of PDUs its octets need, and whether it      *)
(* fills its last PDU exactly ("exact"), in which case its end is marked   *)
(* by a length indicator at the start of the next PDU (mLILeftOver).  A    *)
(* PDU carries octets of one SDU.  Module RlcAm has the environment.       *)
(***************************************************************************)
EXTENDS SeqNum, Sequences

CONSTANTS
  mConfig,  \* URlcConfigAm: the options this code reads
  Sdu,      \* the SDUs the upper layer may write
  NoPdu,    \* a NULL entry of mPduTxQ or mPduRxQ
  NoSdu     \* a NULL URlcDownSdu pointer

ASSUME ConfigAssumption ==
  /\ mConfig \in
      [ mConfigured_Tx_Window_Size : Nat, mMaxDAT : Nat, mMaxRST : Nat,
        mPollPdu : Nat, mPollSdu : Nat,           \* 0: not configured
        mTimerPoll : BOOLEAN, mTimerPollProhibit : BOOLEAN,
        mTimerPollPeriodic : BOOLEAN,
        mLastTransmissionPduPoll : BOOLEAN,
        mLastRetransmissionPduPoll : BOOLEAN,
        mStatusDetectionOfMissingPDU : BOOLEAN,
        mTransmissionBufferSdus : Nat,            \* in SDUs, not octets
        mStatusRanges : Nat ]                     \* missing ranges per status
  /\ mConfig.mConfigured_Tx_Window_Size < mSNS \div 2   \* stalled()'s proviso
  /\ mConfig.mStatusRanges >= 1

ASSUME SduAssumption ==
  /\ Sdu \subseteq [id : Nat, pdus : Nat \ {0}, exact : BOOLEAN]
  /\ NoSdu \notin Sdu

Segment == [sdu : Sdu, part : Nat]   \* the part-th PDU's worth of an SDU

\* What fillPduData puts after the PDU header.  start: a leading length
\* indicator says the previous PDU ended an SDU.  end: a length indicator
\* says the octets carried here end their SDU.
Payload == [start : BOOLEAN, data : Segment \cup {NoSdu}, end : BOOLEAN]

TxPdu == [payload : Payload, mNacked : BOOLEAN, mVTDAT : Nat]

ASSUME NullAssumption ==
  /\ NoPdu \notin TxPdu /\ NoPdu \notin Payload
  /\ NoSdu \notin Segment

\* Z100Timer: inactive, counting, or active with its end time passed.
Timer == {"off", "running", "expired"}

Source ==
  [ mSduTxQ : Seq(Sdu), mSplitSdu : Segment \cup {NoSdu},
    mLILeftOver : BOOLEAN, mVTPDU : Nat, mVTSDU : Nat ]

Window ==
  [ mVTS : SN, mVTA : SN, mPduTxQ : [SN -> TxPdu \cup {NoPdu}],
    mNackedBlocksWaiting : BOOLEAN, mVSNack : SN ]

Polling ==
  [ mPollTriggered : BOOLEAN, mVTPDUPollTrigger : Nat, mVTSDUPollTrigger : Nat,
    mTimer_Poll : Timer, mTimer_Poll_VTS : SN,
    mTimer_Poll_Prohibit : Timer, mTimer_Poll_Periodic : Timer ]

Control ==
  [ state : {"RUN", "STOP"},                      \* mRlcState
    mStatusTriggered : BOOLEAN, mResetTriggered : BOOLEAN,
    mSendResetAck : BOOLEAN, mVTRST : Nat, mResetTransRSN : Nat,
    mResetAckRSN : {0, 1}, mResetReceived : BOOLEAN,  \* mResetRecvCount # 0
    mTimer_RST : Timer ]

-----------------------------------------------------------------------------
(* The constructor followed by transAmInit and its call of transAmReset.   *)

sourceInit == [ mSduTxQ |-> <<>>, mSplitSdu |-> NoSdu,
                mLILeftOver |-> FALSE, mVTPDU |-> 0, mVTSDU |-> 0 ]

windowInit == [ mVTS |-> 0, mVTA |-> 0, mPduTxQ |-> [sn \in SN |-> NoPdu],
                mNackedBlocksWaiting |-> FALSE, mVSNack |-> 0 ]

pollingInit ==
  [ mPollTriggered |-> FALSE, mVTPDUPollTrigger |-> mConfig.mPollPdu,
    mVTSDUPollTrigger |-> mConfig.mPollSdu,
    mTimer_Poll |-> "off", mTimer_Poll_VTS |-> 0,
    mTimer_Poll_Prohibit |-> "off", mTimer_Poll_Periodic |-> "off" ]

controlInit ==
  [ state |-> "RUN", mStatusTriggered |-> FALSE, mResetTriggered |-> FALSE,
    mSendResetAck |-> FALSE, mVTRST |-> 0, mResetTransRSN |-> 0,
    mResetAckRSN |-> 0, mResetReceived |-> FALSE, mTimer_RST |-> "off" ]

resetInProgress(c) == c.mTimer_RST # "off"

(* transAmReset: the window goes back to windowInit, a partly sent SDU is  *)
(* thrown away, and of the rest it keeps the SDU queue, the reset counters *)
(* and the RST and periodic timers.                                        *)

\* badSourceReset: the rest of the SDU being sent survives the reset.
badSourceReset(s) == [s EXCEPT !.mLILeftOver = FALSE, !.mVTPDU = 0, !.mVTSDU = 0]

sourceReset(s) == [sourceInit EXCEPT !.mSduTxQ = s.mSduTxQ]

pollingReset(p) ==
  [p EXCEPT !.mPollTriggered = FALSE,
            !.mVTPDUPollTrigger = mConfig.mPollPdu,
            !.mVTSDUPollTrigger = mConfig.mPollSdu,
            !.mTimer_Poll = IF mConfig.mTimerPoll THEN "off" ELSE @,
            !.mTimer_Poll_Prohibit =
                IF mConfig.mTimerPollProhibit THEN "off" ELSE @]

controlReset(c) ==
  [c EXCEPT !.mStatusTriggered = FALSE, !.mResetTriggered = FALSE,
            !.mSendResetAck = FALSE]

-----------------------------------------------------------------------------
(* The high side.                                                          *)

\* An overflow drops SDUs from the front until the rest fits.  The last one
\* dropped is not counted in mVTSDU, and no place-holder is left.
rlcWriteHighSide(s, sdu) ==
  LET q     == Append(s.mSduTxQ, sdu)
      extra == Len(q) - mConfig.mTransmissionBufferSdus
  IN  IF s.mSplitSdu = NoSdu /\ extra > 0
      THEN [s EXCEPT !.mSduTxQ = SubSeq(q, extra + 1, Len(q)),
                     !.mVTSDU = @ + extra - 1]
      ELSE [s EXCEPT !.mSduTxQ = q]

pdusFinished(s) ==
  s.mSduTxQ = <<>> /\ s.mSplitSdu = NoSdu /\ ~s.mLILeftOver

\* The segment the next PDU carries, NoSdu for a PDU with an LI field only.
NextSegment(s) ==
  IF s.mSplitSdu # NoSdu
  THEN [s.mSplitSdu EXCEPT !.part = @ + 1]
  ELSE IF s.mSduTxQ # <<>> THEN [sdu |-> Head(s.mSduTxQ), part |-> 1] ELSE NoSdu

\* badEndsSdu: an SDU of several PDUs loses its last octets.
badEndsSdu(seg) == seg # NoSdu /\ seg.part + 1 >= seg.sdu.pdus

EndsSdu(seg) == seg # NoSdu /\ seg.part >= seg.sdu.pdus

FilledPayload(s) ==
  LET seg == NextSegment(s)
  IN  [ start |-> s.mLILeftOver, data |-> seg,
        end   |-> EndsSdu(seg) /\ ~seg.sdu.exact ]

fillPduData(s) ==
  LET seg  == NextSegment(s)
      ends == EndsSdu(seg)
  IN  [ mSduTxQ   |-> IF s.mSplitSdu = NoSdu /\ s.mSduTxQ # <<>>
                      THEN Tail(s.mSduTxQ) ELSE s.mSduTxQ,
        mSplitSdu |-> IF ends THEN NoSdu ELSE seg,
        mLILeftOver |-> ends /\ seg.sdu.exact,
        mVTPDU |-> s.mVTPDU + 1,
        mVTSDU |-> IF ends THEN s.mVTSDU + 1 ELSE s.mVTSDU ]

\* A new data PDU is kept at mPduTxQ[mVTS] for retransmission.
getDataPdu(w, payload) ==
  [w EXCEPT !.mPduTxQ[w.mVTS] = [ payload |-> payload,
                                  mNacked |-> FALSE, mVTDAT |-> 0 ],
            !.mVTS = incSN(@)]

\* badStalled: one PDU more than the window.
badStalled(w) == deltaSN(w.mVTS, w.mVTA) > mConfig.mConfigured_Tx_Window_Size

stalled(w) == deltaSN(w.mVTS, w.mVTA) >= mConfig.mConfigured_Tx_Window_Size

-----------------------------------------------------------------------------
(* Acknowledgements.                                                       *)

\* A status PDU: the missing PDUs its LIST SUFIs name, the first of them,
\* and the LSN of the ACK SUFI that ends it.
Status == [type : {"STATUS"}, nacks : SUBSET SN, first : SN, lsn : SN]

IsNacked(w, sn) == w.mPduTxQ[sn] # NoPdu /\ w.mPduTxQ[sn].mNacked

\* setNAck for every number in nacks; a number with no PDU is ignored.
setNAck(w, nacks) ==
  LET hit == {sn \in nacks : w.mPduTxQ[sn] # NoPdu}
  IN  [w EXCEPT
        !.mPduTxQ = [sn \in SN |-> IF sn \in hit
                                  THEN [@[sn] EXCEPT !.mNacked = TRUE]
                                  ELSE @[sn]],
        !.mNackedBlocksWaiting = @ \/ hit # {}]

advanceVTA(w, newvta) ==
  IF deltaSN(w.mVTA, newvta) < 0
  THEN [w EXCEPT
          !.mVTA = newvta,
          !.mPduTxQ = [sn \in SN |-> IF sn \in Span(w.mVTA, newvta)
                                    THEN NoPdu ELSE @[sn]]]
  ELSE w

\* advanceVS: the first nacked PDU from number `from` on, if any.
advanceVS(w, from) ==
  LET nacked == {sn \in Span(from, w.mVTS) : IsNacked(w, sn)}
  IN  IF nacked # {}
      THEN [w EXCEPT !.mVSNack = Nearest(from, nacked)]
      ELSE [w EXCEPT !.mVSNack = IF Span(from, w.mVTS) = {} THEN from ELSE w.mVTS,
                     !.mNackedBlocksWaiting = FALSE]

\* The LIST SUFIs, then the ACK SUFI.  newva starts at mVTA.
processSUFIs2(w, status) ==
  LET newva == minSN(w.mVTA, status.first)
      valid == status.nacks # {}
      bound == IF ~valid \/ deltaSN(status.lsn, newva) <= 0
               THEN status.lsn ELSE newva
      acked == advanceVTA(setNAck(w, status.nacks), bound)
  IN  IF acked.mNackedBlocksWaiting THEN advanceVS(acked, acked.mVTA) ELSE acked

\* The rest of processSUFIs, given the window processSUFIs2 leaves.
PollAnswered(p, w) ==
  IF /\ mConfig.mTimerPoll
     /\ p.mTimer_Poll # "off"
     /\ \/ deltaSN(w.mVTA, p.mTimer_Poll_VTS) >= 0
        \/ IsNacked(w, p.mTimer_Poll_VTS)
  THEN [p EXCEPT !.mTimer_Poll = "off"]
  ELSE p

-----------------------------------------------------------------------------
(* Polling.  The code compares the PDU and SDU counters with deltaSN; they *)
(* are never mSNS/2 apart, so that is the comparison of numbers used here. *)

PollPduDue(p, s) == /\ mConfig.mPollPdu # 0
                    /\ s.mVTPDU >= p.mVTPDUPollTrigger

PollSduDue(p, s) ==
  /\ mConfig.mPollSdu # 0
  /\ \/ s.mVTSDU > p.mVTSDUPollTrigger
     \/ s.mVTSDU = p.mVTSDUPollTrigger /\ ~s.mLILeftOver

PeriodicDue(p) == mConfig.mTimerPollPeriodic /\ p.mTimer_Poll_Periodic = "expired"

TimerPollDue(p) == mConfig.mTimerPoll /\ p.mTimer_Poll = "expired"

\* IsPollTriggered with its side effects: the triggers are looked at, and
\* moved on, only when no poll is pending yet.
IsPollTriggered(p, s) ==
  IF p.mPollTriggered
  THEN p
  ELSE [p EXCEPT
         !.mPollTriggered = \/ PollPduDue(p, s) \/ PollSduDue(p, s)
                            \/ PeriodicDue(p)   \/ TimerPollDue(p),
         !.mVTPDUPollTrigger =
             IF PollPduDue(p, s) THEN s.mVTPDU + mConfig.mPollPdu ELSE @,
         !.mVTSDUPollTrigger =
             IF PollSduDue(p, s) THEN s.mVTSDU + mConfig.mPollSdu ELSE @,
         !.mTimer_Poll_Periodic = IF PeriodicDue(p) THEN "running" ELSE @]

\* Timer_Poll_Prohibit, once configured, holds a poll back unless it has
\* expired; an inactive timer has not.
PollProhibited(p) ==
  mConfig.mTimerPollProhibit /\ p.mTimer_Poll_Prohibit # "expired"

\* badPollSent: Timer_Poll is not started.
badPollSent(p, vts) ==
  [p EXCEPT !.mPollTriggered = FALSE,
            !.mTimer_Poll_VTS = IF mConfig.mTimerPoll THEN vts ELSE @]

PollSent(p, vts) ==
  [p EXCEPT
     !.mPollTriggered = FALSE,
     !.mTimer_Poll_Prohibit = IF mConfig.mTimerPollProhibit THEN "running" ELSE @,
     !.mTimer_Poll = IF mConfig.mTimerPoll THEN "running" ELSE @,
     !.mTimer_Poll_VTS = IF mConfig.mTimerPoll THEN vts ELSE @]

PollAskedIf(p, asked) == [p EXCEPT !.mPollTriggered = @ \/ asked]

-----------------------------------------------------------------------------
(* What readLowSidePdu2 does to the window and the control flags.          *)

\* badRetransmitted: mVSNack stays where it is.
badRetransmitted(w) == [w EXCEPT !.mPduTxQ[w.mVSNack].mNacked = FALSE]

\* 11.3.2: the nacked PDU at mVSNack goes out again.  mPduTxQ[mVSNack] is
\* dereferenced; mVSNack then moves to the next nacked PDU.
Retransmitted(w) ==
  LET cleared == [w EXCEPT !.mPduTxQ[w.mVSNack].mNacked = FALSE]
  IN  advanceVS(cleared, incSN(w.mVSNack))

CountTransmission(w, sn) == [w EXCEPT !.mPduTxQ[sn].mVTDAT = @ + 1]

\* One more RESET, or none and the entity stops for good.
ResetStarted(c) ==
  LET n == c.mVTRST + 1
  IN  IF n > mConfig.mMaxRST
      THEN [c EXCEPT !.mResetTriggered = FALSE, !.mVTRST = n,
                     !.mTimer_RST = "off", !.state = "STOP"]
      ELSE [c EXCEPT !.mResetTriggered = FALSE, !.mVTRST = n,
                     !.mTimer_RST = "running"]
=============================================================================
