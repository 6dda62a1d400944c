-------------------------------- MODULE RlcAm --------------------------------
(***************************************************************************)
(* Two acknowledged-mode entities (URlcAm) joined by a lossy link.         *)
(*                                                                         *)
(* An entity is driven by three kinds of thread: upper layers write SDUs   *)
(* (rlcWriteHighSide), the MAC transmit thread asks for one PDU at a time  *)
(* (rlcReadLowSide) and the MAC receive thread hands PDUs in               *)
(* (rlcWriteLowSide).  The last two run under mAmLock and the first, like  *)
(* fillPduData, under mQLock, so each call is one step.  The radio link    *)
(* keeps order and may lose any PDU; its content is a bounded sequence.    *)
(*                                                                         *)
(* In the product one end is this code in the node B and the other is the  *)
(* RLC of a handset; both ends run this code here.  mPduOutQ stays empty:  *)
(* nothing calls uePullLowSide, the one way to fill it.                    *)
(***************************************************************************)
EXTENDS AmReceiver

CONSTANTS
  Entity,        \* the two ends
  Writer,        \* the ends whose upper layer writes SDUs
  Tester,        \* the ends on which triggerReset is called
  MaxSdus,       \* bound: SDUs written per end
  MaxInFlight,   \* bound: PDUs in the link, per direction
  MaxLosses,     \* bound: PDUs lost, over the behaviour
  MaxTriggers    \* bound: calls of triggerReset

ASSUME LinkAssumption ==
  /\ \E x, y \in Entity : x # y /\ Entity = {x, y}
  /\ Writer \subseteq Entity /\ Tester \subseteq Entity
  /\ MaxSdus \in Nat /\ MaxInFlight \in Nat
  /\ MaxLosses \in Nat /\ MaxTriggers \in Nat

VARIABLES
  source,     \* of each entity: the SDUs it has still to send
  win,        \* its transmission window
  poll,       \* its polling function
  ctl,        \* its control flags and reset procedure
  recv,       \* its reception window
  upper,      \* the SDUs it reassembles and has handed up
  link,       \* the PDUs on their way to it
  written,    \* the SDUs its upper layer has written
  losses,     \* PDUs lost so far
  triggers    \* triggerReset calls so far

tran == <<source, win, poll, ctl>>
env  == <<written, losses, triggers>>
vars == <<tran, recv, upper, link, env>>

Peer(e) == CHOOSE p \in Entity : p # e

Data  == [type : {"DATA"}, sn : SN, poll : BOOLEAN, payload : Payload]
Reset == [type : {"RESET", "RESET_ACK"}, rsn : {0, 1}]
Pdu   == Data \cup Status \cup Reset

\* Every variable but upper, whose content DeliveredInOrder describes.
TypeOK ==
  /\ source \in [Entity -> Source]
  /\ win \in [Entity -> Window]
  /\ poll \in [Entity -> Polling]
  /\ ctl \in [Entity -> Control]
  /\ recv \in [Entity -> Rx]
  /\ link \in [Entity -> Seq(Pdu)]
  /\ written \in [Entity -> Seq(Sdu)]
  /\ losses \in 0 .. MaxLosses
  /\ triggers \in 0 .. MaxTriggers

Init ==
  /\ source = [e \in Entity |-> sourceInit]
  /\ win = [e \in Entity |-> windowInit]
  /\ poll = [e \in Entity |-> pollingInit]
  /\ ctl = [e \in Entity |-> controlInit]
  /\ recv = [e \in Entity |-> recvAmInit]
  /\ upper = [e \in Entity |-> upperInit]
  /\ link = [e \in Entity |-> <<>>]
  /\ written = [e \in Entity |-> <<>>]
  /\ losses = 0
  /\ triggers = 0

-----------------------------------------------------------------------------
(* Upper layer and test hook.                                              *)

\* An SDU's identity is its place among those its writer writes.
RlcWriteHighSide(e, sdu) ==
  /\ e \in Writer
  /\ Len(written[e]) < MaxSdus
  /\ sdu.id = Len(written[e]) + 1
  /\ written' = [written EXCEPT ![e] = Append(@, sdu)]
  /\ source' = [source EXCEPT ![e] = rlcWriteHighSide(@, sdu)]
  /\ UNCHANGED <<win, poll, ctl, recv, upper, link, losses, triggers>>

TriggerReset(e) ==
  /\ e \in Tester
  /\ triggers < MaxTriggers
  /\ triggers' = triggers + 1
  /\ ctl' = [ctl EXCEPT ![e].mResetTriggered = TRUE]
  /\ UNCHANGED <<source, win, poll, recv, upper, link, written, losses>>

-----------------------------------------------------------------------------
(* rlcReadLowSide: one action per PDU readLowSidePdu2 may return, guarded  *)
(* by the early returns before it.  With the RST timer running and no ack  *)
(* to send it returns NULL and changes nothing.                            *)

Send(e, msg) == link' = [link EXCEPT ![Peer(e)] = Append(@, msg)]

MayRead(e) == ctl[e].state = "RUN" /\ Len(link[Peer(e)]) < MaxInFlight

\* badResetDue: a RESET nobody answers is not repeated.
badResetDue(e) == /\ ctl[e].mTimer_RST = "off"
                  /\ ctl[e].mResetTriggered \/ ~isReceiverOk(recv[e])

ResetDue(e) ==
  \/ ctl[e].mTimer_RST = "expired"
  \/ /\ ctl[e].mTimer_RST = "off"
     /\ ctl[e].mResetTriggered \/ ~isReceiverOk(recv[e])

\* getResetPdu appends the RSN as a field of one bit.
ResetMsg(kind, rsn) == [type |-> kind, rsn |-> rsn % 2]

EmitReset(e) ==
  LET c == ResetStarted(ctl[e])
  IN  /\ ctl' = [ctl EXCEPT ![e] = c]
      /\ IF c.state = "STOP"
         THEN UNCHANGED link
         ELSE Send(e, ResetMsg("RESET", c.mResetTransRSN))

ReadResetAck(e) ==
  /\ MayRead(e)
  /\ ctl[e].mSendResetAck
  /\ ctl' = [ctl EXCEPT ![e].mSendResetAck = FALSE]
  /\ Send(e, ResetMsg("RESET_ACK", ctl[e].mResetAckRSN))
  /\ UNCHANGED <<source, win, poll, recv, upper, env>>

ReadReset(e) ==
  /\ MayRead(e)
  /\ ~ctl[e].mSendResetAck
  /\ ResetDue(e)
  /\ EmitReset(e)
  /\ UNCHANGED <<source, win, poll, recv, upper, env>>

MayReadOn(e) ==
  /\ MayRead(e)
  /\ ~ctl[e].mSendResetAck
  /\ ~resetInProgress(ctl[e])
  /\ ~ResetDue(e)

ReadStatus(e) ==
  /\ MayReadOn(e)
  /\ ctl[e].mStatusTriggered
  /\ ctl' = [ctl EXCEPT ![e].mStatusTriggered = ~lastStatusReport(recv[e])]
  /\ recv' = [recv EXCEPT ![e] = StatusReported(@)]
  /\ Send(e, addAckNack(recv[e]))
  /\ UNCHANGED <<source, win, poll, upper, env>>

MayReadData(e) == MayReadOn(e) /\ ~ctl[e].mStatusTriggered

DataMsg(w, sn, p) ==
  [type |-> "DATA", sn |-> sn, poll |-> p, payload |-> w.mPduTxQ[sn].payload]

\* From the ++mVTDAT on, for the data PDU of number sn: reset the connection
\* or send the PDU, with the poll bit if a poll is due and not prohibited.
Transmit(e, w, p, sn) ==
  LET counted == CountTransmission(w, sn)
      asked   == IsPollTriggered(p, source'[e])
      polls   == asked.mPollTriggered /\ ~PollProhibited(asked)
  IN  /\ win' = [win EXCEPT ![e] = counted]
      /\ \/ /\ counted.mPduTxQ[sn].mVTDAT >= mConfig.mMaxDAT
            /\ poll' = [poll EXCEPT ![e] = p]
            /\ EmitReset(e)
         \/ /\ counted.mPduTxQ[sn].mVTDAT < mConfig.mMaxDAT
            /\ poll' = [poll EXCEPT ![e] =
                          IF polls THEN PollSent(asked, w.mVTS) ELSE asked]
            /\ Send(e, DataMsg(w, sn, polls))
            /\ UNCHANGED ctl
      /\ UNCHANGED <<recv, upper, env>>

ReadRetransmission(e) ==
  LET w == Retransmitted(win[e])
  IN  /\ MayReadData(e)
      /\ win[e].mNackedBlocksWaiting
      /\ UNCHANGED source
      /\ Transmit(e, w,
                  PollAskedIf(poll[e], /\ ~w.mNackedBlocksWaiting
                                       /\ mConfig.mLastRetransmissionPduPoll),
                  win[e].mVSNack)

NoNewData(e) == stalled(win[e]) \/ pdusFinished(source[e])

ReadNewData(e) ==
  /\ MayReadData(e)
  /\ ~win[e].mNackedBlocksWaiting
  /\ ~NoNewData(e)
  /\ source' = [source EXCEPT ![e] = fillPduData(@)]
  /\ Transmit(e, getDataPdu(win[e], FilledPayload(source[e])),
              PollAskedIf(poll[e], /\ pdusFinished(source'[e])
                                   /\ mConfig.mLastTransmissionPduPoll),
              win[e].mVTS)

LastSent(e) == addSN(win[e].mVTS, -1)

\* badPollRepeats: looks for the last PDU sent one place too far.
badPollRepeats(e, asked) ==
  /\ ~PollProhibited(asked)
  /\ win[e].mVTS # win[e].mVTA
  /\ win[e].mPduTxQ[win[e].mVTS] # NoPdu

\* maybe_poll with no PDU at hand: the last PDU sent is repeated with the
\* poll bit, unless all of them are acknowledged or it is gone.
PollRepeats(e, asked) ==
  /\ ~PollProhibited(asked)
  /\ win[e].mVTS # win[e].mVTA
  /\ win[e].mPduTxQ[LastSent(e)] # NoPdu

ReadPollOnly(e) ==
  LET asked == IsPollTriggered(poll[e], source[e])
  IN  /\ MayReadData(e)
      /\ ~win[e].mNackedBlocksWaiting
      /\ NoNewData(e)
      /\ asked.mPollTriggered
      /\ \/ /\ PollRepeats(e, asked)
            /\ poll' = [poll EXCEPT ![e] = PollSent(asked, win[e].mVTS)]
            /\ Send(e, DataMsg(win[e], LastSent(e), TRUE))
         \/ /\ ~PollRepeats(e, asked)
            /\ poll' = [poll EXCEPT ![e] = asked]
            /\ UNCHANGED link
      /\ UNCHANGED <<source, win, ctl, recv, upper, env>>

RlcReadLowSide(e) ==
  \/ ReadResetAck(e) \/ ReadReset(e) \/ ReadStatus(e)
  \/ ReadRetransmission(e) \/ ReadNewData(e) \/ ReadPollOnly(e)

-----------------------------------------------------------------------------
(* rlcWriteLowSide, for the PDU at the head of the link.                   *)

Arrived(e, type) == link[e] # <<>> /\ Head(link[e]).type = type

Take(e) == link' = [link EXCEPT ![e] = Tail(@)]

ReceiveData(e) ==
  /\ Arrived(e, "DATA")
  /\ Take(e)
  /\ LET m == Head(link[e])
         r == PollSeen(recv[e], m.poll)
         s == Stored(r, m.sn, m.payload)
     IN  /\ recv' = [recv EXCEPT ![e] =
                        IF Unwanted(r, m.sn) THEN r ELSE Accepted(s, m.sn)]
         /\ upper' = [upper EXCEPT ![e] =
                        IF Unwanted(r, m.sn) THEN @ ELSE Delivered(s, @, m.sn)]
         /\ ctl' = [ctl EXCEPT ![e].mStatusTriggered =
                      @ \/ m.poll \/ Unwanted(r, m.sn) \/ MissingPduDetected(r, m.sn)]
  /\ UNCHANGED <<source, win, poll, env>>

ReceiveStatus(e) ==
  /\ Arrived(e, "STATUS")
  /\ Take(e)
  /\ win' = [win EXCEPT ![e] = processSUFIs2(@, Head(link[e]))]
  /\ poll' = [poll EXCEPT ![e] = PollAnswered(@, win'[e])]
  /\ UNCHANGED <<source, ctl, recv, upper, env>>

\* A reset, w and r being what it leaves of the windows and c
\* of the control record.
ResetTo(e, c, w, r) ==
  /\ source' = [source EXCEPT ![e] = sourceReset(@)]
  /\ win' = [win EXCEPT ![e] = w]
  /\ poll' = [poll EXCEPT ![e] = pollingReset(@)]
  /\ ctl' = [ctl EXCEPT ![e] = c]
  /\ recv' = [recv EXCEPT ![e] = r]
  /\ upper' = [upper EXCEPT ![e] = discardPartialSdu(@)]

\* badReset...: one assignment of the reset missing, that to the NACK flag, the
\* queue of sent PDUs, mStatusSN or the reception window.
badResetNackFlag(e, c) ==
  ResetTo(e, c, [windowInit EXCEPT !.mNackedBlocksWaiting =
                                       win[e].mNackedBlocksWaiting], recvAmInit)
badResetTxQ(e, c) ==
  ResetTo(e, c, [windowInit EXCEPT !.mPduTxQ = win[e].mPduTxQ], recvAmInit)
badResetStatusSN(e, c) ==
  ResetTo(e, c, windowInit, [recvAmInit EXCEPT !.mStatusSN = recv[e].mStatusSN])
badResetReceiver(e, c) == ResetTo(e, c, windowInit, recv[e])

\* transAmReset and recvAmReset.
FullReset(e, c) == ResetTo(e, c, windowInit, recvAmInit)

\* recvResetPdu: a repetition of the last RESET is only acknowledged again.
ReceiveReset(e) ==
  LET c    == ctl[e]
      rsn  == Head(link[e]).rsn
      new  == resetInProgress(c) \/ ~c.mResetReceived \/ rsn # c.mResetAckRSN
      Acknowledge(d) == [d EXCEPT !.mResetAckRSN = rsn, !.mResetReceived = TRUE,
                                  !.mSendResetAck = TRUE]
  IN  /\ Arrived(e, "RESET")
      /\ Take(e)
      /\ \/ new /\ FullReset(e, Acknowledge(controlReset(c)))
         \/ /\ ~new
            /\ ctl' = [ctl EXCEPT ![e] = Acknowledge(c)]
            /\ UNCHANGED <<source, win, poll, recv, upper>>
      /\ UNCHANGED env

\* recvResetAck: the bit received is compared with the whole of
\* mResetTransRSN, which only ever grows.
ReceiveResetAck(e) ==
  LET c       == ctl[e]
      matches == resetInProgress(c) /\ Head(link[e]).rsn = c.mResetTransRSN
  IN  /\ Arrived(e, "RESET_ACK")
      /\ Take(e)
      /\ \/ /\ matches
            /\ FullReset(e, [controlReset(c) EXCEPT
                               !.mVTRST = 0, !.mTimer_RST = "off",
                               !.mResetTransRSN = c.mResetTransRSN + 1])
         \/ ~matches /\ UNCHANGED <<tran, recv, upper>>
      /\ UNCHANGED env

RlcWriteLowSide(e) ==
  ReceiveData(e) \/ ReceiveStatus(e) \/ ReceiveReset(e) \/ ReceiveResetAck(e)

-----------------------------------------------------------------------------
(* Time and the link.  Time is not modelled: a timer that counts may run   *)
(* out at any moment.                                                      *)

RstTimerExpires(e) ==
  /\ ctl[e].mTimer_RST = "running"
  /\ ctl' = [ctl EXCEPT ![e].mTimer_RST = "expired"]
  /\ UNCHANGED <<source, win, poll, recv, upper, link, env>>

PollTimers == {"mTimer_Poll", "mTimer_Poll_Prohibit", "mTimer_Poll_Periodic"}

PollTimerExpires(e, timer) ==
  /\ poll[e][timer] = "running"
  /\ poll' = [poll EXCEPT ![e][timer] = "expired"]
  /\ UNCHANGED <<source, win, ctl, recv, upper, link, env>>

LosePdu(e) ==
  /\ link[e] # <<>>
  /\ losses < MaxLosses
  /\ losses' = losses + 1
  /\ Take(e)
  /\ UNCHANGED <<tran, recv, upper, written, triggers>>

Next ==
  \E e \in Entity :
    \/ \E sdu \in Sdu : RlcWriteHighSide(e, sdu)
    \/ TriggerReset(e)
    \/ RlcReadLowSide(e)
    \/ RlcWriteLowSide(e)
    \/ RstTimerExpires(e)
    \/ \E timer \in PollTimers : PollTimerExpires(e, timer)
    \/ LosePdu(e)

Spec == Init /\ [][Next]_vars

(* macTX calls rlcReadLowSide of every channel for ever, macDCCHRX calls   *)
(* rlcWriteLowSide for every PDU that comes, and a timer that counts runs  *)
(* out.  ReadDue says when RlcReadLowSide can change the state, so that    *)
(* the first conjunct of Fairness is WF_vars(RlcReadLowSide(e)); written   *)
(* out, TLC need not enumerate the action to know whether it is enabled.   *)

ReadDue(e) ==
  LET asked == IsPollTriggered(poll[e], source[e])
  IN  \/ MayRead(e) /\ (ctl[e].mSendResetAck \/ ResetDue(e))
      \/ /\ MayReadOn(e)
         /\ \/ ctl[e].mStatusTriggered
            \/ win[e].mNackedBlocksWaiting
            \/ ~NoNewData(e)
            \/ asked.mPollTriggered /\ (PollRepeats(e, asked) \/ asked # poll[e])

Fairness ==
  \A e \in Entity :
    /\ []<>~ReadDue(e) \/ []<><<RlcReadLowSide(e)>>_vars
    /\ WF_link(link[e] # <<>> /\ Take(e))   \* received, or one of the few lost
    /\ WF_vars(RstTimerExpires(e))
    /\ \A timer \in PollTimers : WF_vars(PollTimerExpires(e, timer))

FairSpec == Spec /\ Fairness
=============================================================================
