------------------------------ MODULE RlcStream ------------------------------
(***************************************************************************)
(* One direction of a bearer, octet by octet: the upper layer writes SDUs, *)
(* one thread of MAC reads the transmitter's low side, another writes the  *)
(* receiver's, and what is received is handed up.  In UM (URlcTransUm,     *)
(* URlcRecvUm) PDUs are numbered and some are lost.  In AM this is the     *)
(* stream of PDUs that URlcRecvAm passes to parsePduData in sequence:      *)
(* RlcAm shows that none is missing, doubled or out of order.              *)
(***************************************************************************)
EXTENDS RlcSegment, SeqNum

CONSTANTS
  Configs,      \* the bearers looked at, one per behaviour
  ToHandset,    \* those whose receiver is not this code but a handset
  SduSizes,     \* sizes of the SDUs the upper layer writes, in octets
  MaxSdus,      \* bound on the SDUs written
  MaxInFlight   \* bound on the PDUs between the two ends

\* PDUs hold both length indicators that can come before the first octet,
\* and those of seven bits are used for sizes they can express.
ASSUME StreamAssumption ==
  /\ Configs \subseteq Config
  /\ \A c \in Configs : /\ c.payload > 2 * c.libytes
                        /\ c.libytes = 1 => c.payload <= 124
                        /\ c.rlcMode = "UM" => c.libytes = 1
  /\ SduSizes \subseteq Nat \ {0}
  /\ MaxSdus \in Nat /\ MaxInFlight \in Nat \ {0}

VARIABLES
  mConfig,   \* URlcConfigAmUm of the bearer, fixed when it is set up
  tx,        \* the transmitter
  mVTUS,     \* number of the next UM PDU
  reader,    \* where the thread of MAC is in readLowSidePdu
  air,       \* the PDUs between the two ends
  rx,        \* the receiver
  mVRUS,     \* number after that of the last UM PDU received
  written,   \* sizes of the SDUs written so far
  \* What follows is history and environment.
  lost,      \* PDUs lost since the last one received
  dropped,   \* SDUs thrown away by a full buffer
  damaged    \* SDUs of which an octet or the end was in a lost PDU

vars == <<mConfig, tx, mVTUS, reader, air, rx, mVRUS, written, lost, dropped, damaged>>

Whole(i) == [n \in 1 .. written[i] |-> <<i, n>>]

\* No constructor of URlcRecvUm sets mLostPdu; recvAmInit does.
Init ==
  /\ mConfig \in Configs
  /\ tx = transInit
  /\ mVTUS = 0
  /\ reader = "idle"
  /\ air = <<>>
  /\ rx \in [ mUpSdu : {NoSdu}, sent : {<<>>},
              mLostPdu : IF mConfig.rlcMode = "UM" THEN BOOLEAN ELSE {FALSE} ]
  /\ mVRUS = 0
  /\ written = <<>>
  /\ lost = 0
  /\ dropped = {}
  /\ damaged = {}

-----------------------------------------------------------------------------
SdusOf(octets) == {o[1] : o \in Range(octets)} \ {0}

Pending(t) == SdusOf(FlattenSeq(InProgress(t) \o t.mSduTxQ))

rlcWriteHighSideAny ==
  \E size \in SduSizes :
    LET new == Len(written) + 1
        t == rlcWriteHighSide(mConfig, tx, [n \in 1 .. size |-> <<new, n>>])
    IN  /\ new <= MaxSdus
        /\ tx' = t
        /\ written' = Append(written, size)
        /\ dropped' = dropped \cup ((Pending(tx) \cup {new}) \ Pending(t))
        /\ UNCHANGED <<mConfig, mVTUS, reader, air, rx, mVRUS, lost, damaged>>

\* readLowSidePdu asks pdusFinished, which releases mQLock when it returns.
ReadLowSideChecks ==
  /\ reader = "idle"
  /\ ~pdusFinished(tx)
  /\ Len(air) < MaxInFlight
  /\ reader' = "filling"
  /\ UNCHANGED <<mConfig, tx, mVTUS, air, rx, mVRUS, written, lost, dropped, damaged>>

\* The SDUs a PDU says something about: those it has octets of and the one
\* whose end it marks for the PDU before it.
About(pdu) ==
  SdusOf(pdu.data) \cup
    (IF tx.mLILeftOver = 0 THEN {}
     ELSE {Max({i \in 1 .. Len(written) : i \notin Pending(tx) \cup dropped})})

\* The shared RLC of CCCH starts each SDU at number 0.
Numbered(t) == IF mConfig.mIsSharedRlc /\ StartsNewSdu(t) THEN 0 ELSE mVTUS

\* fillPduData under mQLock, after which the PDU is handed to MAC.
ReadLowSideFills ==
  /\ reader = "filling"
  /\ ~pdusFinished(tx)
  /\ LET filled == fillPduData(mConfig, tx)
         sn == Numbered(tx)
     IN  /\ tx' = filled.trans
         /\ mVTUS' = IF mConfig.rlcMode = "UM" THEN incSN(sn) ELSE mVTUS
         /\ air' = Append(air, [sn |-> sn, pdu |-> filled.pdu, about |-> About(filled.pdu)])
  /\ reader' = "idle"
  /\ UNCHANGED <<mConfig, rx, mVRUS, written, lost, dropped, damaged>>

\* Nothing is left: assert(0) at URlcTransAmUm.cpp:45, the program ends.
ReadLowSideAsserts ==
  /\ reader = "filling"
  /\ pdusFinished(tx)
  /\ reader' = "aborted"
  /\ UNCHANGED <<mConfig, tx, mVTUS, air, rx, mVRUS, written, lost, dropped, damaged>>

-----------------------------------------------------------------------------
\* "In the case where a PDU contains a 15-bit Length Indicator indicating that
\* an RLC SDU ends with one octet left in the PDU, the last octet of this PDU
\* shall be padded by the sender and ignored by the Receiver"
\* (URlcTransAmUm.cpp:219-224, quoting 25.322).
HasSpareOctet(pdu) ==
  /\ mConfig.libytes = 2
  /\ LET sizes == SelectSeq(pdu.vli, LAMBDA li : li \notin {ExactLI, ShortLI})
     IN  /\ sizes # <<>>
         /\ FoldLeft(LAMBDA sum, li : sum + li, 1, sizes) = Len(pdu.data)

\* The other end of a downlink bearer is a handset, which knows this rule;
\* the receiver of the code does not.
ForReceiver(pdu) ==
  IF mConfig \in ToHandset /\ HasSpareOctet(pdu)
  THEN [pdu EXCEPT !.data = Front(@)] ELSE pdu

\* URlcRecvUm::rlcWriteLowSide, or URlcRecvAm's call of parsePduData.
Received(r, sn, pdu) ==
  LET gap == mConfig.rlcMode = "UM" /\ sn # mVRUS
      known == IF gap THEN [discardPartialSdu(r) EXCEPT !.mLostPdu = TRUE] ELSE r
  IN  parsePduData(mConfig, known, ForReceiver(pdu))

WriteLowSide ==
  /\ air # <<>>
  /\ LET p == Head(air)
     IN  /\ rx' = Received(rx, p.sn, p.pdu)
         /\ mVRUS' = IF mConfig.rlcMode = "UM" THEN incSN(p.sn) ELSE mVRUS
  /\ air' = Tail(air)
  /\ lost' = 0
  /\ UNCHANGED <<mConfig, tx, mVTUS, reader, written, dropped, damaged>>

\* Fewer PDUs in a row than there are numbers: UM cannot see a longer loss.
Lose ==
  /\ mConfig.rlcMode = "UM"
  /\ air # <<>>
  /\ lost < mSNS - 1
  /\ damaged' = damaged \cup Head(air).about
  /\ air' = Tail(air)
  /\ lost' = lost + 1
  /\ UNCHANGED <<mConfig, tx, mVTUS, reader, rx, mVRUS, written, dropped>>

Running == reader # "aborted"

Next ==
  /\ Running
  /\ \/ rlcWriteHighSideAny
     \/ ReadLowSideChecks
     \/ ReadLowSideFills
     \/ ReadLowSideAsserts
     \/ WriteLowSide
     \/ Lose

Spec == Init /\ [][Next]_vars

\* macTX reads for ever, and what is sent is received or, now and then, lost.
\* FillEnds and PduLeaves name the steps by what they change, which no other
\* step does: the fairness is that of ReadLowSideFills or ReadLowSideAsserts,
\* and of WriteLowSide or Lose.
FillEnds == reader = "filling" /\ reader' \in {"idle", "aborted"}
PduLeaves == Running /\ air # <<>> /\ air' = Tail(air)

FairSpec ==
  /\ Spec
  /\ WF_vars(Running /\ ReadLowSideChecks)
  /\ WF_reader(FillEnds)
  /\ WF_air(PduLeaves)

-----------------------------------------------------------------------------
Pdu == [ vli : Seq(0 .. 32767), data : Seq(Octet \cup {Fill}) ]

TypeOK ==
  /\ mConfig \in Configs
  /\ tx \in Transmitter
  /\ mVTUS \in SN /\ mVRUS \in SN
  /\ reader \in {"idle", "filling", "aborted"}
  /\ rx \in Receiver
  /\ air \in Seq([sn : SN, pdu : Pdu, about : SUBSET (1 .. MaxSdus)])
  /\ written \in Seq(SduSizes)
  /\ dropped \in SUBSET (1 .. MaxSdus) /\ damaged \in SUBSET (1 .. MaxSdus)
=============================================================================
