------------------------------ MODULE DcchThreads ------------------------------
(* The threads around one bearer of a UE and what they share: the memory of     *)
(* SDUs and PDUs and the queue of uplink SDUs.  rrcTxDCCH writes SDUs, macTX    *)
(* reads PDUs and sends them, macDCCHRX hands up SDUs, the readers are threads  *)
(* in URlc::rrcRecvDCCH.  This module has the bearers in transparent and        *)
(* unacknowledged mode; DcchThreadsAm adds what acknowledged mode does.         *)
EXTENDS Naturals, Sequences

CONSTANTS Reader,     \* threads in rrcRecvDCCH
          Block,      \* blocks of memory
          Node,       \* nodes of the uplink queues
          Queue,      \* copies of gRrcUplinkQueue, and gSgsnUplinkQueue
          CopyOf,     \* the copy of gRrcUplinkQueue each source file has, by file
          gSgsnUplinkQueue,
          Modes,      \* modes of the bearer
          MaxSdus,    \* SDUs begun in both directions together (bound)
          NULL

VARIABLES mData, refcnt, heap, madeFor, call,   \* memory, see ByteVector
          mQ, waiting, reading, retVal,         \* queues, see InterthreadQueue
          mRlcMode,   \* mode of the bearer
          pc,         \* where each RLC or MAC thread is
          written,    \* how many SDUs rrcTxDCCH has begun to write
          mSduTxQ,    \* downlink SDUs not yet sent
          pdu,        \* the vector that is macTX's PDU, or NULL
          received,   \* how many uplink SDUs macDCCHRX has begun
          mUpSdu,     \* the uplink SDU being put together, or NULL
          sent,       \* uplink SDUs sent up to RRC, in order (history)
          taken       \* uplink SDUs read by RRC, in order (history)

RrcTx == "rrcTxDCCH"
MacTx == "macTX"
MacRx == "macDCCHRX"
Thread == {RrcTx, MacTx, MacRx} \cup Reader

Down == 1 .. MaxSdus
Up == 1 .. MaxSdus

(* The vectors of the program: the local one of rrcSendDCCH, the SDUs queued,  *)
(* the PDUs an AM bearer keeps, the PDU macTX holds and the segment of it made *)
(* for the log, and the uplink SDUs.                                           *)
Local == <<"dcchpdu", 0>>
DownSdu(i) == <<"sdu", i>>
Kept(i) == <<"mPduTxQ", i>>
Pdu == <<"pdu", 0>>
LogSegment == <<"segment", 0>>
UpSdu(i) == <<"up", i>>

Vec == {Local, Pdu, LogSegment} \cup {DownSdu(i) : i \in Down} \cup {Kept(i) : i \in Down}
         \cup {UpSdu(i) : i \in Up}

Item == Up

INSTANCE ByteVector
INSTANCE InterthreadQueue

ASSUME ThreadAssumption ==
  /\ MaxSdus \in Nat
  /\ CopyOf \in [{"URlcRecv.cpp", "URlc.cpp"} -> Queue]
  /\ gSgsnUplinkQueue \in Queue /\ gSgsnUplinkQueue # CopyOf["URlc.cpp"]
  /\ Reader \cap {RrcTx, MacTx, MacRx} = {}
  /\ NULL \notin Block /\ NULL \notin Node /\ NULL \notin Vec /\ NULL \notin Item

(* Bearers 1 to 3 are signalling bearers and have UM or AM; TM is for voice.   *)
IsSrb == mRlcMode # "TM"

(* rlcSendHighSide sends signalling to the queue its file sees, rrcRecvDCCH    *)
(* reads the one of its own file.  User data go where nobody reads.            *)
WriteQueue == IF IsSrb THEN CopyOf["URlcRecv.cpp"] ELSE gSgsnUplinkQueue
ReadQueue == CopyOf["URlc.cpp"]

memory == <<mData, refcnt, heap, madeFor, call>>
queues == <<mQ, waiting, reading, retVal>>
downlink == <<written, mSduTxQ, pdu>>
uplink == <<received, mUpSdu, sent, taken>>
vars == <<memory, queues, mRlcMode, pc, downlink, uplink>>

Init ==
  /\ MemoryInit
  /\ QueueInit
  /\ mRlcMode \in Modes
  /\ pc = [t \in {RrcTx, MacTx, MacRx} |-> "loop"]
  /\ written = 0 /\ mSduTxQ = << >> /\ pdu = NULL
  /\ received = 0 /\ mUpSdu = NULL /\ sent = << >> /\ taken = << >>

At(t, place) == pc[t] = place /\ Idle(t)
Goes(t, place) == pc' = [pc EXCEPT ![t] = place]

-----------------------------------------------------------------------------
(* rrcTxDCCH: URlc::rrcSendDCCH and, in it, URlcTrans::rlcWriteHighSide.       *)

rrcSendDCCH ==
  /\ At(RrcTx, "loop") /\ written + received < MaxSdus
  /\ init(Local)
  /\ written' = written + 1
  /\ Goes(RrcTx, "write")
  /\ UNCHANGED <<queues, mRlcMode, mSduTxQ, pdu, uplink>>

(* new URlcDownSdu(data, ...) shares the memory of the argument.               *)
NewDownSdu ==
  /\ At(RrcTx, "write")
  /\ dup(RrcTx, DownSdu(written), Local)
  /\ Goes(RrcTx, "push")
  /\ UNCHANGED <<queues, mRlcMode, downlink, uplink>>

PushSdu ==
  /\ At(RrcTx, "push")
  /\ mSduTxQ' = Append(mSduTxQ, written)
  /\ Goes(RrcTx, "return")
  /\ UNCHANGED <<memory, queues, mRlcMode, written, pdu, uplink>>

(* The local vector goes out of scope, with no lock held.                      *)
DcchReturns ==
  /\ At(RrcTx, "return")
  /\ clear(RrcTx, Local)
  /\ Goes(RrcTx, "loop")
  /\ UNCHANGED <<queues, mRlcMode, downlink, uplink>>

-----------------------------------------------------------------------------
(* macTX: flushUE and, in it, rlcReadLowSide.                                  *)

(* URlcTransTm: the SDU itself is the PDU.                                     *)
ReadTm ==
  /\ mRlcMode = "TM" /\ At(MacTx, "loop") /\ mSduTxQ # << >>
  /\ pdu' = DownSdu(Head(mSduTxQ))
  /\ mSduTxQ' = Tail(mSduTxQ)
  /\ Goes(MacTx, "send")
  /\ UNCHANGED <<memory, queues, mRlcMode, written, uplink>>

(* URlcTransUm: a new PDU is filled from the SDU queue, which frees the SDU.   *)
(* The segment rlcReadLowSide makes of the PDU to print it is left out here:   *)
(* the PDU is this thread's own until it is sent.                              *)
ReadUm ==
  /\ mRlcMode = "UM" /\ At(MacTx, "loop") /\ mSduTxQ # << >>
  /\ init(Pdu)
  /\ pdu' = Pdu
  /\ Goes(MacTx, "fill")
  /\ UNCHANGED <<queues, mRlcMode, written, mSduTxQ, uplink>>

fillPduData(next) ==
  /\ At(MacTx, "fill")
  /\ clear(MacTx, DownSdu(Head(mSduTxQ)))
  /\ mSduTxQ' = Tail(mSduTxQ)
  /\ Goes(MacTx, next)
  /\ UNCHANGED <<queues, mRlcMode, written, pdu, uplink>>

FillUm == mRlcMode = "UM" /\ fillPduData("send")

(* flushUE copies the octets, clears the PDU and deletes it.                   *)
SendPdu ==
  /\ At(MacTx, "send")
  /\ clear(MacTx, pdu)
  /\ pdu' = NULL
  /\ Goes(MacTx, "loop")
  /\ UNCHANGED <<queues, mRlcMode, written, mSduTxQ, uplink>>

-----------------------------------------------------------------------------
(* macDCCHRX: rlcWriteLowSide and, in it, rlcSendHighSide.                     *)

(* URlcRecvTm makes an SDU of a PDU, addUpSdu makes one when a PDU starts it.  *)
NewUpSdu ==
  /\ At(MacRx, "loop") /\ mUpSdu = NULL /\ written + received < MaxSdus
  /\ init(UpSdu(received + 1))
  /\ received' = received + 1
  /\ mUpSdu' = received + 1
  /\ UNCHANGED <<queues, mRlcMode, pc, downlink, sent, taken>>

rlcSendHighSide ==
  /\ At(MacRx, "loop") /\ mUpSdu # NULL
  /\ Write(WriteQueue, mUpSdu)
  /\ sent' = IF IsSrb THEN Append(sent, mUpSdu) ELSE sent
  /\ mUpSdu' = NULL
  /\ Goes(MacRx, "signal")
  /\ UNCHANGED <<memory, mRlcMode, downlink, received, taken>>

SignalsRead ==
  /\ At(MacRx, "signal")
  /\ Signal(WriteQueue)
  /\ Goes(MacRx, "loop")
  /\ UNCHANGED <<memory, mRlcMode, downlink, uplink>>

(* A loss in UM, a reset in AM.                                                *)
discardPartialSdu ==
  /\ mRlcMode \in {"UM", "AM"} /\ At(MacRx, "loop") /\ mUpSdu # NULL
  /\ clear(MacRx, UpSdu(mUpSdu))
  /\ mUpSdu' = NULL
  /\ UNCHANGED <<queues, mRlcMode, pc, downlink, received, sent, taken>>

-----------------------------------------------------------------------------
(* A thread in URlc::rrcRecvDCCH.                                              *)

Reads(r) ==
  /\ Idle(r)
  /\ ReadCalled(r, ReadQueue) \/ ReadWakes(r, ReadQueue)
  /\ taken' = IF retVal'[r] # NULL THEN Append(taken, retVal'[r]) ELSE taken
  /\ UNCHANGED <<memory, mRlcMode, pc, downlink, received, mUpSdu, sent>>

ReturnsSpuriously(r) ==
  /\ SpuriousReturn(r, ReadQueue)
  /\ UNCHANGED <<memory, mRlcMode, pc, downlink, uplink>>

(* It copies the octets, clears the SDU and deletes the message with it.       *)
rrcRecvDCCH(r) ==
  /\ reading[r] = "returned"
  /\ clear(r, UpSdu(retVal[r]))
  /\ Released(r)
  /\ UNCHANGED <<mRlcMode, pc, downlink, uplink>>

-----------------------------------------------------------------------------
(* The rest of a member function of ByteVector that a thread is in.            *)
Memory(t) ==
  /\ setRefCnt(t) \/ deleteData(t)
  /\ UNCHANGED <<queues, mRlcMode, pc, downlink, uplink>>

RrcTxNext == rrcSendDCCH \/ NewDownSdu \/ PushSdu \/ DcchReturns
MacTxNext == ReadTm \/ ReadUm \/ FillUm \/ SendPdu
MacRxNext == NewUpSdu \/ rlcSendHighSide \/ SignalsRead \/ discardPartialSdu
ReaderNext(r) == Reads(r) \/ rrcRecvDCCH(r)

Next ==
  \/ RrcTxNext \/ MacTxNext \/ MacRxNext
  \/ \E r \in Reader : ReaderNext(r) \/ ReturnsSpuriously(r)
  \/ \E t \in Thread : Memory(t)

Spec == Init /\ [][Next]_vars

(* A thread that can go on does; nothing makes an SDU start or end.            *)
Fairness ==
  /\ WF_vars(SignalsRead)
  /\ \A r \in Reader : WF_vars(ReaderNext(r))
  /\ \A t \in Thread : WF_vars(Memory(t))

FairSpec == Spec /\ Fairness
=============================================================================
