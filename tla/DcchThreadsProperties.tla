------------------------ MODULE DcchThreadsProperties ------------------------
(* What the threads around a bearer in transparent or unacknowledged mode keep. *)
EXTENDS DcchThreads

(* Every variable keeps its shape; mSize never goes below zero.                *)
TypeOK ==
  /\ MemoryTypeOK /\ QueueTypeOK
  /\ mRlcMode \in Modes
  /\ pc \in [{RrcTx, MacTx, MacRx} -> {"loop", "write", "push", "return", "fill", "send", "signal"}]
  /\ written \in 0 .. MaxSdus /\ mSduTxQ \in Seq(Down) /\ pdu \in Vec \cup {NULL}
  /\ received \in 0 .. MaxSdus /\ mUpSdu \in Up \cup {NULL}
  /\ sent \in Seq(Up) /\ taken \in Seq(Up)

(* A vector never points to memory that was deleted, whatever decRefCnt of one *)
(* thread does to that of another: the SDU that macTX frees shares its memory  *)
(* with a vector of rrcSendDCCH that goes out of scope at any time.            *)
VectorsOwnMemory == \A v \in Vec : mData[v] # NULL => mData[v] \in heap

(* Memory that no vector points to and nobody deleted was a downlink SDU's:    *)
(* two counts down at the same time lose one.  Uplink SDUs and PDUs, handed    *)
(* from thread to thread, are always deleted.                                  *)
OnlyDownSdusLeak ==
  \A b \in heap : (\A v \in Vec : mData[v] # b) => madeFor[b] = Local

(* The linked list with its pool of nodes, the lock and the signal are a queue:*)
(* RRC takes the SDUs RLC sent up, each once, in order.                        *)
HandOver == INSTANCE SduHandOver WITH Sdu <- Up
ImplementsHandOver == HandOver!Spec

(* rrcRecvDCCH is a "Blocking read" and an uplink SDU "is allocated and must be*)
(* deleted eventually" (URlcRecv.h): no SDU stays in the queue while readers   *)
(* wait, and none keeps its memory.                                            *)
AllRead ==
  /\ Len(taken) = Len(sent)
  /\ \A k \in DOMAIN taken : mData[UpSdu(taken[k])] = NULL
EverySduRead == []<>AllRead
=============================================================================
