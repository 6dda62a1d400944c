# A verification project for OpenBTS-UMTS-RLC

The repository is the radio link control (RLC) layer of a UMTS base station, cut out of
OpenBTS-UMTS with the parts of RRC and MAC that drive it. RLC carries the SDUs of the upper
layers over a radio link that loses PDUs. This directory holds TLA+ models of that code, the
TLC runs that check them and proofs checked by TLAPS. All paths below are relative to
`src/UMTS-RLC/` unless they start with `src/`.

## 1. The system

### Components

| Component | Source | State | Operations |
|---|---|---|---|
| Sequence numbers | `RLC/URlcBase.*` | none | `deltaSN`, `addSN`, `incSN`, `minSN` modulo 4096 (AM) or 128 (UM) |
| SDU buffer | `RLC/Tran/URlcTrans.*` | `mSduTxQ`, `mSplitSdu`, `mVTSDU`, `mQLock` | `rlcWriteHighSide`, byte counts |
| Segmentation | `RLC/Tran/URlcTransAmUm.*` | `mLILeftOver`, `mVTPDU`, `mPduOutQ` | `fillPduData`, `rlcReadLowSide`, `rlcPullLowSide`, `transDoReset` |
| AM transmitter | `RLC/Tran/URlcTransAm.*` | window `mVTS`, `mVTA`, `mPduTxQ`; NACK flag and pointer; poll triggers; four timers; reset counters | `readLowSidePdu2`, `processSUFIs`, `transAmReset` |
| AM receiver | `RLC/Recv/URlcRecvAm.*` | window `mVRR`, `mVRH`, `mPduRxQ`, `mStatusSN` | `rlcWriteLowSide`, `addAckNack`, `recvAmReset` |
| Reassembly | `RLC/Recv/URlcRecvAmUm.*` | `mUpSdu`, `mLostPdu` | `parsePduData`, `sendSdu`, `discardPartialSdu` |
| AM entity | `RLC/URlcAm.*` | both halves, `mAmLock` | `recvResetPdu`, `recvResetAck` |
| UM, TM entities | `RLC/*/URlc*Um.*`, `RLC/*/URlc*Tm.*` | `mVTUS`, `mVRUS`; queues | read and write of the low side |
| RLC pair | `RLC/URlcPair.*` | the two directions of a bearer | construction from `RBInfo` |
| UE | `Ue/UEInfo.*` | RLCs by bearer, state, timers | connect, disconnect, routing of PDUs and SDUs |
| RRC | `RRC/URRC.*`, `RRC/URRCMessages.*` | list of UEs, RNTIs, CCCH RLCs | `findUe`, `addUE`, `purgeUEs`, common channel |
| Uplink delivery | `RLC/Recv/URlcRecv.*`, `URlc.cpp`, `Utilities/Interthread.h`, `Utilities/LinkedLists.*` | uplink queues: a linked list, a lock, a signal | `rlcSendHighSide`, `rrcRecvDCCH`; `read`, `write` |
| Memory of SDUs and PDUs | `Utilities/ByteVector.*` | a block with a reference count, shared by vectors | `init`, `dup`, `segment`, `clear` |
| MAC engine, application | `MAC/MACEngine.cpp`, `src/Sample App/UMTS-RLC.cpp` | threads | `flushUE`, `macTX`, `macDCCHRX` |
| Channel configuration | `RRC/Configs/*`, `Ue/RBInfo.*` | `gRrcDcchConfig`, transport formats and their combinations, bearers | `rrcInitCommonCh`, `configRachTrCh`, `configFachTrCh`, `rrcConfigDchCS`, `computeDlRlcSize` |

### How they interact

Three kinds of thread enter an RLC entity. An RRC thread writes SDUs on the high side; they
are queued under `mQLock`. The MAC transmit thread (`macTX`) goes round for ever over the UEs and
their bearers and reads one PDU at a time on the low side; for an AM entity that is
`readLowSidePdu2`, under `mAmLock`, which chooses among an acknowledgement of a reset, a RESET,
a status report, a retransmission, a new PDU filled from the SDU queue and the repetition of the
last PDU for the sake of its poll bit. The MAC receive thread (`macDCCHRX`) writes received PDUs
on the low side, under `mAmLock` too: a data PDU goes into the reception window and what is then
in sequence is reassembled and handed up; a control PDU goes to the transmitting half of the same
entity. The two halves share flags: the receiver sets `mStatusTriggered`, a reset clears both.
Timers are polled: no thread waits for them, `expired()` is asked by the next read.

What is handed up goes through an `InterthreadQueue` to the threads that wait in `rrcRecvDCCH`. SDUs
and PDUs are `ByteVector`s, handed from thread to thread by pointer; two vectors may share a block
of memory, which belongs to whichever is cleared last. That is so of an SDU that `rrcSendDCCH`
writes, whose argument shares it until the function returns, and of an AM PDU that is sent, whose
original stays in `mPduTxQ`.

### What is hard

* **Two windows and a lossy link.** The transmitter frees a PDU when it believes that it arrived,
  the receiver discards one it believes it has had. Both are numbers modulo 4096 compared by
  `deltaSN`.
* **Status reports in parts.** A report that does not fit into a PDU goes on in the next one,
  while data keep arriving in between.
* **Lost polls, lost status, lost resets.** Each is repeated by a timer, and a repetition may
  cross the answer to the first try.
* **Resets.** They empty both windows at different times at the two ends, in the middle of an SDU.
* **Pointers kept across calls.** `mVSNack` is computed by one call and dereferenced by another.
* **Threads over shared lists** in RRC and UE, with partial locking.
* **Shared memory**: reference counts that several threads change with no lock, and a queue whose
  readers may be woken for nothing or find that another took the item.

`PROJECT.json` lists every such hazard at its line, with the properties that guard it.

### What makes each component correct

* AM transmitter: it never uses a PDU that is not there, never overwrites one that is not
  acknowledged, keeps within the window, and does not stop while something is unacknowledged.
* AM receiver: the next PDU expected is missing, `mVRR <= mVRH`, a report never acknowledges what
  is missing.
* A pair of AM entities: SDUs arrive whole, once, in order, all of them; after a reset the windows
  fit each other again.
* Segmentation: what `parsePduData` reassembles from `fillPduData`'s PDUs is what was written.
* UM: a lost PDU loses whole SDUs and never joins two of them.
* SDU buffer: bounded, the counters agree with what is sent.
* UE and RRC: a UE in use is not deleted, one RNTI names one UE.
* Bearers of a UE: a pair shared by the slots of two states is deleted once, with the last slot.
* Uplink delivery: every SDU is read once, in order, and its memory freed; no reader waits for
  ever while there is one.
* Memory: a vector never points to a block that was deleted, and the last one deletes it.
* Channel configuration: a PDU and its MAC header fit the transport block, the block its radio
  frames, a length in the PDU its indicator; a CTFC names one combination.

## 2. The modules

| Module | What it is |
|---|---|
| `SeqNum` | arithmetic of sequence numbers, with `Span` (what a loop over numbers visits) and `Nearest` (where it stops) |
| `AmTransmitter` | the transmitting half: four records `Source`, `Window`, `Polling`, `Control`; one operator per member function, mapping records to records |
| `AmReceiver` | the receiving half: records `Rx` and `Upper`, written the same way |
| `RlcAm` | two entities and the link between them: the state machine |
| `SduService` | abstract specification: what an AM bearer promises while there is no reset |
| `RlcAmProperties` | the properties, and the refinement mapping to `SduService` |
| `MCRlcAm` | configurations and SDUs for TLC |
| `RlcSegment` | segmentation and reassembly by octets: `fillPduData`, `parsePduData` and the SDU queue, as operators on records |
| `RlcStream` | one direction of a UM or AM bearer, octet by octet, with the threads on both sides of `mQLock`: the state machine |
| `SduStream` | abstract specification: SDUs are handed up whole, in order, once; all of them if the bearer is lossless |
| `RlcStreamProperties` | the properties, and the refinement mapping to `SduStream` |
| `MCRlcStream` | bearers for TLC |
| `UeRegistry` | the list of UEs, their contexts and RLCs, and the threads that set up, purge, look up and flush UEs: the state machine |
| `UeRegistryProperties` | the properties |
| `MCUeRegistry` | UEs for TLC |
| `TrCh` | transport channels: block sizes from spreading factors, transport formats, combinations and their CTFC |
| `RlcConfig` | bearers, the master configurations that put them on transport channels, and the RLC pair built from both |
| `UeBearers` | the RLC pairs of one UE in its two sets of slots: the state machine |
| `UeBearersProperties` | the properties |
| `MCUeBearers` | channels and addresses for TLC |
| `ByteVector` | the memory of vectors: one operator per member function, with the load and the store of a count as separate steps |
| `PointerFIFO` | the linked list with its pool of nodes: operators from list to list |
| `InterthreadQueue` | the list under its lock, with the signal and the readers that wait |
| `DcchThreads` | the four threads around a TM or UM bearer, its memory and its queues: the state machine |
| `DcchThreadsAm` | the same around an AM bearer, where `mPduTxQ` and macTX share memory |
| `SduHandOver` | abstract specification: RRC takes what RLC sent up, once, in order |
| `DcchThreadsProperties` | the properties, and the refinement mapping to `SduHandOver` |
| `MCDcchThreads`, `MCDcchThreadsAm` | threads and queues for TLC |
| `RlcAmProofs`, `RlcAmWindowProofs`, `RlcAmDeliveryProofs`, `RlcAmServiceProofs`, `RlcStreamProofs`, `UeRegistryProofs`, `UeBearersProofs`, `DcchThreadsProofs` | theorems and proofs |

### State and code

A variable of `RlcAm` maps each entity to a record whose fields are the member variables of the
C++ classes, under their names. `source`, `win`, `poll` and `ctl` make up `URlcTransAm`; `recv` and
`upper` make up `URlcRecvAm`; `link[e]` is the sequence of PDUs on their way to `e`. `written`,
`losses` and `triggers` are history and bounds. Fields that differ from the member they stand for:
timers are `off`, `running` or `expired`; `mResetReceived` stands for `mResetRecvCount # 0`;
`mPduRxQ` and `mPduTxQ` hold what a PDU means instead of its octets.

`RlcStream` is the other view: one direction, its PDUs octet by octet. An octet is the pair of the
SDU it belongs to and its place in it, so that what is handed up shows where it came from. `tx` has
the members of `URlcTransAmUm` and `URlcTrans`, `rx` those of `URlcRecvAmUm`, and `mVTUS`, `mVRUS`
are those of the UM halves. `reader` says whether the MAC thread is between `pdusFinished` and
`fillPduData`, where `mQLock` is free. `air` holds the PDUs between the two ends; `lost`,
`written`, `dropped` and `damaged` are history. No constructor sets `mLostPdu` of a UM receiver, so
it starts with either value.

The two views fit together by what they take for granted: `RlcAm` shows that PDUs reach
`parsePduData` in sequence, without loss or repetition, and `RlcStream` starts from there in AM.
The link between the two is stated here and not by a third module.

`UeRegistry` is above both: it says which RLCs exist and who may be inside one. `mUEList` is a
sequence of addresses and `heap` says what is at each, so that a pointer to a deleted UE and an
address used twice can be told from a good pointer. `mUEListLock` is the thread that holds the
lock. `rrc`, `caller` and `mac` are where each thread is, with the UE or iterator it holds; a caller
is `stale` once the UE it points to has been deleted. `late`, `doomed` and `spared` are history.

`UeBearers` looks at one UE of `UeRegistry` closer. `mRlcs` holds the slots of both states,
`mRlcsCF` and `mRlcsCDch`, as addresses in `heap`, so that two slots may have one pair;
`connecting` and `index` are where the loop of `ueConnectRlc` is. `gRrcDcchConfig` is the
configuration `rrcInitCommonCh` makes; the one of CELL_DCH is the constant `rrcConfigDchCS`.
`frames` is history: the radio frames the formats were made for.

`DcchThreads` is below the others: the bearer is reduced to the SDUs and PDUs it takes and gives,
and what counts is who holds them. `mData`, `refcnt` and `heap` are the memory; `call` is where each
thread is inside `incRefCnt` or `clear`. `mQ` is the list of each queue, `waiting` the readers blocked
in `pthread_cond_wait`, `reading` and `retVal` where each reader is in `read()`. `pc` is where the RLC
and MAC threads are. `sent` and `taken` are history, as is `madeFor`. A queue is one of `Queue`, and
`CopyOf` says which one each source file means by `gRrcUplinkQueue`. Bearers in TM are voice bearers,
whose uplink goes to `gSgsnUplinkQueue`; nobody reads that.

### Actions and code

| Action | Code |
|---|---|
| `RlcWriteHighSide` | `URlcTrans::rlcWriteHighSide` |
| `TriggerReset` | `URlcTransAm::triggerReset` |
| `ReadResetAck`, `ReadReset`, `ReadStatus`, `ReadRetransmission`, `ReadNewData`, `ReadPollOnly` | the PDUs `readLowSidePdu2` may return, each guarded by the early returns before it |
| `ReceiveData` | `URlcRecvAm::rlcWriteLowSide`, data PDU |
| `ReceiveStatus` | `processSUFIs` |
| `ReceiveReset`, `ReceiveResetAck` | `URlcAm::recvResetPdu`, `recvResetAck` |
| `RstTimerExpires`, `PollTimerExpires` | time passing for a `Z100Timer` |
| `LosePdu` | the radio link |

A read or a write of the low side is one step because both hold `mAmLock` throughout.

| Action of `RlcStream` | Code |
|---|---|
| `rlcWriteHighSideAny` | `URlcTrans::rlcWriteHighSide`, with the discard when the buffer is full |
| `ReadLowSideChecks` | `pdusFinished`, asked by `readLowSidePdu` |
| `ReadLowSideFills`, `ReadLowSideAsserts` | `fillPduData` under `mQLock`, and its `assert(0)` when the queue is empty by then |
| `WriteLowSide` | `URlcRecvUm::rlcWriteLowSide`; in AM the call of `parsePduData` |
| `Lose` | the radio link, in UM |

| Action of `UeRegistry` | Code |
|---|---|
| `SetupFindsUe`, `SetupNewUe`, `SetupEnds` | `URlc::rrcSendRRCConnectionSetup`, in the thread `rrcRxCCCH` |
| `PurgeStarts`, `PurgeLooks`, `PurgeDeletes`, `PurgeEnds` | the loop of `Rrc::purgeUEs`, one turn at a time |
| `addUE`, `ueConnectRlc` | the rest of `Rrc::addUE`; a turn of the loop of `UEInfo::ueConnectRlc` |
| `FindStarts`, `FindLooks` | the loop of `Rrc::findUe`, called by `macPushUpRXDCCH` and `rrcSendDCCH` |
| `ueRegisterActivity`, `UsesRlc` | `UEInfo::ueWriteLowSide` and `ueWriteHighSide` |
| `UsesDeletedUe` | either of them with a pointer to a UE that is gone: undefined, the model stops |
| `FlushStarts`, `FlushReads`, `FlushEnds` | `flushUE`, in the thread `macTX` |
| `GrowsInactive` | 300 s without activity (`UMTS_Timers_Inactivity_Delete`) |

| Action of `UeBearers` | Code |
|---|---|
| `rrcInitCommonCh` | the function, with `configRachTrCh`, `configFachTrCh` and the three bearers |
| `NewUe`, `Purge` | the constructor of `UEInfo`; the end of a UE in `Rrc::purgeUEs`, which disconnects CELL_FACH alone |
| `ueConnectRlc`, `ConnectEnds` | the call and the return |
| `SkipBearer`, `KeepBearer`, `CopyBearer`, `AllocateBearer` | a turn of its loop: no such bearer, "leave previously configured RBs alone", the pair of the other state, a new `URlcPair` |
| `ueDisconnectRlc` | the function |

| Action of `DcchThreads` | Code |
|---|---|
| `rrcSendDCCH`, `NewDownSdu`, `PushSdu`, `DcchReturns` | `URlc::rrcSendDCCH` from the vector it makes to the one it drops, with `rlcWriteHighSide` in it |
| `ReadTm`; `ReadUm`, `FillUm` | `URlcTransTm::rlcReadLowSide`; `URlcTransUm::readLowSidePdu` |
| `SendPdu` | `flushUE` copies the octets and deletes the PDU |
| `NewUpSdu`, `discardPartialSdu` | an SDU is begun (`addUpSdu`, `URlcRecvTm::rlcWriteLowSide`), or thrown away |
| `rlcSendHighSide`, `SignalsRead` | `rlcSendHighSide`: `write()` under the lock, then the signal |
| `Reads`, `ReturnsSpuriously`, `rrcRecvDCCH` | `read()` and the rest of `URlc::rrcRecvDCCH` |
| `Memory` | the store of a count, and `delete[]` |
| `ReadAm`, `FillAm`, `ReadAmAgain`, `CopyPdu`, `UnlockTx` (`DcchThreadsAm`) | `readLowSidePdu`, which holds `mAmLock`: a new PDU or one from `mPduTxQ`, and its duplicate |
| `LogPdu`, `LogEnds` | the segment `rlcReadLowSide` makes to print the header |
| `DeletePdu`, `UnlockRx` | `advanceVTA`, called by `rlcWriteLowSide`, which holds `mAmLock` |

### Abstractions

* An SDU is an identity, a length in PDUs and whether it fills its last PDU exactly. A PDU carries
  octets of one SDU; the code packs several short SDUs into one PDU, which is what `RlcStream`
  models.
* A status PDU is the set of numbers its LIST SUFIs name, the first of them and the LSN of the ACK
  SUFI. `mStatusRanges` is how many ranges fit; the code computes it from the PDU size.
* The buffer limit of `RlcAm` is in SDUs; `RlcStream` has it in octets.
* `RlcStream` takes the size of length indicators from the bearer (`libytes`); the code derives it
  from the PDU size, with a threshold of 126 octets, which would make PDUs too long for TLC.
* Left out of `RlcSegment`: `mDiscarded` and `mSN_Delivery`, the branches of
  `mAltEBitInterpretation`, which nothing sets, and length indicators that `fillPduData` never
  writes. A PDU is its
  length indicators and its data octets; bit packing is not modelled.
* A bearer in `ToHandset` has a receiver that is not this code: it drops the spare octet that the
  quoted standard tells receivers to ignore. Everything else it does is what `parsePduData` does.
* The counters compared by `IsPollTriggered` are natural numbers, not modulo 4096.
* `deltaSN`, `%`, the one-bit RSN field and the folding at half the space are exact.
* A UE has one name in `UeRegistry`, a number and the number of its NodeB: the application gives a
  UE the same number as URNTI and CRNTI. What an RLC does with a PDU or an SDU is in the other two
  models. `mUeState` stays `stIdleMode` and `ueConnectRlc` is only called for `stCELL_FACH`, so
  that `mRlcsCDch` is always empty and left out.
* `GrowsInactive` takes it that a thread does not need 300 s to use a UE once it has registered
  activity, or to set one up. It assumes nothing of the time between the look-up and the
  registration.
* The address of a new UE is fixed by its name while it is free (`AddressOf`): which one it is makes
  no difference to any property.
* Nothing in the repository calls `ueConnectRlc` or `ueDisconnectRlc` for `stCELL_DCH`.
  `UeBearers` takes those calls as the interface `UEInfo` offers, one finished before the next.
  `isNewState` is constantly false, so that the branches that delete `prev` cannot be reached.
* The pair of a purged UE that is in a CELL_DCH slot leaks, as in the code; `heap` forgets it when
  the next UE is made, and `SlotsOwnPairs` speaks of a UE that exists.
* Of `URlcInfo` a bearer keeps its two modes; of a channel, rate matching, coding and power are
  left out.
* In `DcchThreads` an SDU is one PDU, and its octets are not modelled. A step is what a thread does
  between two accesses that another thread can see: what it does under `mLock` of a queue is one step,
  and so is each load, each store and each `delete[]`. The segment made for printing is left out in UM,
  where the PDU is macTX's own until it is sent. The transmission buffer does not overflow; that is
  in `RlcStream`. `mHighSideFunc`, a hook of tests, and `RLC_STOP` are left out.
* `NewBlock`, and the node `allocate` takes, are chosen by `CHOOSE`: which free one it is makes no
  difference.
* SUFIs that this code reads and never writes (WINDOW, BITMAP, RLIST, MRW) are left out: both ends
  of the model run this code. In the field the other end is a handset.

## 3. The runs

| Run | Question | Instance |
|---|---|---|
| `am_window` | do the windows stay nested and the pointers valid? | 8 numbers, window 3 (the largest below half), 9 PDUs so that the numbers wrap, 2 losses, reports of one range |
| `am_live` | is the SDU service implemented and does everything get through? | 6 numbers, window 2, 4 SDUs of the three shapes, 2 losses, fairness |
| `am_reset` | do resets end and leave a working connection? | 6 numbers, 2 SDUs, 2 resets by the test hook besides those by mMaxDAT = 2, 2 losses |
| `am_rsn` | refuted: the last RESET's acknowledgement ends the procedure | 3 resets, nothing lost |
| `am_poll_window` | refuted: everything is delivered, with SDUs longer than the window | 2 SDUs of 4 and 5 PDUs, window 3, 1 loss (a report for PDUs in sequence), fairness |
| `stream` | are SDUs cut up and put together again, whatever the sizes and, in UM, whatever is lost? | 10 bearers: UM with PDUs of 4 to 6 octets and buffers of 100, 9 and 4 octets, AM with 4 to 6 octets and short indicators, AM with 7 to 9 octets and long ones; 3 SDUs of 1, 2, 3, 4, 5 or 9 octets; 4 numbers, fewer losses in a row than numbers; fairness |
| `ues` | do the threads get on with each other over the list of UEs? | 4 names, of which 2 are looked up by a caller; 2 bearers; 4 addresses |
| `bearers` | do the slots of two states share pairs safely, and do the sizes fit? | RACH at spreading factor 32, FACH at 16, 64, 128 and 256; blocks of 360 and 160 bits; 2 addresses a bearer |
| `uplink` | is memory neither lost nor used after it was freed, and does every uplink SDU reach RRC? | 2 readers, TM and UM, 3 SDUs in both directions together, 6 blocks, 3 nodes, one queue; fairness |
| `uplink_static` | refuted: every uplink SDU reaches RRC, with the queue as its header declares it | 1 reader, 1 SDU, fairness |
| `pdu_memory` | refuted: no vector of an AM bearer points to deleted memory | 1 SDU |
| `stream_shared` | refuted: every SDU on the shared RLC of CCCH gets through unless its PDUs are lost | UM, 2 SDUs |

The properties are stated in `RlcAmProperties`, `RlcStreamProperties`, `UeRegistryProperties`,
`UeBearersProperties` and `DcchThreadsProperties`, each with the code it is about. `WindowsNested` is
the heart of the protocol: `mVTA <= mVRR <= mVRH <= mVTS`, and what the receiver misses the
transmitter holds. It relates the records of two entities that only talk through a lossy link.

**Bounds.** `MaxSdus`, `MaxInFlight`, `MaxLosses` and `MaxTriggers` are named constants in the
guards of `RlcAm`. Two PDUs in flight are enough for data to overtake an answer; two losses are
enough to lose an item and its repetition; a gap, a second gap beyond it and a report that holds
one range only appear with a window of 3. Data flow in one direction: each entity has both
halves and what flows back is control, so the halves of the other two directions add states and
no interaction but the sharing of the control flags.

In `stream` the sizes make an SDU end before, at and one octet short of the end of a PDU, let a
PDU hold several SDUs, and let an SDU span several PDUs; three SDUs are one that is cut, one in
the middle of a PDU and one after it. Two PDUs in flight are enough because the order is kept.
Losses of `mSNS` PDUs in a row are excluded: a UM receiver cannot tell them from none.

In `ues` three UEs on the list can be dead when a fourth is added, which is what it takes to see
which of them a purge steps over, and one name is left for a second purge with the first one's
address free. One caller stands for both callers: they share nothing but the UEs.

**What `ues` shows.** The code comments call a purge "a fine time to purge the UE list of any dead
UEs" (`RRC/URRC.cpp:205`). It may leave one: after an erase the iterator is set to the first UE and
the loop steps over it. `PurgeLeavesAtMostOne` and `NoUeSparedTwice` say how far that goes.
`ActivityProtects` says what makes the missing lock of `findUe` bearable, and its `late` says where
that ends: between the look-up and `ueRegisterActivity` nothing protects the caller, and
`UsesDeletedUe` is reachable.

In `bearers` the code asks `configFachTrCh` for blocks of 360 bits; `configurations.h` has the
spreading factors 32 and 64. Other spreading factors of SCCPCH are other builds. A block of 360
bits gives FACH PDUs of 42 octets where DCH has 17, so the two states would never share a pair: the
second size, 160 bits, gives 17 and makes them share. Two addresses a bearer are enough for the
pairs of two states. RACH is kept at 32: with a larger factor `FormatsFit` fails, because
`configRachTrCh` adds a format of two blocks whatever the size (its limit `ulMaxTBs` is commented
out). `LiCoversPdu` shows that the indicators of seven bits `URlcConfigUm` has for every PDU size are
enough for the blocks this configuration makes.

In `uplink` the application has one thread in `rrcRecvDCCH`; two let one take what the other was woken
for. Three SDUs in all let the list go empty and be filled from its pool again, and let a downlink
SDU be written while the one before it is freed. The blocks and nodes are as many as there can be
at a time and more, so that no step waits for one. `OnlyDownSdusLeak` is not what one would like, it
is what the code gives: an SDU written by `rrcSendDCCH` leaks when macTX frees it while the function
returns (both load the count 2 and store 1). It cannot be freed twice; `VectorsOwnMemory` says so.

`CHECK_DEADLOCK` is off in the other runs because the system
does stop, when everything is delivered or an entity has given up.

**Fairness.** `macTX` calls the low side read of every bearer for ever
(`src/Sample App/UMTS-RLC.cpp:29-33`, `MACEngine::flushUE`), `macDCCHRX` writes whatever comes and a
timer that runs runs out. So there is weak fairness on the read of each entity, on taking a PDU off
its link (received, or one of the few that are lost) and on each timer. Fairness of the read is
written with `ReadDue`, which says when a read changes the state; it is `ENABLED` written out. No
fairness is assumed of upper layers or of `triggerReset`. `RlcStream` has weak fairness on the check
of the read, on its end once `mQLock` is free, and on a PDU leaving the air, for the same reasons.
`DcchThreads` has weak fairness on the signal after a write, on each reader and on the steps inside a
`ByteVector`: threads that run. None is assumed of spurious wake-ups or of which reader a signal
wakes.

**What the code does not keep.** Five runs expect a violation, of a property taken from a comment of
the repository; `findings` in `PROJECT.json` quotes it. The passing runs keep clear of them by
their constants: fewer than three resets, bearers that are not shared, SDUs shorter than the
window where liveness is asked (one that fills its last PDU exactly counts one more), one queue, TM
and UM bearers.
`NeverAborts` holds up to the limit it states: an SDU longer than the whole buffer ends the program
(`stream` has the bearer). Other constants show more, with no run of their own:

* `am_reset` with `Tester = {b}`, so that the receiving end starts the reset: `DeliveredInOrder` fails.
  It goes on accepting data until the RESET_ACK comes, and when that one is lost takes PDUs the
  peer numbers anew for old ones (`URlcTransAm.cpp:390`). With `Tester = {a, b}` resets cross and
  `TransmitWindow` fails.
* `am_live` with a periodic poll timer and no other trigger (`RBInfo::defaultConfigRlcAmPs`): nothing is
  ever acknowledged, because that timer is set only when it has expired (`URlcTransAm.cpp:332`).
* `stream` with a bearer of long indicators that is not in `ToHandset`: `ImplementsStream` fails,
  because `parsePduData` takes the spare octet after an SDU (`URlcTransAmUm.cpp:222`) for the next SDU's.
* `MissingPduDetected` compares with one number too many (`URlcRecvAm.cpp:283`), as the code does:
  exactly one lost PDU triggers no report, while PDUs in sequence trigger one. `am_live` shows that
  polls make up for the first. The second is what keeps a window without a poll moving, and what
  `am_poll_window` refutes rests on it: the PDUs of the window arrive in sequence, nothing is missing,
  and the report they trigger is the one PDU lost. With losses of data PDUs alone
  `EverythingDelivered` holds in that instance, because a report still comes; with the test written
  as `sn # mVRH` it fails with nothing lost, because none does.
* `stalled` with a window of half the number space or more (`URlcTransAm.cpp:353`, whose FIXME says so):
  `deltaSN` folds before the window is full. `ConfigAssumption` leaves such windows out, for the runs
  and for the theorems; the windows of `RBInfo.cpp` are 64, 128 and 2047 of 4096 numbers.

## 4. The proofs

### The acknowledged-mode entities

For every number space, configuration, set of SDUs and bound that satisfies the assumptions
`SNSAssumption`, `ConfigAssumption`, `SduAssumption`, `NullAssumption` and `LinkAssumption`:

| Theorem | What it states |
|---|---|
| `SpecTypeOK`, `SpecNackPointerValid`, `SpecNextPduMissing` | `Spec => []P` |
| `SpecCalm` | `Spec => [](NeverReset => TransmitWindow /\ ReceiverConsistent /\ WindowsNested)` |
| `SpecTransmitWindow`, `SpecReceiverConsistent`, `SpecWindowsNested` | `OneWay(a)` gives `Spec => []P` |
| `SpecCalmDelivered` | `Spec => [](NeverReset => DeliveredInOrder)` |
| `SpecDeliveredInOrder` | `OneWay(a)` gives `Spec => []DeliveredInOrder` |
| `SpecImplementsService` | `Spec /\ [](NeverReset /\ RoomLeft) => ImplementsService` |
| `SpecImplementsServiceInRoom` | `MaxSdus < mTransmissionBufferSdus` gives `Spec /\ []NeverReset => ImplementsService` |

The first part of `RlcAmProofs` has one lemma per operator of the two halves, the rest of it and the
other three modules one per action.
The loops over numbers are `CHOOSE`s of a least or greatest element; `NatMin` and `NatMax` show
that it exists.

**One entity** (`RlcAmProofs`). The first three are proved together. `TypeOK` is not inductive: a
step that repeats the PDU at `mVSNack` keeps `mPduTxQ` well-formed only if there is a PDU. `Inv` is
their conjunction. The NACK pointer is good because each operation that can spoil it ends in the
scan `advanceVS`, clears the flag or empties the window, and because a new PDU is only stored when
no NACK is waiting; none of that depends on what the other end sends. `NextPduMissing` rests on
`InSequenceMaximal`: the run of PDUs taken off the queue cannot be extended.

**Two windows** (`RlcAmWindowProofs`). The code compares numbers modulo `mSNS`, which says something
only of numbers less than half of it apart. So everything is measured as a distance from the
sender's `mVTA`, `Pos`, and the invariant, `Aligned`, is about integers: `0 <= Pos(mVRR) <= Pos(mVRH)
<= Pos(mVTS)`, the window is at most its size, which is below half of the number space
(`ConfigAssumption`), each PDU stored or under way is one of the window or at most one window old, and
each status report under way acknowledges nothing the receiver lacks and asks for nothing the sender
has let go. The properties are short after that. When `mVTA` moves, every distance shifts alike;
that is what most of the lemmas on distances are for. With both ends sending,
each direction has its own `Aligned`, and the entities share only the link.
`SpecCalm` covers `am_window` and `am_live` up to the first RESET.

**Resets** (second half of `RlcAmWindowProofs`). Between the arrival of a RESET and that of its acknowledgement one
end has empty windows and numbers from zero and the other has not, and old data, status reports,
RESETs and acknowledgements are still under way. `OneWayInv` is the disjunction of two states of both
ends together: `Before` (they agree, and a RESET under way is new to the receiver only if it is the one
waited for) and `After` (the receiver has reset, nothing it gets is data, and what it sent before is
ignored by a sender that waits for the acknowledgement). The bit of the RSN at both ends
tells them apart, so that a RESET or an acknowledgement repeated from an earlier reset is never taken for
the one of this. `OneWay(a)` says that only `a` writes SDUs and that `triggerReset` is called on no other end, as the
constants of `am_reset` do. The theorems are false without it: see "What the code does not keep" for the other end
resetting, and for both.

**Delivery** (`RlcAmDeliveryProofs`). The sender's SDUs are one stream, cut into PDUs; `TextOk` says that
each PDU of the window stands for a piece of it and that the next one goes on where it ends,
the last one where the source (`SourceOk`: the buffer, the split SDU and `mLILeftOver`) will
go on. `HeardOk`: the receiver stores, and is still to get, the same pieces under the same numbers;
that needs `Aligned`, or a number would not mean one PDU. `UpperAt`: what was handed up is SDUs in
order, and the half SDU in `mRecvSdu` and the promise of an indicator in the next PDU are what the
stream has before `mVRR`. Together they are `Flows`, kept by each action. While a reset is half done
there is no stream: `WaitingOk` keeps the order and that the receiver holds no half SDU, and
`WaitingFlows` starts a new stream from it, of what is left in the sender's buffer.

**Service** (`RlcAmServiceProofs`). `Flows` does not say that anything arrives at all. `Complete` does: each
SDU written has been handed up, or some PDU from `mVRR` on or the source still has its octets or the mark of
its end. A status report must not let such a PDU go; `KeepsRest` says that what leaves the window is
its beginning, and `Aligned` that the receiver is past it. With order and
completeness the n-th SDU handed up is the n-th written (`AllHanded`), which makes the refinement
mapping exact, and each step of the entities is one of `SduService` or leaves what it speaks of unchanged
(`ServiceStep`). The refinement is of its safety; `EverythingDelivered`, its liveness, is checked by
`am_live`. The hypotheses are both needed: a reset drops the PDUs not yet acknowledged, and
`rlcWriteHighSide` the oldest SDUs of a full buffer. `RoomLeft` says that this does not happen; it is an
invariant when the buffer holds more SDUs than are written, as in the runs.

### Segmentation and reassembly

For every size of SDU and PDU, any number of SDUs and of PDUs in flight, and every set of bearers
that satisfies `StreamAssumption` (a PDU holds both indicators that can come before its first
octet, those of seven bits are used for sizes they can tell, and UM has no others),
`RlcStreamProofs` proves of `RlcStream`:

* `SpecTypeOK`, `SpecPdusFull`, `SpecNoPartialSduWhenLost`, `SpecNeverAborts`: `Spec => []P` for each
  of the four invariants of `stream`.

`fillPduData` and `parsePduData` loop over sequences, and the octets of several SDUs come together in
`FlattenSeq`. The model has them as recursive functions, `CHOOSE f : f = ... f ...`, of which nothing
follows before one is known to exist: `FlattenExists`, `PlacingExists` and `CuttingExists` extend
the function for n elements to n + 1. What holds of the values is then shown from one to the next
(`UpTo`, which is a least counterexample, since the theorems of the library on induction
cannot be instantiated).

`PlacedOk` is the invariant of the first loop: octets free, octets of SDUs and octets of indicators
add up to the PDU, and each way to leave the loop (an SDU that goes on in the next PDU, one that fills
this one exactly, one that is an octet short of it) leaves the number of octets free it must. `Filled` adds
the padding, which is `PdusFull`. `CutOk` is that of the second: the receiver knows of a
loss only until the first length indicator, after which there is nothing left of a PDU unless the loss is
over. With it the receiver is `Clean` after each PDU, which is `NoPartialSduWhenLost`.

`StreamInv` puts the rest together. `SomethingToSend` is what `NeverAborts` needs while the lock is free:
`WriteIs` says that `rlcWriteHighSide` drops as few SDUs as fit, so that all are gone only if the new one
alone does not fit. `SdusKept` makes `TypeOK` inductive: the transmitter's SDUs are apart from
each other and from those dropped, so that when the mark of an end is still to be told some SDU
is neither waiting nor dropped, and `About` names one.

### The other components

For every set of names, bearers and callers and every number of UEs that satisfy
`RegistryAssumption`, `UeRegistryProofs` proves of `UeRegistry`:

* `SpecTypeOK`, `SpecOneUePerName`, `SpecFlushSeesUes`, `SpecRlcsBelongToUes`,
  `SpecActivityProtects`: `Spec => []P` for each of the five invariants of `ues`.

They are the parts of one inductive invariant, `IInv`, with three more. `LockHeld`: a thread inside
holds the lock, which keeps `purgeUEs` and `addUE` away while `flushUE` is on its way, and with it
`FlushSeesUes`. `RrcPlace`: until it is added, the new UE has a name no UE on the list has, which
`OneUePerName` needs at `addUE`; it stays so because only `rrcRxCCCH` adds. `CallerPlace`: the UE of
a caller that registered in time is neither inactive nor the one about to be deleted;
`ActivityProtects` alone does not see the deletion coming. `OneUePerName` in turn makes addresses on
the list distinct, so that erasing one removes exactly its RLCs. There is one lemma per action;
`RemoveAtRange` says what is left of a sequence when one element is erased.

For every set of spreading factors, block sizes and addresses that satisfies `AddressAssumption` and
`SpreadingAssumption` (a spreading factor is one `sf2tier` knows, a size is a natural number),
`UeBearersProofs` proves of `UeBearers`:

* `SpecTypeOK`, `SpecSlotsOwnPairs`, `SpecMaxRlcCoversSlots`, `SpecBearersMatchConfig`:
  `Spec => []P`;
* `SpecConnectKeepsBearers`: `Spec => ConnectKeepsBearers`, an action property;
* `SpecPdusFitBlocks`, `SpecTfcsWellFormed`: `Spec => []P`;
* `SpecLiCoversPdu`: `Spec => []LiCoversPdu` if blocks of 48 to 1031 bits are asked for. With 1032 a
  PDU of UM has 126 octets, and its indicators have seven bits whatever its size. The code asks for
  360 bits;
* `SpecFormatsFit`: `Spec => []FormatsFit` if the factor of RACH is at most 32, for the reason given
  under "What `ues` shows"; for any factor of SCCPCH.

`IInv` adds `InOrder`: the configuration is there before a UE, and a UE before it is connected.
`BearersMatchConfig` needs `SlotsOwnPairs`, because a new pair must not take the place of one in
use, and `ConfigOK`: in both configurations a bearer has one mode for both directions. That is what
makes the comparison of `ueConnectRlc` enough, which looks at the downlink mode alone.

The other four rest on two more invariants: `Configured`, once there is a configuration it is the one
`rrcInitCommonCh` makes of its arguments, and `LisFit`, the indicators of a pair are those of its
mode and size. What is left is arithmetic. `EncodedMonotone`: coding more bits never gives fewer, also
where one more code block starts. `Decoded`: the loop of `R2DecodedSize` ends and returns the
largest size, up to the estimate it starts from, that fits, so that its assertion holds. `SearchExists`
shows first that the recursive function that stands for the loop exists, by naming it; `SearchFinds`
that any such function is the one named, by its least counterexample. `quantizeRlcSize` only rounds
down, from 48 on (`Quantized`), and a radio frame always has room for 48 bits with their parity
(`FachBlock`). `FourDigits` reads a CTFC off as a number in mixed radix.

For every number of readers, blocks, nodes and SDUs, and every set of queues and modes that
satisfies `ThreadAssumption`, `DcchThreadsProofs` proves of `DcchThreads`:

* `SpecTypeOK`: `Spec => []TypeOK`;
* `SpecImplementsHandOver`: `Spec => ImplementsHandOver`, the whole of the refinement;
* `SpecVectorsOwnMemory`, `SpecOnlyDownSdusLeak`: `Spec => []P`.

`QueueInv` says that the list RRC reads holds the SDUs sent to it and not yet taken
(`QueueHolds`): some sequence of distinct nodes runs from `mHead` to `mTail`, and the pool of
released nodes is apart from it and does not fork. Without it nothing keeps `get`, which decrements
`mSize` with no check, at or above zero, so that `TypeOK` alone is not inductive. `PutHolds` and
`GetHolds` are the lemmas about `put` and `get`; the step lemma of the refinement is short after
them. It holds whichever queue is written to: with a queue per file nothing is ever taken, which
is safe and, as `uplink_static` shows, not live.

`MemoryInv` says who may share memory and what each count is: a block belongs to one vector, or to
the local vector of `rrcSendDCCH` and one SDU; its count is the number of them, except while a
store is pending; a thread that read one has the only vector. That two threads may both read two,
and neither delete, is where the memory is lost that `OnlyDownSdusLeak` allows. `PlaceInv` says
which vectors each thread may be using, from where it is: an SDU is `rrcTxDCCH`'s until it is
pushed and macTX's after that, an uplink SDU is `macDCCHRX`'s until it is sent and then of the one
reader that took it, which needs the first part. There is one lemma per operation on memory and one
per action. What `DcchThreadsAm` adds is not covered: there `VectorsOwnMemory` fails (`pdu_memory`).

### Only model-checked

How many UEs a purge leaves; liveness, which TLAPS cannot prove; and `ImplementsStream`, that what
`parsePduData` puts together is what `fillPduData` took apart. The lemmas on the two loops are a
start: what is missing is what the indicators of a PDU say of the octets behind them, and it needs
hypotheses (32 indicators in a PDU at most, bearers that are not shared, a handset at the other end when
indicators have two octets).

## 5. Plan

1. done: `SeqNum`, `AmTransmitter`, `AmReceiver`, `RlcAm`, `SduService`, three proved invariants.
2. done: `RlcSegment` and `RlcStream` with `SduStream`: segmentation and reassembly in AM and UM,
   loss in UM, overflow of the SDU buffer and the two threads at `mQLock`; its invariants proved.
3. done: `ByteVector`, `PointerFIFO`, `InterthreadQueue`, `DcchThreads`, `DcchThreadsAm` with
   `SduHandOver`: memory and queues between the threads, TM bearers; for TM and UM the invariants
   and the refinement proved.
4. done: `UeRegistry`: `findUe`, `addUE`, `purgeUEs`, connect and disconnect, from several threads,
   its invariants proved.
5. done: `TrCh`, `RlcConfig`, `UeBearers`: channels, sizes and pairs of the two states of a UE, its
   invariants proved. To do: the MAC loop over bearers.
6. A transmitter open to any status report.
7. Proofs. Done: the windows of both ends and delivery in order, with and without resets; the
   refinement of `SduService`; the sizes of blocks and PDUs; the invariants of `RlcStream`. To do:
   the refinement of `SduStream`.

## 6. Not modelled, and why

Logging and text dumps are data without behaviour; so are rate matching, power and the ASN forms of
the configuration. Ciphering numbers
(`mULHFN`, `mDLHFN`) are counted and never used. `mPduOutQ` stays empty because nothing calls
`uePullLowSide`. Real durations are left out: a timer that runs may run out at any time. Transport
block coding of MAC converts data. The `std::queue` of CCCH PDUs (`URlc.cpp:70-78`) is used by two
threads with no lock at all, and what comes of that is the library's. The operations of the queue
templates that nothing calls, and the UE pointer in an uplink message, are left out.
