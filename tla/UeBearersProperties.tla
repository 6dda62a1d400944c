------------------------- MODULE UeBearersProperties -------------------------
(***************************************************************************)
(* What must hold of the bearers of a UE and of the channels under them.   *)
(***************************************************************************)
EXTENDS UeBearers

Live(rbid) == {a \in Addresses : heap[rbid][a].live}
Filled(state) == {rbid \in RbIds : mRlcs[state][rbid] # Null}
PairIn(state, rbid) == heap[rbid][mRlcs[state][rbid]]

\* The slots, the loop of ueConnectRlc and mUeMaxRlc keep their types.
TypeOK ==
  /\ inited \in BOOLEAN /\ exists \in BOOLEAN
  /\ mRlcs \in [States -> [RbIds -> Addresses \cup {Null}]]
  /\ mUeMaxRlc \in RbIds
  /\ DOMAIN heap = RbIds /\ \A rbid \in RbIds : DOMAIN heap[rbid] = Addresses
  /\ connecting \in States \cup {Nobody}
  /\ connecting = Nobody => index = 0
  /\ connecting # Nobody => index \in 1 .. config(connecting).mNumRB

\* While the UE exists, the pairs of a bearer that exist are exactly those in
\* its slots: no slot points to a deleted pair, no pair is out of reach, after
\* any connecting and disconnecting of the two states (UEInfo.cpp:196-315).
SlotsOwnPairs ==
  exists => \A rbid \in RbIds :
              Live(rbid) = {mRlcs[state][rbid] : state \in States} \ {Null}

\* flushUE and uePullLowSide go round the bearers up to mUeMaxRlc, also in the
\* middle of ueConnectRlc: they miss no bearer that is connected.
MaxRlcCoversSlots ==
  \A state \in States : \A rbid \in Filled(state) : rbid <= mUeMaxRlc

\* A connected bearer has the modes and the PDU size of the configuration of
\* the state it is used in, also where the pair was made for the other state.
BearersMatchConfig ==
  exists => \A state \in States : \A rbid \in Filled(state) :
    LET info == config(state).mRB[rbid] IN
    /\ valid(info)
    /\ PairIn(state, rbid).mUp = info.ulMode /\ PairIn(state, rbid).mDown = info.dlMode
    /\ PairIn(state, rbid).mDlPduSizeBytes
         = computeDlRlcSize(info, getDlTfs(config(state), info.mTrChAssigned))

\* A PDU of a connected bearer and its MAC header fit in a transport block of
\* the downlink channel the bearer is on, and leave less than an octet of it.
PdusFitBlocks ==
  exists => \A state \in States : \A rbid \in Filled(state) :
    LET channel == config(state).mTrCh.dl.mChInfo[config(state).mRB[rbid].mTrChAssigned + 1]
        header == IF state = "CELL_FACH" THEN 24 ELSE IF channel.info.mTcIsMultiplexed THEN 4 ELSE 0
        bits == 8 * PairIn(state, rbid).mDlPduSizeBytes + header
    IN  PairIn(state, rbid).mDown # "TM" =>
          getMaxTBSize(channel.mTfs) - bits \in 0 .. 7

\* A length indicator of the size configured tells every length a segment can
\* have in the PDU; the values from 124, or 32764, on have other meanings.
LiCoversPdu ==
  exists => \A state \in States : \A rbid \in Filled(state) :
    LET pair == PairIn(state, rbid)
        overhead == IF pair.mDown = "AM" THEN 2 ELSE 1
    IN  pair.mDown # "TM" =>
          pair.mDlPduSizeBytes - overhead - (pair.mDlLiSizeBits + 1) \div 8
            < 2 ^ pair.mDlLiSizeBits - 4

\* Every format of FACH and RACH, with its parity bits and coded at rate 1/2,
\* fits in the radio frames of its transmission time interval.
Fits(tfs, frameSize) ==
  \A i \in DOMAIN tfs.mDynamic :
    LET bits == tfs.mDynamic[i].mNumTB * (tfs.mDynamic[i].mTBSize + tfs.mCRCSize)
    IN  R2EncodedSize(bits) <= frameSize * getTTINumFrames(tfs)
FormatsFit ==
  inited =>
    /\ Fits(gRrcDcchConfig.mTrCh.ul.mChInfo[1].mTfs, frames.ul)
    /\ Fits(gRrcDcchConfig.mTrCh.dl.mChInfo[1].mTfs, frames.dl)

\* The CTFC tells the combinations of a link apart, has the number of bits
\* announced for it, and is what checkCTFC asserts.
WellFormed(list) ==
  /\ IsInjective([i \in DOMAIN list.mTfcList |-> list.mTfcList[i].mCTFC])
  /\ \A i \in DOMAIN list.mTfcList :
       /\ list.mTfcList[i].mCTFC = list.mTfcList[i].check
       /\ list.mTfcList[i].mCTFC < 2 ^ list.mCtfcSize
TfcsWellFormed ==
  inited => \A state \in States :
    WellFormed(config(state).mTrCh.ul) /\ WellFormed(config(state).mTrCh.dl)

\* Connecting again, as rrcSendRRCConnectionSetup does for a UE that is known,
\* leaves the bearers alone that are connected, with the pairs they had.
ConnectKeepsBearers ==
  [][connecting # Nobody =>
       \A state \in States : \A rbid \in Filled(state) :
         /\ mRlcs'[state][rbid] = mRlcs[state][rbid]
         /\ heap'[rbid][mRlcs[state][rbid]] = PairIn(state, rbid)]_vars
=============================================================================
