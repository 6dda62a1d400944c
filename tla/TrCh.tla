-------------------------------- MODULE TrCh --------------------------------
(***************************************************************************)
(* Transport channels: how many bits a transport block of RACH and FACH    *)
(* may have, the transport formats of each channel (RrcTfs), and their     *)
(* combinations (RrcTfcs) with the number CTFC that names one.             *)
(* Rate matching, power offsets and coding rates are left out.             *)
(***************************************************************************)
EXTENDS Integers, SequencesExt

ZConvolutional == 504  \* largest block for the convolutional coder

\* Size of Xi bits after rate 1/2 coding, in Ci blocks of the same size Ki.
R2EncodedSize(Xi) ==
  LET Ci == (Xi + ZConvolutional - 1) \div ZConvolutional
      Ki == IF Ci = 0 THEN 0 ELSE (Xi + Ci - 1) \div Ci
  IN  Ci * (2 * Ki + 16)

\* How many bits may be coded into Yi: the loop goes down from an estimate.
R2DecodedSize(Yi) ==
  LET Ci == 1 + (Yi - 1) \div (2 * ZConvolutional + 16)
      estimate == (Yi - Ci * 16) \div 2
      best[Ki \in 0 .. estimate] == IF R2EncodedSize(Ki) > Yi THEN best[Ki - 1] ELSE Ki
  IN  best[estimate]

(***************************************************************************)
(* Radio frames.                                                           *)
(***************************************************************************)
\* Bits of data in a slot, for the slot formats 0, 1, ... of SCCPCH.
SlotInfoSccpch ==
  <<20, 12, 18, 10, 40, 32, 38, 30, 72, 64, 152, 144, 312, 296, 632, 616, 1272, 1256>>
\* The slot format chosen at each tier, and the tier of a spreading factor;
\* sf2tier asserts that it is one of these.
SlotInfoSccpchByTier == <<16, 14, 12, 10, 8, 6, 2>>
SpreadingFactors == {4, 8, 16, 32, 64, 128, 256}
sf2tier(sf) == CHOOSE tier \in 0 .. 6 : sf = 2 ^ (tier + 2)
getDlSlotFormat(sf) == SlotInfoSccpch[1 + SlotInfoSccpchByTier[1 + sf2tier(sf)]]

gFrameSlots == 15
gFrameLen == 38400
getDlRadioFrameSize(sf) == gFrameSlots * getDlSlotFormat(sf)
UlRadioFrameSize(sf) == gFrameLen \div sf

TTI10ms == 0
TTICode2NumFrames(ttiCode) == 2 ^ ttiCode
TTICode2TTI(ttiCode) == 10 * TTICode2NumFrames(ttiCode)

(***************************************************************************)
(* One channel: what it is (TrChInfo), and its formats (RrcTfs), which     *)
(* point back to what they belong to.                                      *)
(***************************************************************************)
setTrCh(type, id, multiplexed, rbid) ==
  [mTransportChType |-> type, mTransportChannelIdentity |-> id,
   mTcIsMultiplexed |-> multiplexed, mTcRbId |-> rbid]
addTF(size, blocks) == [mTBSize |-> size, mNumTB |-> blocks]
RrcTfs(info, tti, crcSize, formats) ==
  [mTrChPtr |-> info, mTTI |-> tti, mCRCSize |-> crcSize, mDynamic |-> formats]
defineTrCh(info, tti, crcSize, formats) ==
  [info |-> info, mTfs |-> RrcTfs(info, tti, crcSize, formats)]

\* The formats are copied together with the pointer to the uplink channel.
copyUplink(dlChannel, ulChannel) == [dlChannel EXCEPT !.mTfs = ulChannel.mTfs]

getNumTF(tfs) == Len(tfs.mDynamic)
getTTINumFrames(tfs) == tfs.mTTI \div 10
getMaxTBSize(tfs) == Max({tfs.mDynamic[i].mTBSize : i \in DOMAIN tfs.mDynamic})

(***************************************************************************)
(* The channels of one link, and their combinations.  A combination takes  *)
(* one format of each channel, by its index from 0; its CTFC is a number   *)
(* in mixed radix, the first channel the lowest digit.                     *)
(***************************************************************************)
\* badSetTfc gives every digit the weight one.
badSetTfc(channels, tfi) == FoldLeft(LAMBDA sum, digit : sum + digit, 0, tfi)
setTfc(channels, tfi) ==
  LET ctfc[ch \in 1 .. Len(channels)] ==
        tfi[ch] + IF ch = Len(channels) THEN 0
                  ELSE getNumTF(channels[ch].mTfs) * ctfc[ch + 1]
  IN  ctfc[1]

\* addTFC and checkCTFC: the combination, its CTFC, the CTFC asserted of it.
addTFC(channels, tfi, check) ==
  [mTfList |-> tfi, mCTFC |-> setTfc(channels, tfi), check |-> check]
TrChList(channels, ctfcSize, combinations) ==
  [mChInfo |-> channels, mCtfcSize |-> ctfcSize,
   mTfcList |-> [i \in DOMAIN combinations |->
                   addTFC(channels, combinations[i][1], combinations[i][2])]]

(***************************************************************************)
(* The configurations.                                                     *)
(***************************************************************************)
\* The sizes a common channel may have, and the largest of them up to tbsize.
CommonSizes == {48 + 8 * n : n \in 0 .. 31} \cup {312 + 16 * n : n \in 0 .. 63}
                 \cup {1384 + 64 * n : n \in 0 .. 56}
quantizeRlcSize(tbsize) ==
  IF tbsize <= 48 THEN 48 ELSE Max({size \in CommonSizes : size <= tbsize})

\* The size asked for (TBSize, 0 if any) if a radio frame has room for it.
RequestedSize(maxTBSize, TBSize) ==
  quantizeRlcSize(IF TBSize = 0 \/ maxTBSize < TBSize THEN maxTBSize ELSE TBSize)

\* RACH: formats of one block and of two.
configRachTrCh(ulSF, ulTTICode, ulPB, TBSize) ==
  LET total == UlRadioFrameSize(ulSF) * TTICode2NumFrames(ulTTICode)
      size == RequestedSize(R2DecodedSize(total) - ulPB, TBSize)
      channel == defineTrCh(setTrCh("RACH", 1, TRUE, 0), TTICode2TTI(ulTTICode), ulPB,
                            <<addTF(size, 1), addTF(size, 2)>>)
  IN  TrChList(<<channel>>, 2, <<<<<<0>>, 0>>, <<<<1>>, 1>>>>)

FachTrChs(size, ttiCode, pb) ==
  LET channel == defineTrCh(setTrCh("FACH", 1, TRUE, 0), TTICode2TTI(ttiCode), pb,
                            <<addTF(size, 0), addTF(size, 1)>>)
  IN  TrChList(<<channel>>, 2, <<<<<<0>>, 0>>, <<<<1>>, 1>>>>)

\* FACH: an empty format and one block.  badFachSize takes no account of the
\* parity bits, badConfigFachTrCh none of the size asked for.
badFachSize(dlSF, dlTTICode, dlPB, TBSize) ==
  LET total == getDlRadioFrameSize(dlSF) * TTICode2NumFrames(dlTTICode)
  IN  FachTrChs(RequestedSize(R2DecodedSize(total), TBSize), dlTTICode, dlPB)
badConfigFachTrCh(dlSF, dlTTICode, dlPB, TBSize) ==
  LET total == getDlRadioFrameSize(dlSF) * TTICode2NumFrames(dlTTICode)
  IN  FachTrChs(RequestedSize(R2DecodedSize(total) - dlPB, 0), dlTTICode, dlPB)
configFachTrCh(dlSF, dlTTICode, dlPB, TBSize) ==
  LET total == getDlRadioFrameSize(dlSF) * TTICode2NumFrames(dlTTICode)
  IN  FachTrChs(RequestedSize(R2DecodedSize(total) - dlPB, TBSize), dlTTICode, dlPB)

\* Voice: three channels of one bearer each, and one that the SRBs share.
defaultConfig3TrCh ==
  LET ul == <<defineTrCh(setTrCh("UlDCH", 1, FALSE, 5), 20, 12,
                         <<addTF(81, 0), addTF(39, 1), addTF(81, 1)>>),
              defineTrCh(setTrCh("UlDCH", 2, FALSE, 6), 20, 0, <<addTF(103, 0), addTF(103, 1)>>),
              defineTrCh(setTrCh("UlDCH", 3, FALSE, 7), 20, 0, <<addTF(60, 0), addTF(60, 1)>>),
              defineTrCh(setTrCh("UlDCH", 4, TRUE, 0), 40, 16, <<addTF(144, 0), addTF(144, 1)>>)>>
      Empty(id, multiplexed, rbid) == defineTrCh(setTrCh("DlDCH", id, multiplexed, rbid), 0, 0, <<>>)
      dl == <<defineTrCh(setTrCh("DlDCH", 1, FALSE, 5), 20, 12,
                         <<addTF(1, 0), addTF(39, 1), addTF(81, 1)>>),
              copyUplink(Empty(2, FALSE, 6), ul[2]),
              copyUplink(Empty(3, FALSE, 7), ul[3]),
              copyUplink(Empty(4, TRUE, 0), ul[4])>>
      combinations == <<<<<<0, 0, 0, 0>>, 0>>, <<<<1, 0, 0, 0>>, 1>>, <<<<2, 1, 1, 0>>, 11>>,
                        <<<<0, 0, 0, 1>>, 12>>, <<<<1, 0, 0, 1>>, 13>>, <<<<2, 1, 1, 1>>, 23>>>>
  IN  [ul |-> TrChList(ul, 6, combinations), dl |-> TrChList(dl, 6, combinations)]
=============================================================================
