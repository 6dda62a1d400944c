------------------------------ MODULE RlcConfig ------------------------------
(***************************************************************************)
(* Radio bearers (RBInfo), the master configurations that put them on      *)
(* transport channels, and the RLC pair that is built from both.  Of the   *)
(* many parameters of a bearer only those are kept that decide which pair  *)
(* it gets: the modes, the transport channel, and the sizes.               *)
(***************************************************************************)
EXTENDS TrCh

gsMaxRB == 16                \* bearers are numbered 0 .. 15
RbIds == 0 .. gsMaxRB - 1

(***************************************************************************)
(* Sizes.                                                                  *)
(***************************************************************************)
\* Bits of MAC header: bearer 0 is CCCH, the others are DCCH or DTCH.
macHeaderSize(tctype, rbid, multiplexing) ==
  CASE rbid = 0 /\ tctype = "RACH" -> 2
    [] rbid = 0 /\ tctype = "FACH" -> 8
    [] rbid # 0 /\ tctype \in {"UlDCH", "DlDCH"} -> IF multiplexing THEN 4 ELSE 0
    [] rbid # 0 /\ tctype \in {"RACH", "FACH"} -> 2 + 2 + 16 + 4

\* Octets of a downlink PDU.  badComputeDlRlcSize forgets the MAC header.
badComputeDlRlcSize(rb, dltfs) ==
  IF rb.dlMode = "TM" THEN 0 ELSE getMaxTBSize(dltfs) \div 8
computeDlRlcSize(rb, dltfs) ==
  IF rb.dlMode = "TM" THEN 0
  ELSE LET dltc == dltfs.mTrChPtr
           dlmacbits == macHeaderSize(dltc.mTransportChType, rb.mRbId, dltc.mTcIsMultiplexed)
       IN  (getMaxTBSize(dltfs) - dlmacbits) \div 8

\* URlcConfigAmUm: the bits of a downlink length indicator.
mDlLiSizeBits(mode, pduSize) == IF mode = "AM" /\ pduSize > 126 THEN 15 ELSE 7

(***************************************************************************)
(* Bearers.                                                                *)
(***************************************************************************)
\* The constructor: mRbId = -1 marks a bearer that is not configured.
RBInfo == [mRbId |-> -1, ulMode |-> "TM", dlMode |-> "TM", mTrChAssigned |-> 0]
valid(rb) == rb.mRbId >= 0

WithModes(rb, mode) == [rb EXCEPT !.ulMode = mode, !.dlMode = mode]
rb_Identity(rb, rbid) == [rb EXCEPT !.mRbId = rbid]
setTransportChannelIdentity(rb, id) == [rb EXCEPT !.mTrChAssigned = id - 1]
defaultConfigSrbRlcAm(rb) == WithModes(rb, "AM")

\* Bearers 1 to 3 on RACH and FACH.
defaultConfig0CFRb(rbn) ==
  LET rb == rb_Identity(RBInfo, rbn)
  IN  IF rbn = 1 THEN WithModes(rb, "UM") ELSE defaultConfigSrbRlcAm(rb)

\* Bearers of a voice call: 1 to 3 on channel 4, and 5, 6, 7 on 1, 2, 3.
defaultConfig3Rb(rbn) ==
  LET rb == rb_Identity(RBInfo, rbn)
      mode == CASE rbn = 1 -> "UM" [] rbn \in {2, 3} -> "AM" [] rbn \in 5 .. 7 -> "TM"
  IN  setTransportChannelIdentity(WithModes(rb, mode), IF rbn <= 3 THEN 4 ELSE rbn - 4)

(***************************************************************************)
(* Master configurations.                                                  *)
(***************************************************************************)
\* setSRB and setRB, and what each bearer of rbs is configured to be.
setRBs(rbs, bearers, trChs) ==
  [mRB |-> [rbid \in RbIds |-> IF rbid \in rbs THEN bearers[rbid] ELSE RBInfo],
   mNumRB |-> Max(rbs) + 1,
   mTrCh |-> trChs]
EmptyConfig ==
  [mRB |-> [rbid \in RbIds |-> RBInfo], mNumRB |-> 0, mTrCh |-> [ul |-> <<>>, dl |-> <<>>]]
getDlTfs(config, tcid) == config.mTrCh.dl.mChInfo[tcid + 1].mTfs

\* What rrcInitCommonCh makes gRrcDcchConfig; the code asks for 360 bits.
DcchConfig(rachSF, fachSF, fachTBSize) ==
  setRBs(1 .. 3, [rbid \in 1 .. 3 |-> defaultConfig0CFRb(rbid)],
         [ul |-> configRachTrCh(rachSF, TTI10ms, 16, 260),
          dl |-> configFachTrCh(fachSF, TTI10ms, 12, fachTBSize)])

rrcConfigDchCS ==
  LET rbs == {1, 2, 3, 5, 6, 7}
  IN  setRBs(rbs, [rbid \in rbs |-> defaultConfig3Rb(rbid)], defaultConfig3TrCh)

(***************************************************************************)
(* URlcPair: the entities of a bearer.                                     *)
(***************************************************************************)
URlcPair(rb, dltfs) ==
  LET pduSize == computeDlRlcSize(rb, dltfs)
  IN  [live |-> TRUE, mUp |-> rb.ulMode, mDown |-> rb.dlMode,
       mDlPduSizeBytes |-> pduSize, mDlLiSizeBits |-> mDlLiSizeBits(rb.dlMode, pduSize)]
Deleted ==
  [live |-> FALSE, mUp |-> "TM", mDown |-> "TM", mDlPduSizeBytes |-> 0, mDlLiSizeBits |-> 7]
=============================================================================
