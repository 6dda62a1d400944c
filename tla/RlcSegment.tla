----------------------------- MODULE RlcSegment -----------------------------
(***************************************************************************)
(* Segmentation and reassembly by octets, as AM and UM share it: the SDU   *)
(* queue of URlcTrans, fillPduData of URlcTransAmUm and parsePduData of    *)
(* URlcRecvAmUm.  c is the configuration of the bearer, t the state of the *)
(* transmitter, r that of the receiver; an operator named after a C++      *)
(* function maps a state to the one it leaves.                             *)
(*                                                                         *)
(* An octet is <<i, n>>, the n-th octet of the i-th SDU written, or Fill.  *)
(* A PDU is what follows the header: length indicators and octets.  The E  *)
(* bits say only where the length indicators end, as the sequence does.    *)
(* Left out are mSN_Delivery, mAltEBitInterpretation and the discard       *)
(* marker mDiscarded, which nothing in the repository ever sets, and the   *)
(* length indicators of the alternative E bit and of piggy-backed status,  *)
(* which fillPduData does not write.                                       *)
(***************************************************************************)
EXTENDS Integers, SequencesExt

CONSTANT NoSdu   \* a NULL URlcDownSdu or URlcUpSdu pointer

Octet == (Nat \ {0}) \X (Nat \ {0})
Fill == <<0, 0>>
SduData == Seq(Octet) \ {<<>>}

Config ==
  [ rlcMode : {"AM", "UM"},
    payload : Nat,                      \* octets of a PDU after its header
    libytes : {1, 2},                   \* mDlLiSizeBytes and mUlLiSizeBytes
    mIsSharedRlc : BOOLEAN,
    mTransmissionBufferSizeBytes : Nat ]

LiTx == 100   \* places of vli in fillPduData
LiRx == 32    \* length indicators parsePduData keeps

\* A field of libytes octets without its E bit (appendLIandE).
Field(c, li) == li % (IF c.libytes = 1 THEN 128 ELSE 32768)

ExactLI   == 0       \* the previous PDU was filled exactly
ShortLI   == 32763   \* 0x7ffb: one octet of the previous PDU was left over
StartLI   == 32764   \* 0x7ffc: the first octet here starts an SDU
PaddingLI == 32767   \* 0x7fff: the rest is padding

Transmitter ==
  [ mSduTxQ : Seq(SduData), mSplitSdu : SduData \cup {NoSdu},
    mLILeftOver : 0 .. 2, mVTSDU : Nat, mVTPDU : Nat ]

Receiver ==
  [ mUpSdu : Seq(Octet \cup {Fill}) \cup {NoSdu}, mLostPdu : BOOLEAN,
    sent : Seq(Seq(Octet \cup {Fill})) ]   \* what rlcSendHighSide was given

transInit == [ mSduTxQ |-> <<>>, mSplitSdu |-> NoSdu,
               mLILeftOver |-> 0, mVTSDU |-> 0, mVTPDU |-> 0 ]

-----------------------------------------------------------------------------
(* The SDU queue.                                                          *)

InProgress(t) == IF t.mSplitSdu = NoSdu THEN <<>> ELSE <<t.mSplitSdu>>

totalSize(sdus) == Len(FlattenSeq(sdus))

getSduCnt(t) == Len(InProgress(t) \o t.mSduTxQ)

\* Wrong on purpose, like every definition whose name starts with bad: the
\* mark of an SDU's end that is still to be sent is forgotten.
badPdusFinished(t) == getSduCnt(t) = 0

pdusFinished(t) == getSduCnt(t) = 0 /\ t.mLILeftOver = 0

\* Wrong on purpose: a full buffer overflows.
badOverflows(c, sdus) == totalSize(sdus) >= c.mTransmissionBufferSizeBytes

Overflows(c, sdus) == totalSize(sdus) > c.mTransmissionBufferSizeBytes

\* The oldest SDUs are thrown away, as few as make the rest fit the buffer,
\* and none while an SDU is in progress.  The last of them is not counted.
rlcWriteHighSide(c, t, sdu) ==
  LET q == Append(t.mSduTxQ, sdu)
      Fits(n) == ~Overflows(c, SubSeq(q, n + 1, Len(q)))
      dropped == IF t.mSplitSdu # NoSdu THEN 0
                 ELSE CHOOSE n \in 0 .. Len(q) :
                        Fits(n) /\ \A m \in 0 .. n - 1 : ~Fits(m)
  IN  [t EXCEPT !.mSduTxQ = SubSeq(q, dropped + 1, Len(q)),
                !.mVTSDU = @ + (IF dropped = 0 THEN 0 ELSE dropped - 1)]

-----------------------------------------------------------------------------
(* fillPduData.  The loop over the SDUs computes, in f, the octets still   *)
(* free in the PDU, the length indicators, the number of SDUs the PDU has  *)
(* octets of, and how many of the last one's if that does not end here.    *)

EndMark(left) == IF left = 1 THEN ExactLI ELSE ShortLI

\* The indicators before the first SDU: the end of the previous one, or in
\* UM the start of a new one.
FirstMark(c, left, newSdu) ==
  IF left # 0 THEN <<EndMark(left)>>
  ELSE IF newSdu /\ c.rlcMode = "UM" THEN <<StartLI>>
  ELSE <<>>

\* The SDU is one octet short of the PDU and an indicator has two octets.
Short(c, room, size) == c.libytes = 2 /\ size = room - 1

\* Wrong on purpose: the indicator is written but not counted.
badFreeAfter(c, room, size) == IF size >= room THEN 0 ELSE room - size

\* The octets left when an SDU of size octets goes into room octets.
FreeAfter(c, room, size) ==
  IF size >= room THEN 0
  ELSE IF Short(c, room, size) THEN 1 ELSE room - c.libytes - size

\* An SDU of size octets goes next into the PDU.  It spills over the end of
\* the PDU, fills it, is one octet short of it with no room for a length
\* indicator of two octets, or is ended by a length indicator here.
PlaceSdu(c, f, size) ==
  IF f.full THEN f ELSE
  LET room == f.remaining
      short == Short(c, room, size)
      marked == size < room /\ ~short
      left == FreeAfter(c, room, size)
      vli == IF marked THEN Append(f.vli, size) ELSE f.vli
  IN  [ remaining |-> left, vli |-> vli, sducnt |-> f.sducnt + 1,
        sdufinalbytes |-> IF size > room THEN room ELSE 0,
        mLILeftOver |-> IF size = room THEN 1 ELSE IF short THEN 2 ELSE 0,
        full |-> left <= c.libytes \/ Len(vli) = LiTx ]

\* A shared RLC sends one SDU at a time.
Eligible(c, t) ==
  LET all == InProgress(t) \o t.mSduTxQ
  IN  IF c.mIsSharedRlc /\ all # <<>> THEN <<all[1]>> ELSE all

StartsNewSdu(t) == t.mSplitSdu = NoSdu /\ t.mSduTxQ # <<>>

EmptyPdu(c, t) ==
  LET marks == FirstMark(c, t.mLILeftOver, StartsNewSdu(t))
  IN  [ remaining |-> c.payload - Len(marks) * c.libytes, vli |-> marks,
        sducnt |-> 0, sdufinalbytes |-> 0, mLILeftOver |-> 0, full |-> FALSE ]

Placed(c, t) ==
  LET sdus == Eligible(c, t)
      f[n \in 0 .. Len(sdus)] ==
        IF n = 0 THEN EmptyPdu(c, t) ELSE PlaceSdu(c, f[n - 1], Len(sdus[n]))
  IN  f[Len(sdus)]

\* The state afterwards and the PDU.  The caller has seen that there is
\* something to send; otherwise the function asserts (URlcTransAmUm.cpp:45).
fillPduData(c, t) ==
  LET f == Placed(c, t)
      padded == f.remaining >= c.libytes
      vli == f.vli \o (IF padded THEN <<PaddingLI>> ELSE <<>>)
      unused == f.remaining - (IF padded THEN c.libytes ELSE 0)
      all == InProgress(t) \o t.mSduTxQ
      split == f.sdufinalbytes > 0
      whole == IF split THEN f.sducnt - 1 ELSE f.sducnt
      rest == SubSeq(all, f.sducnt + 1, Len(all))
      last == IF split THEN all[f.sducnt] ELSE <<>>
  IN  [ trans |->
          [ mSduTxQ |-> rest,
            mSplitSdu |-> IF split THEN SubSeq(last, f.sdufinalbytes + 1, Len(last))
                          ELSE NoSdu,
            mLILeftOver |-> f.mLILeftOver,
            mVTSDU |-> t.mVTSDU + whole, mVTPDU |-> t.mVTPDU + 1 ],
        pdu |->
          [ vli |-> [i \in DOMAIN vli |-> Field(c, vli[i])],
            data |-> FlattenSeq(SubSeq(all, 1, whole))
                       \o SubSeq(last, 1, f.sdufinalbytes)
                       \o [i \in 1 .. unused |-> Fill] ] ]

-----------------------------------------------------------------------------
(* parsePduData.                                                           *)

addUpSdu(r, octets) ==
  [r EXCEPT !.mUpSdu = IF @ = NoSdu THEN octets ELSE @ \o octets]

sendSdu(r) == [r EXCEPT !.sent = Append(@, r.mUpSdu), !.mUpSdu = NoSdu]

\* Wrong on purpose: what came before the loss stays.
badDiscardPartialSdu(r) == r

discardPartialSdu(r) == [r EXCEPT !.mUpSdu = NoSdu]

ChopOneByteOffSdu(r) ==
  IF r.mUpSdu \in {NoSdu, <<>>} THEN r ELSE [r EXCEPT !.mUpSdu = Front(@)]

\* The first length indicator says that an SDU starts with the PDU.
StartSdu(c, r, li) ==
  LET chopped == IF li = ShortLI THEN ChopOneByteOffSdu(r) ELSE r
      found == [chopped EXCEPT !.mLostPdu = FALSE]
  IN  IF found.mUpSdu = NoSdu THEN found ELSE sendSdu(found)

\* Wrong on purpose: the rest of an SDU whose start is lost is handed up.
badEndSdu(r, segment) == sendSdu(addUpSdu([r EXCEPT !.mLostPdu = FALSE], segment))

\* The segment ends its SDU; the next one starts in this PDU.
EndSdu(r, segment) ==
  IF r.mLostPdu THEN [r EXCEPT !.mLostPdu = FALSE]
  ELSE sendSdu(addUpSdu(r, segment))

\* One turn of the loop: the segment that length indicator li ends.
CutSegment(c, s, li) ==
  IF s.end THEN s ELSE
  IF li = Field(c, PaddingLI)
  THEN [s EXCEPT !.payload = <<>>, !.end = TRUE]
  ELSE LET len == IF li > Len(s.payload) THEN Len(s.payload) ELSE li
       IN  [ recv |-> EndSdu(s.recv, SubSeq(s.payload, 1, len)),
             payload |-> SubSeq(s.payload, len + 1, Len(s.payload)),
             end |-> li > Len(s.payload) ]

parsePduData(c, r, pdu) ==
  IF pdu.vli = <<>>
  THEN IF r.mLostPdu THEN r ELSE addUpSdu(r, pdu.data)
  ELSE LET vli == SubSeq(pdu.vli, 1, Min({LiRx, Len(pdu.vli)}))
           starts == vli[1] \in {ExactLI, ShortLI, Field(c, StartLI)}
           lis == IF starts THEN Tail(vli) ELSE vli
           s[n \in 0 .. Len(lis)] ==
             IF n = 0
             THEN [ recv |-> IF starts THEN StartSdu(c, r, vli[1]) ELSE r,
                    payload |-> pdu.data, end |-> FALSE ]
             ELSE CutSegment(c, s[n - 1], lis[n])
           last == s[Len(lis)]
       IN  IF last.payload = <<>> THEN last.recv ELSE addUpSdu(last.recv, last.payload)
=============================================================================
