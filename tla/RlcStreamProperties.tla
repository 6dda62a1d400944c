------------------------- MODULE RlcStreamProperties -------------------------
(***************************************************************************)
(* What must be true of segmentation and reassembly, in every mode and for *)
(* every size of SDU and PDU.                                              *)
(***************************************************************************)
EXTENDS RlcStream

\* Where the octets handed up come from: the SDU they are, whole, or 0.
PlaceOf(octets) ==
  IF \E i \in DOMAIN written : octets = Whole(i)
  THEN CHOOSE i \in DOMAIN written : octets = Whole(i) ELSE 0

Stream == INSTANCE SduStream WITH
  lossless <- (mConfig.rlcMode = "AM"),
  count <- Len(written),
  handed <- [i \in DOMAIN rx.sent |-> PlaceOf(rx.sent[i])]

\* What fillPduData cuts up parsePduData puts together: an SDU is handed up
\* whole or not at all, in order, once, never joined with octets of another;
\* in AM none is missing.  In UM this holds whatever is lost.  With
\* indicators of two octets it holds of bearers ToHandset: the octet left
\* over behind the end of an SDU is "padded by the sender and ignored by the
\* Receiver" (URlcTransAmUm.cpp:222), while the parsePduData of this code
\* would take it for the next SDU's.
ImplementsStream == Stream!Spec

\* A PDU is filled to its last octet by length indicators, data and padding:
\* the arithmetic of `remaining` (URlcTransAmUm.cpp:19-167) accounts for each
\* octet, with and without an indicator carried over from the PDU before.
PdusFull ==
  \A i \in DOMAIN air :
    LET pdu == air[i].pdu
    IN  Len(pdu.vli) * mConfig.libytes + Len(pdu.data) = mConfig.payload

\* While PDUs are known to be missing there is no partial SDU (assertion at
\* URlcRecvAmUm.cpp:198), or its octets would be joined with later ones.
NoPartialSduWhenLost == rx.mLostPdu => rx.mUpSdu = NoSdu

\* fillPduData finds something to send: what pdusFinished saw is not gone
\* although the lock is free in between and the buffer may overflow ("Caller
\* prevents this by checking pdusFinished first", URlcTransAmUm.cpp:45).  It
\* is true as long as no SDU is longer than the whole buffer.
NeverAborts ==
  reader = "aborted" =>
    \E i \in DOMAIN written : written[i] > mConfig.mTransmissionBufferSizeBytes

\* Every SDU gets through unless a PDU that carries part of it, or the mark
\* of its end, is lost, or the buffer overflows before it is sent.  In
\* particular its end is told even when nothing else is to be sent
\* (URlcTransAmUm.cpp:34-46) and the loss of its neighbours does it no harm.
\* The run stream_shared refutes it for the RLC of CCCH.
SduSettled(i) ==
  \/ i \in dropped \cup damaged
  \/ \E k \in DOMAIN rx.sent : PlaceOf(rx.sent[k]) = i

EverySduSettled ==
  \A i \in 1 .. MaxSdus :
    (i \in DOMAIN written) ~> (SduSettled(i) \/ reader = "aborted")
=============================================================================
