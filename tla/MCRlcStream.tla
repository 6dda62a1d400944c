----------------------------- MODULE MCRlcStream -----------------------------
(***************************************************************************)
(* Instances of RlcStream for TLC: bearers with PDUs of a few octets, so   *)
(* that SDUs end at, before and beyond every place of a PDU.               *)
(***************************************************************************)
EXTENDS RlcStreamProperties

Bearer(mode, payload, libytes, buffer) ==
  [ rlcMode |-> mode, payload |-> payload, libytes |-> libytes,
    mIsSharedRlc |-> FALSE, mTransmissionBufferSizeBytes |-> buffer ]

\* UM with a buffer that never overflows, with one that two SDUs overflow,
\* and with one that a single SDU overflows.
UmBearers ==
  {Bearer("UM", 4, 1, 100), Bearer("UM", 6, 1, 100),
   Bearer("UM", 5, 1, 9), Bearer("UM", 5, 1, 4)}

\* AM with indicators of one octet and, as PDUs of more than 126 octets have
\* them, of two.
AmBearers == {Bearer("AM", payload, 1, 100) : payload \in 4 .. 6}
LongLiBearers == {Bearer("AM", payload, 2, 100) : payload \in 7 .. 9}

AllBearers == UmBearers \cup AmBearers \cup LongLiBearers

SharedBearer == {[Bearer("UM", 5, 1, 100) EXCEPT !.mIsSharedRlc = TRUE]}
=============================================================================
