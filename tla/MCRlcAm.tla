------------------------------ MODULE MCRlcAm ------------------------------
(***************************************************************************)
(* Instances of RlcAm for TLC: the configurations RBInfo builds, with a    *)
(* small window and number space, and the SDUs the upper layer writes.     *)
(***************************************************************************)
EXTENDS RlcAmProperties

\* RBInfo::defaultConfigSrbRlcAm: poll after every SDU, Timer_Poll, poll with
\* the last retransmission, missing-PDU indicator.
SrbConfig(window, maxDat, maxRst) ==
  [ mConfigured_Tx_Window_Size |-> window, mMaxDAT |-> maxDat, mMaxRST |-> maxRst,
    mPollPdu |-> 0, mPollSdu |-> 1,
    mTimerPoll |-> TRUE, mTimerPollProhibit |-> FALSE, mTimerPollPeriodic |-> FALSE,
    mLastTransmissionPduPoll |-> FALSE, mLastRetransmissionPduPoll |-> TRUE,
    mStatusDetectionOfMissingPDU |-> TRUE,
    mTransmissionBufferSdus |-> 100, mStatusRanges |-> 2 ]

\* The largest window deltaSN tells from an empty one with eight numbers, and
\* status reports that hold a single range of missing PDUs.
WindowConfig == [SrbConfig(3, 100, 1) EXCEPT !.mStatusRanges = 1]

LiveConfig == SrbConfig(2, 100, 1)

\* Retransmitting a PDU once is enough for MaxDAT.
ResetConfig == SrbConfig(2, 2, 3)

RsnConfig == SrbConfig(2, 100, 3)

\* Nine PDUs in two SDUs, each longer than a window of three: the numbers wrap
\* around.
LongSdus == { [id |-> 1, pdus |-> 4, exact |-> TRUE],
              [id |-> 2, pdus |-> 5, exact |-> FALSE] }

\* Each SDU has one shape: one PDU, two PDUs, or one PDU exactly filled.
SduShape(i) == [id |-> i, pdus |-> IF i % 3 = 2 THEN 2 ELSE 1, exact |-> i % 3 = 0]
Sdus2 == {SduShape(i) : i \in 1 .. 2}
Sdus3 == {SduShape(i) : i \in 1 .. 3}
Sdus4 == {SduShape(i) : i \in 1 .. 4}
=============================================================================
