------------------------------ MODULE UeBearers ------------------------------
(***************************************************************************)
(* The RLC pairs of one UE.  A UE has two sets of slots, one for the state *)
(* CELL_FACH and one for CELL_DCH; a bearer whose mode and PDU size are    *)
(* the same in both has one pair in both slots.  ueConnectRlc fills the    *)
(* slots of a state bearer by bearer, while macTX may read them, so each   *)
(* bearer is a step; ueDisconnectRlc empties them.                         *)
(*                                                                         *)
(* Setting a UE up connects it in CELL_FACH, again if it is known already, *)
(* and purging it disconnects that state.  Nothing in the repository calls *)
(* for CELL_DCH yet; its calls are taken in any order that leaves each     *)
(* call finished before the next.                                          *)
(***************************************************************************)
EXTENDS RlcConfig

CONSTANTS
  RachSFs, FachSFs,  \* spreading factors rrcInitCommonCh may get
  FachTBSizes,       \* transport block sizes it may ask for
  Addresses          \* where a pair of a bearer may be; `new` takes a free one

Null == 0
ASSUME AddressAssumption == Null \notin Addresses
ASSUME SpreadingAssumption ==
  /\ RachSFs \subseteq SpreadingFactors /\ FachSFs \subseteq SpreadingFactors
  /\ FachTBSizes \subseteq Nat

States == {"CELL_FACH", "CELL_DCH"}
OtherState(state) == IF state = "CELL_FACH" THEN "CELL_DCH" ELSE "CELL_FACH"
Nobody == "nobody"

VARIABLES
  gRrcDcchConfig,  \* configuration of CELL_FACH, once rrcInitCommonCh made it
  inited,
  frames,          \* history: bits of a radio frame of RACH and of FACH
  exists,          \* the UE exists
  mRlcs,           \* the slots: mRlcsCF and mRlcsCDch
  mUeMaxRlc,
  heap,            \* the pairs, by bearer and address
  connecting,      \* the state ueConnectRlc is connecting, or Nobody
  index            \* the bearer it has come to

vars == <<gRrcDcchConfig, inited, frames, exists, mRlcs, mUeMaxRlc, heap, connecting, index>>

NoSlots == [state \in States |-> [rbid \in RbIds |-> Null]]
NoPairs == [rbid \in RbIds |-> [a \in Addresses |-> Deleted]]

Init ==
  /\ gRrcDcchConfig = EmptyConfig /\ inited = FALSE /\ frames = [ul |-> 0, dl |-> 0]
  /\ exists = FALSE /\ mRlcs = NoSlots /\ mUeMaxRlc = 0 /\ heap = NoPairs
  /\ connecting = Nobody /\ index = 0

config(state) == IF state = "CELL_FACH" THEN gRrcDcchConfig ELSE rrcConfigDchCS

\* A second call returns at once.
rrcInitCommonCh(rachSF, fachSF, fachTBSize) ==
  /\ ~inited
  /\ inited' = TRUE /\ gRrcDcchConfig' = DcchConfig(rachSF, fachSF, fachTBSize)
  /\ frames' = [ul |-> UlRadioFrameSize(rachSF), dl |-> getDlRadioFrameSize(fachSF)]
  /\ UNCHANGED <<exists, mRlcs, mUeMaxRlc, heap, connecting, index>>

\* Pairs a UE left behind when it was deleted are forgotten.
NewUe ==
  /\ inited /\ ~exists
  /\ exists' = TRUE /\ mRlcs' = NoSlots /\ mUeMaxRlc' = 0 /\ heap' = NoPairs
  /\ UNCHANGED <<gRrcDcchConfig, inited, frames, connecting, index>>

(***************************************************************************)
(* ueConnectRlc                                                            *)
(***************************************************************************)
ueConnectRlc(state) ==
  /\ exists /\ connecting = Nobody
  /\ connecting' = state /\ index' = 1
  /\ UNCHANGED <<gRrcDcchConfig, inited, frames, exists, mRlcs, mUeMaxRlc, heap>>

rb == config(connecting).mRB[index]
dltfs == getDlTfs(config(connecting), rb.mTrChAssigned)
\* badInLoop goes one bearer too far.
badInLoop == connecting # Nobody /\ index <= config(connecting).mNumRB
InLoop == connecting # Nobody /\ index < config(connecting).mNumRB

\* badRaiseMaxRlc takes the number of the bearer without a comparison.
badRaiseMaxRlc(rbid) == rbid
RaiseMaxRlc(rbid) == IF rbid > mUeMaxRlc THEN rbid ELSE mUeMaxRlc

NextBearer ==
  /\ index' = index + 1
  /\ UNCHANGED <<gRrcDcchConfig, inited, frames, exists, connecting>>

SkipBearer ==
  /\ InLoop /\ ~valid(rb)
  /\ NextBearer /\ UNCHANGED <<mRlcs, mUeMaxRlc, heap>>

\* prev && !isNewState, and isNewState is false.  badPrevious ignores prev.
badPrevious(state, rbid) == FALSE
Previous(state, rbid) == mRlcs[state][rbid] # Null

KeepBearer ==
  /\ InLoop /\ valid(rb) /\ Previous(connecting, index)
  /\ mUeMaxRlc' = RaiseMaxRlc(index)
  /\ NextBearer /\ UNCHANGED <<mRlcs, heap>>

\* The pair of the other state has the mode and PDU size wanted.
\* badSameRlc does not compare the sizes.
badSameRlc(other, rbid) == other # Null /\ heap[rbid][other].mDown = rb.dlMode
SameRlc(other, rbid) ==
  /\ other # Null
  /\ heap[rbid][other].mDown = rb.dlMode
  /\ heap[rbid][other].mDlPduSizeBytes = computeDlRlcSize(rb, dltfs)

CopyBearer ==
  LET other == mRlcs[OtherState(connecting)][index] IN
  /\ InLoop /\ valid(rb) /\ ~Previous(connecting, index)
  /\ SameRlc(other, index)
  /\ mRlcs' = [mRlcs EXCEPT ![connecting][index] = other]
  /\ mUeMaxRlc' = RaiseMaxRlc(index)
  /\ NextBearer /\ UNCHANGED heap

AllocateBearer ==
  /\ InLoop /\ valid(rb) /\ ~Previous(connecting, index)
  /\ ~SameRlc(mRlcs[OtherState(connecting)][index], index)
  /\ \E a \in Addresses :
       /\ ~heap[index][a].live
       /\ heap' = [heap EXCEPT ![index][a] = URlcPair(rb, dltfs)]
       /\ mRlcs' = [mRlcs EXCEPT ![connecting][index] = a]
  /\ mUeMaxRlc' = RaiseMaxRlc(index)
  /\ NextBearer

ConnectEnds ==
  /\ connecting # Nobody /\ index >= config(connecting).mNumRB
  /\ connecting' = Nobody /\ index' = 0
  /\ UNCHANGED <<gRrcDcchConfig, inited, frames, exists, mRlcs, mUeMaxRlc, heap>>

(***************************************************************************)
(* ueDisconnectRlc: a pair that is in the slot of the other state too is   *)
(* not deleted.  badDeletes deletes it all the same.                       *)
(***************************************************************************)
badDeletes(state, rbid) == mRlcs[state][rbid] # Null
Deletes(state, rbid) ==
  mRlcs[state][rbid] # Null /\ mRlcs[state][rbid] # mRlcs[OtherState(state)][rbid]

Disconnect(state) ==
  /\ heap' = [rbid \in RbIds |->
                [a \in Addresses |->
                   IF Deletes(state, rbid) /\ a = mRlcs[state][rbid]
                   THEN Deleted ELSE heap[rbid][a]]]
  /\ mRlcs' = [mRlcs EXCEPT ![state] = [rbid \in RbIds |-> Null]]

ueDisconnectRlc(state) ==
  /\ exists /\ connecting = Nobody
  /\ Disconnect(state)
  /\ UNCHANGED <<gRrcDcchConfig, inited, frames, exists, mUeMaxRlc, connecting, index>>

\* purgeUEs deletes the UE after disconnecting CELL_FACH alone.
Purge ==
  /\ exists /\ connecting = Nobody
  /\ Disconnect("CELL_FACH")
  /\ exists' = FALSE
  /\ UNCHANGED <<gRrcDcchConfig, inited, frames, mUeMaxRlc, connecting, index>>

Next ==
  \/ \E rachSF \in RachSFs, fachSF \in FachSFs, size \in FachTBSizes :
       rrcInitCommonCh(rachSF, fachSF, size)
  \/ NewUe
  \/ \E state \in States : ueConnectRlc(state) \/ ueDisconnectRlc(state)
  \/ SkipBearer \/ KeepBearer \/ CopyBearer \/ AllocateBearer \/ ConnectEnds
  \/ Purge

Spec == Init /\ [][Next]_vars
=============================================================================
