--------------------------- MODULE UeBearersProofs ---------------------------
(***************************************************************************)
(* The pairs of a UE for every set of spreading factors, block sizes and   *)
(* addresses.  First who owns which pair: of the configurations that needs *)
(* only ConfigOK.  Then the sizes of blocks and PDUs and the combinations  *)
(* of formats, which need what the configurations are: Configured.         *)
(***************************************************************************)
EXTENDS UeBearersProperties, WellFoundedInduction, TLAPS

ConfigOK(c) ==
  /\ c.mNumRB \in 1 .. gsMaxRB
  /\ \A rbid \in RbIds : c.mRB[rbid].ulMode = c.mRB[rbid].dlMode

LEMMA MaxCommon == Max(1 .. 3) = 3
<1>1. \A x \in 1 .. 3 : (\A y \in 1 .. 3 : x >= y) <=> x = 3
  BY SMT
<1>2. (CHOOSE x \in 1 .. 3 : \A y \in 1 .. 3 : x >= y) = 3
  BY <1>1, Z3
<1> QED
  BY <1>2 DEF Max

LEMMA MaxVoice == Max({1, 2, 3, 5, 6, 7}) = 7
<1> DEFINE S == {1, 2, 3, 5, 6, 7}
<1>1. \A x \in S : (\A y \in S : x >= y) <=> x = 7
  BY SMT
<1>2. (CHOOSE x \in S : \A y \in S : x >= y) = 7
  BY <1>1, Z3
<1> QED
  BY <1>2 DEF Max

LEMMA DcchConfigOK ==
  ASSUME NEW rachSF, NEW fachSF, NEW size PROVE ConfigOK(DcchConfig(rachSF, fachSF, size))
<1> DEFINE c == DcchConfig(rachSF, fachSF, size)
<1>1. c.mNumRB = 4
  BY MaxCommon DEF DcchConfig, setRBs
<1>2. ASSUME NEW rbid \in RbIds PROVE c.mRB[rbid].ulMode = c.mRB[rbid].dlMode
  <2>1. c.mRB[rbid] = IF rbid \in 1 .. 3 THEN defaultConfig0CFRb(rbid) ELSE RBInfo
    BY DEF DcchConfig, setRBs
  <2> QED
    BY <2>1 DEF defaultConfig0CFRb, defaultConfigSrbRlcAm, WithModes, rb_Identity, RBInfo
<1> QED
  BY <1>1, <1>2 DEF ConfigOK, gsMaxRB

LEMMA DchConfigOK == ConfigOK(rrcConfigDchCS)
<1> DEFINE S == {1, 2, 3, 5, 6, 7}
<1>1. rrcConfigDchCS.mNumRB = 8
  BY MaxVoice DEF rrcConfigDchCS, setRBs
<1>2. ASSUME NEW rbid \in RbIds
      PROVE rrcConfigDchCS.mRB[rbid].ulMode = rrcConfigDchCS.mRB[rbid].dlMode
  <2>1. rrcConfigDchCS.mRB[rbid] = IF rbid \in S THEN defaultConfig3Rb(rbid) ELSE RBInfo
    BY DEF rrcConfigDchCS, setRBs
  <2> QED
    BY <2>1 DEF defaultConfig3Rb, setTransportChannelIdentity, WithModes, rb_Identity, RBInfo
<1> QED
  BY <1>1, <1>2 DEF ConfigOK, gsMaxRB

-----------------------------------------------------------------------------
(* The inductive invariant.  BearersMatchConfig rests on SlotsOwnPairs (a   *)
(* new pair does not take the place of one in use) and on the order of      *)
(* calls: the configuration is there before a UE is, and a UE before it is  *)
(* connected.                                                               *)

HeapTyped ==
  /\ heap = [rbid \in RbIds |-> heap[rbid]]
  /\ \A rbid \in RbIds : heap[rbid] = [a \in Addresses |-> heap[rbid][a]]

InOrder ==
  /\ inited => ConfigOK(gRrcDcchConfig)
  /\ exists => inited
  /\ connecting # Nobody => exists

Matches(state, rbid) ==
  LET info == config(state).mRB[rbid] IN
  /\ valid(info)
  /\ PairIn(state, rbid).mUp = info.ulMode /\ PairIn(state, rbid).mDown = info.dlMode
  /\ PairIn(state, rbid).mDlPduSizeBytes
       = computeDlRlcSize(info, getDlTfs(config(state), info.mTrChAssigned))

IInv ==
  /\ TypeOK
  /\ HeapTyped
  /\ InOrder
  /\ SlotsOwnPairs
  /\ MaxRlcCoversSlots
  /\ BearersMatchConfig

LEMMA MatchesAll ==
  BearersMatchConfig <=> (exists => \A state \in States : \A rbid \in Filled(state) :
                                       Matches(state, rbid))
BY Zenon DEF BearersMatchConfig, Matches

LEMMA NoSlotsType == NoSlots \in [States -> [RbIds -> Addresses \cup {Null}]]
<1>1. [rbid \in RbIds |-> Null] \in [RbIds -> Addresses \cup {Null}]
  BY Zenon
<1> QED
  BY <1>1, Zenon DEF NoSlots

LEMMA InitInv == Init => IInv
<1> SUFFICES ASSUME Init PROVE IInv
  OBVIOUS
<1>1. TypeOK
  <2>1. 0 \in RbIds
    BY DEF RbIds, gsMaxRB
  <2> QED
    BY <2>1, NoSlotsType, Zenon DEF Init, TypeOK, NoPairs
<1>2. HeapTyped
  BY DEF Init, HeapTyped, NoPairs
<1>3. MaxRlcCoversSlots
  BY DEF Init, MaxRlcCoversSlots, Filled, NoSlots
<1> QED
  BY <1>1, <1>2, <1>3 DEF Init, IInv, InOrder, SlotsOwnPairs, BearersMatchConfig

\* A configuration that a UE may be connected with.
LEMMA ConfigsOK ==
  ASSUME IInv, exists, NEW state \in States PROVE ConfigOK(config(state))
BY DchConfigOK DEF IInv, InOrder, config

-----------------------------------------------------------------------------
(* Common channels, and a new UE.                                           *)

LEMMA rrcInitCommonChKeeps ==
  ASSUME IInv, NEW rachSF, NEW fachSF, NEW size, rrcInitCommonCh(rachSF, fachSF, size)
  PROVE  IInv'
<1> USE DEF rrcInitCommonCh
<1>1. ~exists /\ connecting = Nobody
  BY DEF IInv, InOrder
<1>2. TypeOK' /\ HeapTyped'
  BY <1>1, Zenon DEF IInv, TypeOK, HeapTyped
<1>3. InOrder'
  BY <1>1, DcchConfigOK DEF IInv, InOrder
<1> QED
  BY <1>1, <1>2, <1>3, Zenon
  DEF IInv, SlotsOwnPairs, MaxRlcCoversSlots, Filled, BearersMatchConfig

LEMMA NewUeKeeps ==
  ASSUME IInv, NewUe PROVE IInv'
<1> USE DEF NewUe
<1>1. connecting = Nobody
  BY DEF IInv, InOrder
<1>2. TypeOK' /\ HeapTyped'
  <2>1. 0 \in RbIds
    BY DEF RbIds, gsMaxRB
  <2> QED
    BY <1>1, <2>1, NoSlotsType, Zenon DEF IInv, TypeOK, HeapTyped, NoPairs
<1>3. InOrder'
  BY <1>1 DEF IInv, InOrder
<1>4. \A state \in States : Filled(state)' = {}
  BY DEF Filled, NoSlots
<1>5. SlotsOwnPairs'
  BY DEF SlotsOwnPairs, Live, NoSlots, NoPairs, Deleted
<1> QED
  BY <1>2, <1>3, <1>4, <1>5 DEF IInv, MaxRlcCoversSlots, BearersMatchConfig

-----------------------------------------------------------------------------
(* A step of the loop of ueConnectRlc.                                      *)

LEMMA LoopPlace ==
  ASSUME IInv, InLoop
  PROVE  /\ exists /\ inited /\ connecting \in States
         /\ index \in RbIds
         /\ index + 1 \in 1 .. config(connecting).mNumRB
         /\ ConfigOK(config(connecting))
<1>1. connecting \in States /\ exists /\ inited
  BY DEF IInv, InOrder, TypeOK, InLoop
<1>2. ConfigOK(config(connecting))
  BY <1>1, ConfigsOK
<1>3. index \in 1 .. config(connecting).mNumRB /\ index < config(connecting).mNumRB
  BY DEF IInv, TypeOK, InLoop
<1>4. config(connecting).mNumRB \in 1 .. gsMaxRB
  BY <1>2 DEF ConfigOK
<1> QED
  BY <1>1, <1>2, <1>3, <1>4, SMT DEF RbIds, gsMaxRB

LEMMA NextBearerKeeps ==
  ASSUME IInv, InLoop, NextBearer,
         mUeMaxRlc' \in RbIds,
         mRlcs' \in [States -> [RbIds -> Addresses \cup {Null}]],
         HeapTyped'
  PROVE  TypeOK' /\ HeapTyped' /\ InOrder'
<1> USE DEF NextBearer
<1>1. config(connecting)' = config(connecting)
  BY DEF config
<1>2. index' \in 1 .. config(connecting)'.mNumRB
  BY <1>1, LoopPlace
<1>3. DOMAIN heap' = RbIds /\ \A rbid \in RbIds : DOMAIN heap'[rbid] = Addresses
  BY Zenon DEF HeapTyped
<1>4. connecting # Nobody
  BY DEF InLoop
<1>5. TypeOK'
  BY <1>2, <1>3, <1>4, Zenon DEF IInv, TypeOK
<1> QED
  BY <1>5, Zenon DEF IInv, InOrder

LEMMA RaisedMaxRlc ==
  ASSUME IInv, InLoop
  PROVE  /\ RaiseMaxRlc(index) \in RbIds
         /\ index <= RaiseMaxRlc(index) /\ mUeMaxRlc <= RaiseMaxRlc(index)
<1>1. index \in RbIds /\ mUeMaxRlc \in RbIds
  BY LoopPlace DEF IInv, TypeOK
<1> QED
  BY <1>1, SMT DEF RaiseMaxRlc, RbIds, gsMaxRB

\* Where neither slots nor pairs change, what is said of them stays.
LEMMA SameSlots ==
  ASSUME IInv, InLoop, NextBearer, UNCHANGED <<mRlcs, heap>>,
         mUeMaxRlc' \in RbIds, mUeMaxRlc <= mUeMaxRlc'
  PROVE  IInv'
<1> USE DEF NextBearer
<1>1. TypeOK' /\ HeapTyped' /\ InOrder'
  <2>1. HeapTyped' /\ mRlcs' \in [States -> [RbIds -> Addresses \cup {Null}]]
    BY Zenon DEF IInv, TypeOK, HeapTyped
  <2> QED
    BY <2>1, NextBearerKeeps
<1>2. SlotsOwnPairs'
  BY DEF IInv, SlotsOwnPairs, Live
<1>3. MaxRlcCoversSlots'
  <2> SUFFICES ASSUME NEW state \in States, NEW rbid \in Filled(state)
               PROVE  rbid <= mUeMaxRlc'
    BY Zenon DEF MaxRlcCoversSlots, Filled
  <2>1. rbid <= mUeMaxRlc /\ rbid \in RbIds /\ mUeMaxRlc \in RbIds
    BY DEF IInv, MaxRlcCoversSlots, TypeOK, Filled
  <2> QED
    BY <2>1, SMT DEF RbIds, gsMaxRB
<1>4. BearersMatchConfig'
  BY Zenon DEF IInv, BearersMatchConfig, Filled, PairIn, config
<1> QED
  BY <1>1, <1>2, <1>3, <1>4 DEF IInv

LEMMA SkipBearerKeeps ==
  ASSUME IInv, SkipBearer PROVE IInv'
<1>1. mUeMaxRlc \in RbIds
  BY DEF IInv, TypeOK
<1>2. mUeMaxRlc <= mUeMaxRlc
  BY <1>1 DEF RbIds
<1> QED
  BY <1>1, <1>2, SameSlots DEF SkipBearer

LEMMA KeepBearerKeeps ==
  ASSUME IInv, KeepBearer PROVE IInv'
<1>1. InLoop
  BY DEF KeepBearer
<1> QED
  BY <1>1, RaisedMaxRlc, SameSlots DEF KeepBearer

\* Filling one slot with a.
LEMMA FilledSlot ==
  ASSUME IInv, InLoop, NEW a \in Addresses,
         mRlcs' = [mRlcs EXCEPT ![connecting][index] = a]
  PROVE  /\ mRlcs' \in [States -> [RbIds -> Addresses \cup {Null}]]
         /\ \A state \in States, rbid \in RbIds :
              mRlcs'[state][rbid] = IF state = connecting /\ rbid = index
                                    THEN a ELSE mRlcs[state][rbid]
<1>1. connecting \in States /\ index \in RbIds
  BY LoopPlace
<1>2. mRlcs \in [States -> [RbIds -> Addresses \cup {Null}]]
  BY DEF IInv, TypeOK
<1> QED
  BY <1>1, <1>2, SMT

LEMMA MaxRlcRaised ==
  ASSUME IInv, InLoop, NEW a \in Addresses,
         mRlcs' = [mRlcs EXCEPT ![connecting][index] = a],
         mUeMaxRlc' = RaiseMaxRlc(index)
  PROVE  MaxRlcCoversSlots'
<1> SUFFICES ASSUME NEW state \in States, NEW rbid \in RbIds, mRlcs'[state][rbid] # Null
             PROVE  rbid <= mUeMaxRlc'
  BY Zenon DEF MaxRlcCoversSlots, Filled
<1>1. index <= mUeMaxRlc' /\ mUeMaxRlc <= mUeMaxRlc' /\ mUeMaxRlc' \in RbIds
  BY RaisedMaxRlc
<1>2. CASE rbid = index
  BY <1>1, <1>2
<1>3. CASE rbid # index
  <2>1. mRlcs[state][rbid] # Null
    BY <1>3, FilledSlot
  <2>2. rbid <= mUeMaxRlc /\ mUeMaxRlc \in RbIds
    BY <2>1 DEF IInv, MaxRlcCoversSlots, Filled, TypeOK
  <2> QED
    BY <1>1, <2>2, SMT DEF RbIds, gsMaxRB
<1> QED
  BY <1>2, <1>3

LEMMA OtherStateIs ==
  ASSUME NEW state \in States
  PROVE  /\ OtherState(state) \in States /\ OtherState(state) # state
         /\ States = {state, OtherState(state)}
BY DEF States, OtherState

\* The slot that the pair is copied to matches its own configuration, too: a
\* bearer has one mode in both directions in every configuration.
LEMMA CopyBearerKeeps ==
  ASSUME IInv, CopyBearer PROVE IInv'
<1> DEFINE other == mRlcs[OtherState(connecting)][index]
<1>1. InLoop /\ NextBearer /\ heap' = heap /\ mUeMaxRlc' = RaiseMaxRlc(index)
  BY DEF CopyBearer
<1>2. connecting \in States /\ index \in RbIds /\ OtherState(connecting) \in States
      /\ exists /\ ConfigOK(config(connecting)) /\ ConfigOK(config(OtherState(connecting)))
  BY <1>1, LoopPlace, OtherStateIs, ConfigsOK
<1>3. other \in Addresses /\ SameRlc(other, index) /\ mRlcs[connecting][index] = Null
  BY <1>2 DEF CopyBearer, SameRlc, Previous, IInv, TypeOK
<1>4. mRlcs' = [mRlcs EXCEPT ![connecting][index] = other]
  BY DEF CopyBearer
<1>5. /\ mRlcs' \in [States -> [RbIds -> Addresses \cup {Null}]]
      /\ \A state \in States, rbid \in RbIds :
           mRlcs'[state][rbid] = IF state = connecting /\ rbid = index
                                 THEN other ELSE mRlcs[state][rbid]
  BY <1>1, <1>3, <1>4, FilledSlot
<1>6. TypeOK' /\ HeapTyped' /\ InOrder'
  <2>1. HeapTyped'
    BY <1>1, Zenon DEF IInv, HeapTyped
  <2> QED
    BY <1>1, <1>5, <2>1, RaisedMaxRlc, NextBearerKeeps
<1>7. SlotsOwnPairs'
  <2> SUFFICES ASSUME NEW rbid \in RbIds
               PROVE  Live(rbid)' = {mRlcs'[state][rbid] : state \in States} \ {Null}
    BY DEF SlotsOwnPairs
  <2>1. Live(rbid)' = Live(rbid)
    BY <1>1 DEF Live
  <2>2. Live(rbid) = {mRlcs[state][rbid] : state \in States} \ {Null}
    BY <1>2 DEF IInv, SlotsOwnPairs
  <2>3. CASE rbid = index
    <3>1. {mRlcs'[state][rbid] : state \in States} = {other}
      BY <1>2, <1>5, <2>3, OtherStateIs
    <3>2. {mRlcs[state][rbid] : state \in States} = {other, Null}
      BY <1>2, <1>3, <2>3, OtherStateIs
    <3> QED
      BY <1>3, <2>1, <2>2, <3>1, <3>2, AddressAssumption
  <2>4. CASE rbid # index
    BY <1>5, <2>1, <2>2, <2>4
  <2> QED
    BY <2>3, <2>4
<1>8. MaxRlcCoversSlots'
  BY <1>1, <1>3, <1>4, MaxRlcRaised
<1>9. BearersMatchConfig'
  <2>1. \A state \in States : config(state)' = config(state)
    BY <1>1 DEF NextBearer, config
  <2> SUFFICES ASSUME NEW state \in States, NEW rbid \in RbIds, mRlcs'[state][rbid] # Null
               PROVE  Matches(state, rbid)'
    BY DEF BearersMatchConfig, Matches, Filled
  <2>2. CASE state = connecting /\ rbid = index
    <3>1. Matches(OtherState(connecting), index)
      BY <1>2, <1>3, AddressAssumption DEF IInv, BearersMatchConfig, Matches, Filled
    <3>2. PairIn(state, rbid)' = heap[index][other]
      BY <1>1, <1>5, <2>2 DEF PairIn
    <3>3. heap[index][other].mUp = heap[index][other].mDown
      BY <1>2, <3>1 DEF Matches, PairIn, ConfigOK
    <3>4. rb = config(connecting).mRB[index] /\ rb.ulMode = rb.dlMode /\ valid(rb)
      BY <1>2 DEF rb, ConfigOK, CopyBearer
    <3>5. /\ heap[index][other].mDown = rb.dlMode
          /\ heap[index][other].mDlPduSizeBytes
               = computeDlRlcSize(rb, getDlTfs(config(connecting), rb.mTrChAssigned))
      BY <1>3 DEF SameRlc, dltfs
    <3> QED
      BY <2>1, <2>2, <3>2, <3>3, <3>4, <3>5 DEF Matches
  <2>3. CASE ~(state = connecting /\ rbid = index)
    <3>1. mRlcs'[state][rbid] = mRlcs[state][rbid] /\ rbid \in Filled(state)
      BY <1>5, <2>3 DEF Filled
    <3>2. Matches(state, rbid)
      BY <1>2, <3>1 DEF IInv, BearersMatchConfig, Matches
    <3>3. PairIn(state, rbid)' = PairIn(state, rbid)
      BY <1>1, <3>1 DEF PairIn
    <3> QED
      BY <2>1, <3>2, <3>3 DEF Matches
  <2> QED
    BY <2>2, <2>3
<1> QED
  BY <1>6, <1>7, <1>8, <1>9 DEF IInv

\* A new pair takes no place in use, so what is said of other slots stays.
LEMMA AllocateBearerKeeps ==
  ASSUME IInv, AllocateBearer PROVE IInv'
<1>1. InLoop /\ NextBearer /\ mUeMaxRlc' = RaiseMaxRlc(index)
  BY DEF AllocateBearer
<1>2. connecting \in States /\ index \in RbIds /\ exists /\ ConfigOK(config(connecting))
  BY <1>1, LoopPlace
<1>3. mRlcs[connecting][index] = Null /\ valid(rb)
  BY DEF AllocateBearer, Previous
<1>4. PICK a \in Addresses :
        /\ ~heap[index][a].live
        /\ heap' = [heap EXCEPT ![index][a] = URlcPair(rb, dltfs)]
        /\ mRlcs' = [mRlcs EXCEPT ![connecting][index] = a]
  BY DEF AllocateBearer
<1>5. /\ mRlcs' \in [States -> [RbIds -> Addresses \cup {Null}]]
      /\ \A state \in States, rbid \in RbIds :
           mRlcs'[state][rbid] = IF state = connecting /\ rbid = index
                                 THEN a ELSE mRlcs[state][rbid]
  BY <1>1, <1>4, FilledSlot
<1>6. /\ HeapTyped'
      /\ \A rbid \in RbIds, b \in Addresses :
           heap'[rbid][b] = IF rbid = index /\ b = a THEN URlcPair(rb, dltfs) ELSE heap[rbid][b]
  BY <1>2, <1>4 DEF IInv, HeapTyped
<1>7. TypeOK' /\ HeapTyped' /\ InOrder'
  BY <1>1, <1>5, <1>6, RaisedMaxRlc, NextBearerKeeps
<1>8. SlotsOwnPairs'
  <2> SUFFICES ASSUME NEW rbid \in RbIds
               PROVE  Live(rbid)' = {mRlcs'[state][rbid] : state \in States} \ {Null}
    BY DEF SlotsOwnPairs
  <2>1. Live(rbid) = {mRlcs[state][rbid] : state \in States} \ {Null}
    BY <1>2 DEF IInv, SlotsOwnPairs
  <2>2. CASE rbid = index
    <3>1. Live(rbid)' = Live(rbid) \cup {a}
      BY <1>6, <2>2 DEF Live, URlcPair
    <3>2. {mRlcs'[state][rbid] : state \in States} = {a, mRlcs[OtherState(connecting)][rbid]}
      BY <1>2, <1>5, <2>2, OtherStateIs
    <3>3. {mRlcs[state][rbid] : state \in States} = {Null, mRlcs[OtherState(connecting)][rbid]}
      BY <1>2, <1>3, <2>2, OtherStateIs
    <3> QED
      BY <2>1, <3>1, <3>2, <3>3, AddressAssumption
  <2>3. CASE rbid # index
    <3>1. Live(rbid)' = Live(rbid)
      BY <1>6, <2>3 DEF Live
    <3> QED
      BY <1>5, <2>1, <2>3, <3>1
  <2> QED
    BY <2>2, <2>3
<1>9. MaxRlcCoversSlots'
  BY <1>1, <1>4, MaxRlcRaised
<1>10. BearersMatchConfig'
  <2>1. \A state \in States : config(state)' = config(state)
    BY <1>1 DEF NextBearer, config
  <2> SUFFICES ASSUME NEW state \in States, NEW rbid \in RbIds, mRlcs'[state][rbid] # Null
               PROVE  Matches(state, rbid)'
    BY DEF BearersMatchConfig, Matches, Filled
  <2>2. CASE state = connecting /\ rbid = index
    <3>1. PairIn(state, rbid)' = URlcPair(rb, dltfs)
      BY <1>2, <1>5, <1>6, <2>2 DEF PairIn
    <3>2. rb = config(connecting).mRB[index]
          /\ dltfs = getDlTfs(config(connecting), rb.mTrChAssigned)
      BY DEF rb, dltfs
    <3>3. /\ URlcPair(rb, dltfs).mUp = rb.ulMode /\ URlcPair(rb, dltfs).mDown = rb.dlMode
          /\ URlcPair(rb, dltfs).mDlPduSizeBytes = computeDlRlcSize(rb, dltfs)
      BY DEF URlcPair
    <3> QED
      BY <1>3, <2>1, <2>2, <3>1, <3>2, <3>3 DEF Matches
  <2>3. CASE ~(state = connecting /\ rbid = index)
    <3>1. mRlcs'[state][rbid] = mRlcs[state][rbid] /\ rbid \in Filled(state)
      BY <1>5, <2>3 DEF Filled
    <3>2. mRlcs[state][rbid] \in Live(rbid)
      BY <1>2, <3>1 DEF IInv, SlotsOwnPairs, Filled
    <3>3. PairIn(state, rbid)' = PairIn(state, rbid)
      BY <1>4, <1>6, <3>1, <3>2 DEF PairIn, Live
    <3>4. Matches(state, rbid)
      BY <1>2, <3>1 DEF IInv, BearersMatchConfig, Matches
    <3> QED
      BY <2>1, <3>3, <3>4 DEF Matches
  <2> QED
    BY <2>2, <2>3
<1> QED
  BY <1>7, <1>8, <1>9, <1>10 DEF IInv

-----------------------------------------------------------------------------
(* The ends of ueConnectRlc.                                                *)

LEMMA ConnectKeeps ==
  ASSUME IInv, NEW state \in States, ueConnectRlc(state) PROVE IInv'
<1> USE DEF ueConnectRlc
<1>1. config(state).mNumRB \in 1 .. gsMaxRB
  BY ConfigsOK DEF ConfigOK
<1>2. connecting' = state /\ index' = 1 /\ config(state)' = config(state)
  BY DEF config
<1>3. index' \in 1 .. config(connecting)'.mNumRB
  BY <1>1, <1>2, SMT DEF gsMaxRB, config
<1>4. state # Nobody
  BY DEF States, Nobody
<1>5. TypeOK' /\ HeapTyped' /\ InOrder'
  BY <1>2, <1>3, <1>4, Zenon DEF IInv, TypeOK, HeapTyped, InOrder
<1> QED
  BY <1>5, SMT DEF IInv, SlotsOwnPairs, Live, MaxRlcCoversSlots, Filled, BearersMatchConfig,
                   PairIn, config

LEMMA ConnectEndsKeeps ==
  ASSUME IInv, ConnectEnds PROVE IInv'
<1> USE DEF ConnectEnds
<1>1. TypeOK' /\ HeapTyped' /\ InOrder'
  BY Zenon DEF IInv, TypeOK, HeapTyped, InOrder
<1> QED
  BY <1>1, SMT DEF IInv, SlotsOwnPairs, Live, MaxRlcCoversSlots, Filled, BearersMatchConfig,
                   PairIn, config

-----------------------------------------------------------------------------
(* ueDisconnectRlc, and purgeUEs.                                           *)

\* What the two have in common; UEs of which exists' is FALSE own nothing.
LEMMA DisconnectKeeps ==
  ASSUME IInv, NEW state \in States, exists, connecting = Nobody, Disconnect(state),
         UNCHANGED <<gRrcDcchConfig, inited, mUeMaxRlc, connecting, index>>,
         exists' \in BOOLEAN
  PROVE  IInv'
<1> USE DEF Disconnect
<1>1. mRlcs \in [States -> [RbIds -> Addresses \cup {Null}]]
  BY DEF IInv, TypeOK
<1>2. /\ mRlcs' \in [States -> [RbIds -> Addresses \cup {Null}]]
      /\ \A s \in States, rbid \in RbIds :
           mRlcs'[s][rbid] = IF s = state THEN Null ELSE mRlcs[s][rbid]
  <2>1. [rbid \in RbIds |-> Null] \in [RbIds -> Addresses \cup {Null}]
    BY Zenon
  <2> QED
    BY <1>1, <2>1, SMT
<1>3. \A rbid \in RbIds, a \in Addresses :
        heap'[rbid][a] = IF Deletes(state, rbid) /\ a = mRlcs[state][rbid]
                         THEN Deleted ELSE heap[rbid][a]
  BY Zenon
<1>4. HeapTyped'
  BY DEF HeapTyped
<1>5. TypeOK'
  <2>1. DOMAIN heap' = RbIds /\ \A rbid \in RbIds : DOMAIN heap'[rbid] = Addresses
    BY Zenon
  <2> QED
    BY <1>2, <2>1, Zenon DEF IInv, TypeOK
<1>6. InOrder'
  BY DEF IInv, InOrder
<1>7. ASSUME NEW s \in States, NEW rbid \in RbIds, mRlcs'[s][rbid] # Null
      PROVE  /\ s # state /\ mRlcs'[s][rbid] = mRlcs[s][rbid] /\ rbid \in Filled(s)
             /\ PairIn(s, rbid)' = PairIn(s, rbid)
  <2>1. s # state /\ mRlcs'[s][rbid] = mRlcs[s][rbid] /\ rbid \in Filled(s)
    BY <1>2, <1>7 DEF Filled
  <2>2. mRlcs[s][rbid] \in Addresses
    BY <1>1, <1>7, <2>1
  <2>3. ~(Deletes(state, rbid) /\ mRlcs[s][rbid] = mRlcs[state][rbid])
    BY <2>1, OtherStateIs DEF Deletes
  <2> QED
    BY <1>3, <2>1, <2>2, <2>3 DEF PairIn
<1>8. SlotsOwnPairs'
  <2> SUFFICES ASSUME NEW rbid \in RbIds
               PROVE  Live(rbid)' = {mRlcs'[s][rbid] : s \in States} \ {Null}
    BY DEF SlotsOwnPairs
  <2> DEFINE mine == mRlcs[state][rbid]
             others == mRlcs[OtherState(state)][rbid]
  <2>1. {mRlcs[s][rbid] : s \in States} = {mine, others}
    BY OtherStateIs
  <2>2. {mRlcs'[s][rbid] : s \in States} = {Null, others}
    BY <1>2, OtherStateIs
  <2>3. Live(rbid) = {mine, others} \ {Null}
    BY <2>1 DEF IInv, SlotsOwnPairs
  <2>4. Live(rbid)' = Live(rbid) \ (IF Deletes(state, rbid) THEN {mine} ELSE {})
    BY <1>3 DEF Live, Deleted
  <2>5. Deletes(state, rbid) <=> mine # Null /\ mine # others
    BY DEF Deletes
  <2> QED
    BY <2>2, <2>3, <2>4, <2>5
<1>9. MaxRlcCoversSlots'
  <2> SUFFICES ASSUME NEW s \in States, NEW rbid \in RbIds, mRlcs'[s][rbid] # Null
               PROVE  rbid <= mUeMaxRlc'
    BY Zenon DEF MaxRlcCoversSlots, Filled
  <2> QED
    BY <1>7 DEF IInv, MaxRlcCoversSlots
<1>10. BearersMatchConfig'
  <2> SUFFICES ASSUME NEW s \in States, NEW rbid \in RbIds, mRlcs'[s][rbid] # Null
               PROVE  Matches(s, rbid)'
    BY DEF BearersMatchConfig, Matches, Filled
  <2>1. Matches(s, rbid)
    BY <1>7 DEF IInv, BearersMatchConfig, Matches
  <2>2. config(s)' = config(s)
    BY DEF config
  <2> QED
    BY <1>7, <2>1, <2>2 DEF Matches
<1> QED
  BY <1>4, <1>5, <1>6, <1>8, <1>9, <1>10 DEF IInv

-----------------------------------------------------------------------------
LEMMA StepInv == IInv /\ [Next]_vars => IInv'
<1> SUFFICES ASSUME IInv, [Next]_vars PROVE IInv'
  OBVIOUS
<1>1. CASE \E rachSF \in RachSFs, fachSF \in FachSFs, size \in FachTBSizes :
             rrcInitCommonCh(rachSF, fachSF, size)
  BY <1>1, rrcInitCommonChKeeps
<1>2. CASE NewUe
  BY <1>2, NewUeKeeps
<1>3. CASE \E state \in States : ueConnectRlc(state)
  BY <1>3, ConnectKeeps
<1>4. CASE \E state \in States : ueDisconnectRlc(state)
  <2>1. PICK state \in States : ueDisconnectRlc(state)
    BY <1>4
  <2>2. exists' \in BOOLEAN
    BY <2>1 DEF ueDisconnectRlc, IInv, TypeOK
  <2> QED
    BY <2>1, <2>2, DisconnectKeeps DEF ueDisconnectRlc
<1>5. CASE SkipBearer \/ KeepBearer \/ CopyBearer \/ AllocateBearer \/ ConnectEnds
  BY <1>5, SkipBearerKeeps, KeepBearerKeeps, CopyBearerKeeps, AllocateBearerKeeps,
     ConnectEndsKeeps
<1>6. CASE Purge
  <2>1. "CELL_FACH" \in States /\ exists' \in BOOLEAN
    BY <1>6 DEF Purge, States
  <2> QED
    BY <1>6, <2>1, DisconnectKeeps DEF Purge
<1>7. CASE UNCHANGED vars
  <2>1. TypeOK' /\ HeapTyped' /\ InOrder'
    BY <1>7, Zenon DEF vars, IInv, TypeOK, HeapTyped, InOrder, config
  <2>2. SlotsOwnPairs' /\ MaxRlcCoversSlots'
    BY <1>7, SMT DEF vars, IInv, SlotsOwnPairs, Live, MaxRlcCoversSlots, Filled
  <2>3. BearersMatchConfig'
    BY <1>7, Zenon DEF vars, IInv, BearersMatchConfig, Filled, PairIn, config
  <2> QED
    BY <2>1, <2>2, <2>3 DEF IInv
<1> QED
  BY <1>1, <1>2, <1>3, <1>4, <1>5, <1>6, <1>7, Zenon DEF Next

LEMMA SpecIInv == Spec => []IInv
BY InitInv, StepInv, PTL DEF Spec

\* For every configuration the pairs, the slots and the loop keep their types.
THEOREM SpecTypeOK == Spec => []TypeOK
<1>1. IInv => TypeOK
  BY DEF IInv
<1> QED
  BY <1>1, SpecIInv, PTL

\* Whatever pairs the states of a UE share, in whatever order they are
\* connected and disconnected, a slot never points to a deleted pair and no
\* pair of a UE is out of its reach (ueDisconnectRlc, UEInfo.cpp:196-228).
THEOREM SpecSlotsOwnPairs == Spec => []SlotsOwnPairs
<1>1. IInv => SlotsOwnPairs
  BY DEF IInv
<1> QED
  BY <1>1, SpecIInv, PTL

\* flushUE, which goes up to mUeMaxRlc, misses no bearer of the UE.
THEOREM SpecMaxRlcCoversSlots == Spec => []MaxRlcCoversSlots
<1>1. IInv => MaxRlcCoversSlots
  BY DEF IInv
<1> QED
  BY <1>1, SpecIInv, PTL

\* A pair that is kept or shared between the states has the modes and PDU size
\* of both configurations, although ueConnectRlc compares one mode only.
THEOREM SpecBearersMatchConfig == Spec => []BearersMatchConfig
<1>1. IInv => BearersMatchConfig
  BY DEF IInv
<1> QED
  BY <1>1, SpecIInv, PTL

\* Connecting leaves the bearers alone that are connected already.
THEOREM SpecConnectKeepsBearers == Spec => ConnectKeepsBearers
<1> DEFINE Kept == connecting # Nobody =>
                     \A state \in States : \A rbid \in Filled(state) :
                       /\ mRlcs'[state][rbid] = mRlcs[state][rbid]
                       /\ heap'[rbid][mRlcs[state][rbid]] = PairIn(state, rbid)
<1>1. IInv /\ [Next]_vars => [Kept]_vars
  <2> SUFFICES ASSUME IInv, Next, connecting # Nobody,
                      NEW state \in States, NEW rbid \in RbIds, mRlcs[state][rbid] # Null
               PROVE  /\ mRlcs'[state][rbid] = mRlcs[state][rbid]
                      /\ heap'[rbid][mRlcs[state][rbid]] = heap[rbid][mRlcs[state][rbid]]
    BY Zenon DEF Filled, PairIn
  <2>1. exists /\ inited
    BY DEF IInv, InOrder
  <2>2. SkipBearer \/ KeepBearer \/ CopyBearer \/ AllocateBearer \/ ConnectEnds
    BY <2>1, Zenon DEF Next, rrcInitCommonCh, NewUe, ueConnectRlc, ueDisconnectRlc, Purge
  <2>3. CASE SkipBearer \/ KeepBearer \/ ConnectEnds
    BY <2>3, Zenon DEF SkipBearer, KeepBearer, ConnectEnds
  <2>4. CASE CopyBearer
    BY <2>4 DEF CopyBearer, Previous, IInv, TypeOK
  <2>5. CASE AllocateBearer
    <3>1. mRlcs[state][rbid] \in Live(rbid)
      BY <2>1 DEF IInv, SlotsOwnPairs
    <3>2. ~(state = connecting /\ rbid = index)
      BY <2>5 DEF AllocateBearer, Previous
    <3> QED
      BY <2>5, <3>1, <3>2 DEF AllocateBearer, Live, IInv, TypeOK
  <2> QED
    BY <2>2, <2>3, <2>4, <2>5
<1> QED
  BY <1>1, SpecIInv, PTL DEF Spec, ConnectKeepsBearers

-----------------------------------------------------------------------------
(* Bounded sets of natural numbers.                                         *)

LEMMA NatMin ==
  ASSUME NEW T \in SUBSET Nat, T # {}
  PROVE  \E x \in T : \A y \in T : x <= y
<1> DEFINE R == OpToRel(<, Nat)
<1>1. IsWellFoundedOn(R, Nat)
  BY NatLessThanWellFounded, Zenon
<1>2. \A x, y \in Nat : y < x => <<y, x>> \in R
  BY Zenon DEF OpToRel
<1> HIDE DEF R
<1>3. \E x \in T : \A y \in T : ~ (<<y, x>> \in R)
  BY <1>1, WFMin, Zenon
<1>4. \E x \in T : \A y \in T : ~ (y < x)
  BY <1>3, <1>2, Zenon
<1> QED
  BY <1>4, SMT

\* The largest element of a bounded set.
LEMMA MaxOf ==
  ASSUME NEW T \in SUBSET Nat, T # {}, NEW N \in Nat, \A x \in T : x <= N
  PROVE  /\ Max(T) \in T /\ \A x \in T : x <= Max(T)
<1> DEFINE D == {d \in Nat : N - d \in T}
<1>1. PICK d \in D : \A x \in D : d <= x
  <2>1. PICK x \in T : x \in Nat /\ x <= N
    OBVIOUS
  <2>2. N - x \in D
    BY <2>1, SMT
  <2>3. D \in SUBSET Nat /\ D # {}
    BY <2>2
  <2> HIDE DEF D
  <2> QED BY <2>3, NatMin
<1>2. N - d \in T /\ d \in Nat
  BY <1>1
<1>3. \A x \in T : x <= N - d
  <2> SUFFICES ASSUME NEW x \in T PROVE x <= N - d
    OBVIOUS
  <2>1. x \in Nat /\ x <= N /\ N - x \in Nat /\ N - (N - x) = x
    BY SMT
  <2>2. N - x \in D
    BY <2>1
  <2>3. d <= N - x
    BY <1>1, <2>2
  <2> QED BY <1>2, <2>1, <2>3, SMT
<1>4. \A x \in T : N - d >= x
  BY <1>2, <1>3, SMT
<1>5. \E x \in T : \A y \in T : x >= y
  BY <1>2, <1>4
<1>6. Max(T) \in T /\ \A y \in T : Max(T) >= y
  BY <1>5, Zenon DEF Max
<1> QED BY <1>6, SMT

-----------------------------------------------------------------------------
(* What R2EncodedSize makes of x bits: it is monotone.                      *)

LEMMA DivBounds ==
  ASSUME NEW a \in Nat, NEW c \in Nat \ {0}
  PROVE  c * (a \div c) <= a /\ a < c * (a \div c) + c /\ a \div c \in Nat
BY SMT

\* Blocks of x bits, and the bits of each, when x bits are coded.
Blocks(x) == (x + ZConvolutional - 1) \div ZConvolutional
BlockSize(x) == (x + Blocks(x) - 1) \div Blocks(x)

LEMMA Encoded ==
  ASSUME NEW x \in Nat, x # 0
  PROVE  /\ Blocks(x) \in Nat \ {0} /\ BlockSize(x) \in Nat
         /\ x <= ZConvolutional * Blocks(x) /\ ZConvolutional * Blocks(x) <= x + ZConvolutional - 1
         /\ x <= Blocks(x) * BlockSize(x) /\ Blocks(x) * BlockSize(x) <= x + Blocks(x) - 1
         /\ R2EncodedSize(x) = 2 * (Blocks(x) * BlockSize(x)) + 16 * Blocks(x)
<1>1. /\ Blocks(x) \in Nat \ {0}
      /\ x <= ZConvolutional * Blocks(x) /\ ZConvolutional * Blocks(x) <= x + ZConvolutional - 1
  BY SMT DEF Blocks, ZConvolutional
<1> DEFINE c == Blocks(x)
           k == BlockSize(x)
<1>2. c * k <= x + c - 1 /\ x + c - 1 < c * k + c /\ k \in Nat
  <2>1. x + c - 1 \in Nat
    BY <1>1, SMT
  <2> HIDE DEF c
  <2>2. c * ((x + c - 1) \div c) <= x + c - 1 /\ x + c - 1 < c * ((x + c - 1) \div c) + c
        /\ (x + c - 1) \div c \in Nat
    BY <1>1, <2>1, DivBounds DEF c
  <2> QED BY <2>2 DEF BlockSize, c
<1>3. R2EncodedSize(x) = c * (2 * k + 16)
  BY <1>1 DEF R2EncodedSize, Blocks, BlockSize
<1> HIDE DEF c, k
<1>4. c \in Nat \ {0}
  BY <1>1 DEF c
<1>5. c * k \in Nat /\ c * (2 * k + 16) = 2 * (c * k) + 16 * c
  BY <1>2, <1>4, SMT
<1>6. x <= c * k
  BY <1>2, <1>4, <1>5, SMT
<1> QED BY <1>1, <1>2, <1>3, <1>5, <1>6 DEF c, k

LEMMA EncodedZero == R2EncodedSize(0) = 0
BY SMT DEF R2EncodedSize, ZConvolutional

LEMMA EncodedType == ASSUME NEW x \in Nat PROVE R2EncodedSize(x) \in Nat
<1>1. CASE x = 0
  BY <1>1, EncodedZero
<1>2. CASE x # 0
  <2>1. Blocks(x) * BlockSize(x) \in Nat /\ Blocks(x) \in Nat
    BY <1>2, Encoded, SMT
  <2> QED BY <1>2, <2>1, Encoded, SMT
<1> QED BY <1>1, <1>2

LEMMA EncodedMonotone ==
  ASSUME NEW x \in Nat, NEW y \in Nat, x <= y
  PROVE  R2EncodedSize(x) <= R2EncodedSize(y)
<1>1. CASE x = 0
  BY <1>1, EncodedZero, EncodedType
<1>2. CASE x # 0
  <2> DEFINE c == Blocks(x)
             d == Blocks(y)
             k == BlockSize(x)
             j == BlockSize(y)
  <2>1. /\ c \in Nat \ {0} /\ k \in Nat
        /\ x <= 504 * c /\ 504 * c <= x + 503
        /\ x <= c * k /\ c * k <= x + c - 1
        /\ R2EncodedSize(x) = 2 * (c * k) + 16 * c
    BY <1>2, Encoded DEF ZConvolutional
  <2>2. /\ d \in Nat \ {0} /\ j \in Nat
        /\ y <= 504 * d /\ 504 * d <= y + 503
        /\ y <= d * j /\ d * j <= y + d - 1
        /\ R2EncodedSize(y) = 2 * (d * j) + 16 * d
    BY <1>2, Encoded, SMT DEF ZConvolutional
  <2> HIDE DEF c, d, k, j
  <2>3. c * k \in Nat /\ d * j \in Nat
    BY <2>1, <2>2, SMT
  <2>4. c <= d
    BY <2>1, <2>2, SMT
  <2>5. CASE c = d
    <3>1. k <= j
      <4> SUFFICES ASSUME j < k PROVE FALSE
        BY <2>1, <2>2, SMT
      <4>1. c * j + c <= c * k
        BY <2>1, <2>2, SMT
      <4> QED BY <2>1, <2>2, <2>3, <2>5, <4>1, SMT
    <3>2. c * k <= c * j
      BY <2>1, <2>2, <3>1, SMT
    <3> QED BY <2>1, <2>2, <2>3, <2>5, <3>2, SMT
  <2>6. CASE c < d
    <3>1. 504 * c + 1 <= y
      BY <2>1, <2>2, <2>6, SMT
    <3>2. c * k <= 504 * c
      <4>1. k <= 504
        <5> SUFFICES ASSUME 504 < k PROVE FALSE
          BY <2>1, SMT
        <5>1. c * 504 + c <= c * k
          BY <2>1, SMT
        <5> QED BY <2>1, <2>3, <5>1, SMT
      <4> QED BY <2>1, <4>1, SMT
    <3> QED BY <2>1, <2>2, <2>3, <2>6, <3>1, <3>2, SMT
  <2> QED BY <2>1, <2>2, <2>4, <2>5, <2>6, SMT
<1> QED BY <1>1, <1>2

-----------------------------------------------------------------------------
(* R2DecodedSize.  The loop, a recursive function, is shown to exist by the *)
(* function that returns the largest size that fits; and to return that.    *)

\* The loop of R2DecodedSize from Ki down, as a function of Ki.
IsSearch(f, Yi, estimate) ==
  f = [Ki \in 0 .. estimate |-> IF R2EncodedSize(Ki) > Yi THEN f[Ki - 1] ELSE Ki]

\* The largest size up to n that fits.
Largest(Yi, n) == Max({j \in 0 .. n : R2EncodedSize(j) <= Yi})

LEMMA LargestFits ==
  ASSUME NEW Yi \in Nat, NEW n \in Nat
  PROVE  /\ Largest(Yi, n) \in 0 .. n /\ R2EncodedSize(Largest(Yi, n)) <= Yi
         /\ \A j \in 0 .. n : R2EncodedSize(j) <= Yi => j <= Largest(Yi, n)
<1> DEFINE T == {j \in 0 .. n : R2EncodedSize(j) <= Yi}
<1>1. 0 \in T
  BY EncodedZero, SMT
<1>2. T \in SUBSET Nat /\ \A x \in T : x <= n
  BY SMT
<1> HIDE DEF T
<1>3. Max(T) \in T /\ \A x \in T : x <= Max(T)
  BY <1>1, <1>2, MaxOf
<1> QED BY <1>3 DEF T, Largest

LEMMA SearchExists ==
  ASSUME NEW Yi \in Nat, NEW e \in Nat PROVE \E f : IsSearch(f, Yi, e)
<1> DEFINE g == [Ki \in 0 .. e |-> Largest(Yi, Ki)]
<1>1. ASSUME NEW Ki \in 0 .. e
      PROVE  Largest(Yi, Ki) = IF R2EncodedSize(Ki) > Yi THEN g[Ki - 1] ELSE Ki
  <2>1. Ki \in Nat /\ R2EncodedSize(Ki) \in Nat
    BY EncodedType, SMT
  <2>2. /\ Largest(Yi, Ki) \in 0 .. Ki /\ R2EncodedSize(Largest(Yi, Ki)) <= Yi
        /\ \A j \in 0 .. Ki : R2EncodedSize(j) <= Yi => j <= Largest(Yi, Ki)
    BY <2>1, LargestFits
  <2>3. CASE R2EncodedSize(Ki) > Yi
    <3>1. Ki # 0
      BY <2>3, EncodedZero, SMT
    <3>2. Ki - 1 \in Nat /\ Ki - 1 \in 0 .. e
      BY <2>1, <3>1, SMT
    <3>3. /\ Largest(Yi, Ki - 1) \in 0 .. Ki - 1 /\ R2EncodedSize(Largest(Yi, Ki - 1)) <= Yi
          /\ \A j \in 0 .. Ki - 1 : R2EncodedSize(j) <= Yi => j <= Largest(Yi, Ki - 1)
      BY <3>2, LargestFits
    <3>4. Largest(Yi, Ki) # Ki
      BY <2>1, <2>2, <2>3, SMT
    <3> DEFINE p == Largest(Yi, Ki)
               q == Largest(Yi, Ki - 1)
    <3>5. p \in 0 .. Ki - 1 /\ q \in 0 .. Ki
      BY <2>1, <2>2, <3>3, <3>4, SMT
    <3>6. p <= q /\ q <= p
      BY <2>2, <3>3, <3>5
    <3>7. p = q
      <4> HIDE DEF p, q
      <4> QED BY <3>5, <3>6, SMT
    <3> QED BY <2>3, <3>2, <3>7
  <2>4. CASE ~(R2EncodedSize(Ki) > Yi)
    <3>1. R2EncodedSize(Ki) <= Yi /\ Ki \in 0 .. Ki
      BY <2>1, <2>4, SMT
    <3>2. Ki <= Largest(Yi, Ki)
      BY <2>2, <3>1
    <3> QED BY <2>1, <2>2, <2>4, <3>2, SMT
  <2> QED BY <2>3, <2>4
<1>2. g = [Ki \in 0 .. e |-> IF R2EncodedSize(Ki) > Yi THEN g[Ki - 1] ELSE Ki]
  BY <1>1, Zenon
<1> QED BY <1>2, Zenon DEF IsSearch

\* A function that goes on like the loop ends where the largest size is.
LEMMA SearchFinds ==
  ASSUME NEW Yi \in Nat, NEW e \in Nat, NEW f, IsSearch(f, Yi, e)
  PROVE  \A n \in 0 .. e : f[n] = Largest(Yi, n)
<1> DEFINE T == {n \in 0 .. e : f[n] # Largest(Yi, n)}
<1> SUFFICES ASSUME T # {} PROVE FALSE
  OBVIOUS
<1>1. T \in SUBSET Nat
  BY SMT
<1>2. PICK n \in T : \A m \in T : n <= m
  <2> HIDE DEF T
  <2> QED BY <1>1, NatMin
<1>3. n \in Nat /\ n \in 0 .. e /\ f[n] # Largest(Yi, n)
  BY <1>1, <1>2
<1>4. f[n] = IF R2EncodedSize(n) > Yi THEN f[n - 1] ELSE n
  BY <1>3, Zenon DEF IsSearch
<1>5. /\ Largest(Yi, n) \in 0 .. n /\ R2EncodedSize(Largest(Yi, n)) <= Yi
      /\ \A j \in 0 .. n : R2EncodedSize(j) <= Yi => j <= Largest(Yi, n)
  BY <1>3, LargestFits
<1>6. R2EncodedSize(n) \in Nat
  BY <1>3, EncodedType
<1>7. CASE R2EncodedSize(n) > Yi
  <2>1. n # 0
    BY <1>7, EncodedZero, SMT
  <2>2. n - 1 \in Nat /\ n - 1 \in 0 .. e /\ n - 1 < n
    BY <1>3, <2>1, SMT
  <2>3. n - 1 \notin T
    <3> HIDE DEF T
    <3> QED BY <1>2, <1>3, <2>2, SMT
  <2>4. f[n] = Largest(Yi, n - 1)
    BY <1>4, <1>7, <2>2, <2>3
  <2>5. /\ Largest(Yi, n - 1) \in 0 .. n - 1 /\ R2EncodedSize(Largest(Yi, n - 1)) <= Yi
        /\ \A j \in 0 .. n - 1 : R2EncodedSize(j) <= Yi => j <= Largest(Yi, n - 1)
    BY <2>2, LargestFits
  <2> DEFINE p == Largest(Yi, n)
             q == Largest(Yi, n - 1)
  <2>6. p # n
    BY <1>3, <1>5, <1>6, <1>7, SMT
  <2>7. p \in 0 .. n - 1 /\ q \in 0 .. n
    BY <1>3, <1>5, <2>5, <2>6, SMT
  <2>8. p <= q /\ q <= p
    BY <1>5, <2>5, <2>7
  <2>9. p = q
    <3> HIDE DEF p, q
    <3> QED BY <2>7, <2>8, SMT
  <2> QED BY <1>3, <2>4, <2>9
<1>8. CASE ~(R2EncodedSize(n) > Yi)
  <2>1. f[n] = n /\ R2EncodedSize(n) <= Yi /\ n \in 0 .. n
    BY <1>3, <1>4, <1>6, <1>8, SMT
  <2>2. n <= Largest(Yi, n)
    BY <1>5, <2>1
  <2> QED BY <1>3, <1>5, <2>1, <2>2, SMT
<1> QED BY <1>7, <1>8

Estimate(Yi) == (Yi - (1 + (Yi - 1) \div (2 * ZConvolutional + 16)) * 16) \div 2

\* R2DecodedSize returns the largest size, up to its estimate, that fits when
\* it is coded, and its assertion holds (RrcDefs.cpp:8-22).
LEMMA Decoded ==
  ASSUME NEW Yi \in Nat, Estimate(Yi) \in Nat
  PROVE  /\ R2DecodedSize(Yi) \in Nat /\ R2EncodedSize(R2DecodedSize(Yi)) <= Yi
         /\ \A j \in 0 .. Estimate(Yi) : R2EncodedSize(j) <= Yi => j <= R2DecodedSize(Yi)
<1> DEFINE e == Estimate(Yi)
           best == CHOOSE f : IsSearch(f, Yi, e)
<1>1. R2DecodedSize(Yi) = best[e]
  BY DEF R2DecodedSize, Estimate, IsSearch
<1> HIDE DEF e
<1>2. e \in Nat /\ e \in 0 .. e
  BY SMT DEF e
<1>3. IsSearch(best, Yi, e)
  BY <1>2, SearchExists
<1> HIDE DEF best
<1>4. best[e] = Largest(Yi, e)
  BY <1>2, <1>3, SearchFinds
<1>5. /\ Largest(Yi, e) \in 0 .. e /\ R2EncodedSize(Largest(Yi, e)) <= Yi
      /\ \A j \in 0 .. e : R2EncodedSize(j) <= Yi => j <= Largest(Yi, e)
  BY <1>2, LargestFits
<1>6. Largest(Yi, e) \in Nat
  BY <1>2, <1>5, SMT
<1> QED BY <1>1, <1>4, <1>5, <1>6 DEF e

LEMMA EstimateType ==
  ASSUME NEW Yi \in Nat, Yi >= 200 PROVE Estimate(Yi) \in Nat /\ Estimate(Yi) >= 72
BY SMT DEF Estimate, ZConvolutional

LEMMA Encoded72 == R2EncodedSize(72) = 160
BY SMT DEF R2EncodedSize, ZConvolutional

-----------------------------------------------------------------------------
(* Sizes of transport blocks.                                              *)

LargestCommon == 4968

LEMMA CommonSizesBounds ==
  /\ CommonSizes \in SUBSET Nat /\ 48 \in CommonSizes
  /\ \A s \in CommonSizes : 48 <= s /\ s <= LargestCommon
BY SMT DEF CommonSizes, LargestCommon

LEMMA Quantized ==
  ASSUME NEW x \in Int
  PROVE  /\ quantizeRlcSize(x) \in Nat
         /\ 48 <= quantizeRlcSize(x) /\ quantizeRlcSize(x) <= LargestCommon
         /\ quantizeRlcSize(x) <= x \/ (x <= 48 /\ quantizeRlcSize(x) = 48)
<1>1. CASE x <= 48
  BY <1>1, SMT DEF quantizeRlcSize, LargestCommon
<1>2. CASE ~(x <= 48)
  <2> DEFINE T == {size \in CommonSizes : size <= x}
  <2>1. T \subseteq CommonSizes /\ \A s \in T : s <= x
    OBVIOUS
  <2>2. 48 \in T
    BY <1>2, CommonSizesBounds, SMT
  <2>3. quantizeRlcSize(x) = Max(T)
    BY <1>2 DEF quantizeRlcSize
  <2> HIDE DEF T
  <2> DEFINE N == LargestCommon
  <2>4. N \in Nat /\ \A s \in CommonSizes : s \in Nat /\ s <= N /\ 48 <= s
    BY CommonSizesBounds DEF LargestCommon
  <2> HIDE DEF N
  <2>5. Max(T) \in T
    <3>1. T \in SUBSET Nat /\ T # {} /\ \A s \in T : s <= N
      BY <2>1, <2>2, <2>4
    <3> QED BY <2>4, <3>1, MaxOf
  <2>6. Max(T) <= x /\ Max(T) \in CommonSizes
    BY <2>1, <2>5
  <2>7. Max(T) <= N /\ 48 <= Max(T) /\ Max(T) \in Nat
    BY <2>4, <2>6
  <2> DEFINE m == Max(T)
  <2>8. quantizeRlcSize(x) = m /\ m <= x /\ m <= N /\ 48 <= m /\ m \in Nat
    BY <2>3, <2>6, <2>7
  <2> HIDE DEF m
  <2> QED BY <2>8, SMT DEF N
<1> QED BY <1>1, <1>2

\* What is configured is no more than what is asked for, nor than a radio
\* frame has room for.
LEMMA Requested ==
  ASSUME NEW x \in Int, NEW size \in Nat
  PROVE  /\ RequestedSize(x, size) \in Nat
         /\ 48 <= RequestedSize(x, size) /\ RequestedSize(x, size) <= LargestCommon
         /\ x >= 48 => RequestedSize(x, size) <= x
         /\ size >= 48 => RequestedSize(x, size) <= size
<1>1. CASE size = 0 \/ x < size
  <2>1. RequestedSize(x, size) = quantizeRlcSize(x)
    BY <1>1 DEF RequestedSize
  <2> DEFINE q == quantizeRlcSize(x)
  <2>2. q \in Nat /\ 48 <= q /\ q <= LargestCommon /\ (q <= x \/ (x <= 48 /\ q = 48))
    BY Quantized
  <2> HIDE DEF q
  <2>3. x >= 48 => q <= x
    BY <2>2, SMT
  <2>4. size >= 48 => q <= size
    BY <1>1, <2>2, SMT
  <2> QED BY <2>1, <2>2, <2>3, <2>4 DEF q
<1>2. CASE ~(size = 0 \/ x < size)
  <2>1. RequestedSize(x, size) = quantizeRlcSize(size)
    BY <1>2 DEF RequestedSize
  <2> DEFINE q == quantizeRlcSize(size)
  <2>2. q \in Nat /\ 48 <= q /\ q <= LargestCommon /\ (q <= size \/ (size <= 48 /\ q = 48))
    BY Quantized
  <2> HIDE DEF q
  <2>3. x >= 48 => q <= x
    BY <1>2, <2>2, SMT
  <2>4. size >= 48 => q <= size
    BY <2>2, SMT
  <2> QED BY <2>1, <2>2, <2>3, <2>4 DEF q
<1> QED BY <1>1, <1>2

LEMMA OneSize == ASSUME NEW n \in Nat PROVE Max({n}) = n
<1>1. \E x \in {n} : \A y \in {n} : x >= y
  BY SMT
<1> QED BY <1>1, Zenon DEF Max

-----------------------------------------------------------------------------
(* The channels of a link.                                                  *)

LEMMA DlFrameSize ==
  ASSUME NEW sf \in SpreadingFactors
  PROVE  getDlRadioFrameSize(sf) \in Nat /\ getDlRadioFrameSize(sf) >= 270
<1>1. /\ 2 ^ (0 + 2) = 4 /\ 2 ^ (1 + 2) = 8 /\ 2 ^ (2 + 2) = 16 /\ 2 ^ (3 + 2) = 32
      /\ 2 ^ (4 + 2) = 64 /\ 2 ^ (5 + 2) = 128 /\ 2 ^ (6 + 2) = 256
  BY SMT
<1>2. \E tier \in 0 .. 6 : sf = 2 ^ (tier + 2)
  <2>1. /\ 0 \in 0 .. 6 /\ 1 \in 0 .. 6 /\ 2 \in 0 .. 6 /\ 3 \in 0 .. 6 /\ 4 \in 0 .. 6
        /\ 5 \in 0 .. 6 /\ 6 \in 0 .. 6
    BY SMT
  <2> QED BY <1>1, <2>1 DEF SpreadingFactors
<1>3. sf2tier(sf) \in 0 .. 6
  BY <1>2, Zenon DEF sf2tier
<1> DEFINE tier == sf2tier(sf)
<1>4. 1 + tier \in 1 .. 7
  BY <1>3, SMT
<1> HIDE DEF tier
<1>5. SlotInfoSccpchByTier[1 + tier] \in {16, 14, 12, 10, 8, 6, 2}
  BY <1>4, SMT DEF SlotInfoSccpchByTier
<1> DEFINE f == SlotInfoSccpchByTier[1 + tier]
<1> HIDE DEF f
<1>6. SlotInfoSccpch[1 + f] \in {18, 38, 38, 72, 152, 312, 632, 1272}
  BY <1>5, SMT DEF SlotInfoSccpch, f
<1>7. getDlSlotFormat(sf) \in {18, 38, 72, 152, 312, 632, 1272}
  BY <1>6 DEF getDlSlotFormat, f, tier
<1> HIDE DEF f
<1> DEFINE g == getDlSlotFormat(sf)
<1>8. g \in {18, 38, 72, 152, 312, 632, 1272}
  BY <1>7
<1> HIDE DEF g
<1>9. 15 * g \in Nat /\ 15 * g >= 270
  BY <1>8, SMT
<1> QED BY <1>9 DEF getDlRadioFrameSize, gFrameSlots, g

LEMMA OneFrame == TTICode2NumFrames(TTI10ms) = 1 /\ TTICode2TTI(TTI10ms) = 10
BY SMT DEF TTICode2NumFrames, TTI10ms, TTICode2TTI

\* FACH: one block of s bits, which a radio frame has room for.
LEMMA FachBlock ==
  ASSUME NEW sf \in SpreadingFactors, NEW size \in Nat
  PROVE  \E s \in Nat :
           /\ 48 <= s /\ s <= LargestCommon
           /\ configFachTrCh(sf, TTI10ms, 12, size) = FachTrChs(s, TTI10ms, 12)
           /\ R2EncodedSize(s + 12) <= getDlRadioFrameSize(sf)
           /\ size >= 48 => s <= size
<1> DEFINE Yi == getDlRadioFrameSize(sf)
           x == R2DecodedSize(Yi) - 12
           s == RequestedSize(x, size)
<1>1. Yi \in Nat /\ Yi >= 270
  BY DlFrameSize
<1>2. configFachTrCh(sf, TTI10ms, 12, size) = FachTrChs(s, TTI10ms, 12)
  <2>1. Yi * TTICode2NumFrames(TTI10ms) = Yi
    BY <1>1, OneFrame, SMT
  <2> QED BY <2>1 DEF configFachTrCh
<1> HIDE DEF Yi
<1>3. Estimate(Yi) \in Nat /\ 72 \in 0 .. Estimate(Yi)
  BY <1>1, EstimateType, SMT
<1>4. R2DecodedSize(Yi) \in Nat /\ R2EncodedSize(R2DecodedSize(Yi)) <= Yi /\ 72 <= R2DecodedSize(Yi)
  <2>1. R2EncodedSize(72) <= Yi
    BY <1>1, Encoded72, SMT
  <2> QED BY <1>1, <1>3, <2>1, Decoded
<1>5. x \in Int /\ x >= 48 /\ R2DecodedSize(Yi) = x + 12
  BY <1>4, SMT
<1> HIDE DEF x
<1>6. s \in Nat /\ 48 <= s /\ s <= LargestCommon /\ s <= x /\ (size >= 48 => s <= size)
  <2>1. s \in Nat /\ 48 <= s /\ s <= LargestCommon
    BY <1>5, Requested
  <2>2. s <= x
    BY <1>5, Requested
  <2>3. size >= 48 => s <= size
    BY <1>5, Requested
  <2> QED BY <2>1, <2>2, <2>3, Zenon
<1> HIDE DEF s
<1>7. s + 12 \in Nat /\ s + 12 <= x + 12 /\ x + 12 \in Nat
  BY <1>4, <1>5, <1>6, SMT
<1>8. R2EncodedSize(s + 12) <= R2EncodedSize(x + 12)
  BY <1>7, EncodedMonotone
<1>9. R2EncodedSize(s + 12) <= Yi
  BY <1>1, <1>4, <1>5, <1>7, <1>8, EncodedType, SMT
<1>10. /\ configFachTrCh(sf, TTI10ms, 12, size) = FachTrChs(s, TTI10ms, 12)
       /\ R2EncodedSize(s + 12) <= getDlRadioFrameSize(sf)
       /\ size >= 48 => s <= size
  BY <1>2, <1>6, <1>9 DEF Yi
<1> QED BY <1>6, <1>10

\* RACH: blocks of s bits, at most the 260 asked for.
LEMMA RachBlocks ==
  ASSUME NEW sf \in SpreadingFactors
  PROVE  \E s \in Nat :
           /\ s <= 260
           /\ configRachTrCh(sf, TTI10ms, 16, 260) =
                TrChList(<<defineTrCh(setTrCh("RACH", 1, TRUE, 0), 10, 16,
                                      <<addTF(s, 1), addTF(s, 2)>>)>>,
                         2, <<<<<<0>>, 0>>, <<<<1>>, 1>>>>)
<1> DEFINE Yi == UlRadioFrameSize(sf)
           x == R2DecodedSize(Yi) - 16
           s == RequestedSize(x, 260)
<1>1. Yi \in Nat /\ Yi >= 150 /\ Estimate(Yi) \in Nat
  <2>1. Yi \in Nat /\ Yi >= 150
    BY SMT DEF UlRadioFrameSize, gFrameLen, SpreadingFactors
  <2> HIDE DEF Yi
  <2> QED BY <2>1, SMT DEF Estimate, ZConvolutional
<1>2. Yi * TTICode2NumFrames(TTI10ms) = Yi
  BY <1>1, OneFrame, SMT
<1> HIDE DEF Yi
<1>3. x \in Int
  <2>1. R2DecodedSize(Yi) \in Nat
    BY <1>1, Decoded
  <2> QED BY <2>1, SMT
<1> HIDE DEF x
<1>4. s \in Nat /\ s <= 260
  <2>1. s \in Nat /\ s <= 260
    <3>1. 260 \in Nat /\ 260 >= 48
      BY SMT
    <3> QED BY <1>3, <3>1, Requested
  <2> HIDE DEF s
  <2> QED BY <2>1
<1> HIDE DEF s
<1>5. configRachTrCh(sf, TTI10ms, 16, 260) =
        TrChList(<<defineTrCh(setTrCh("RACH", 1, TRUE, 0), 10, 16,
                              <<addTF(s, 1), addTF(s, 2)>>)>>,
                 2, <<<<<<0>>, 0>>, <<<<1>>, 1>>>>)
  BY <1>2, OneFrame DEF configRachTrCh, Yi, x, s
<1> QED BY <1>4, <1>5

LEMMA OneOf ==
  ASSUME NEW f, NEW s \in Nat, DOMAIN f = 1 .. 2, f[1].mTBSize = s, f[2].mTBSize = s
  PROVE  Max({f[i].mTBSize : i \in DOMAIN f}) = s
<1>1. {f[i].mTBSize : i \in DOMAIN f} = {s}
  <2>1. 1 .. 2 = {1, 2}
    BY SMT
  <2> QED BY <2>1
<1> QED BY <1>1, OneSize

LEMMA FachTfs ==
  ASSUME NEW s \in Nat
  PROVE  LET dl == FachTrChs(s, TTI10ms, 12)
             channel == dl.mChInfo[1]
         IN  /\ channel.info = setTrCh("FACH", 1, TRUE, 0)
             /\ channel.mTfs = RrcTfs(channel.info, 10, 12, <<addTF(s, 0), addTF(s, 1)>>)
             /\ channel.mTfs.mTrChPtr = channel.info
             /\ getMaxTBSize(channel.mTfs) = s
<1> DEFINE channel == FachTrChs(s, TTI10ms, 12).mChInfo[1]
           formats == <<addTF(s, 0), addTF(s, 1)>>
<1>1. /\ channel.info = setTrCh("FACH", 1, TRUE, 0)
      /\ channel.mTfs = RrcTfs(channel.info, 10, 12, formats)
  BY OneFrame DEF FachTrChs, TrChList, defineTrCh
<1>2. channel.mTfs.mTrChPtr = channel.info /\ channel.mTfs.mDynamic = formats
  BY <1>1 DEF RrcTfs
<1>3. DOMAIN formats = 1 .. 2 /\ formats[1].mTBSize = s /\ formats[2].mTBSize = s
  BY DEF addTF
<1>4. getMaxTBSize(channel.mTfs) = Max({formats[i].mTBSize : i \in DOMAIN formats})
  BY <1>2 DEF getMaxTBSize
<1> HIDE DEF formats
<1>5. getMaxTBSize(channel.mTfs) = s
  BY <1>3, <1>4, OneOf
<1> QED BY <1>1, <1>2, <1>5 DEF formats

\* What the bearers of CELL_FACH are.
LEMMA FachBearers ==
  ASSUME NEW rachSF, NEW fachSF, NEW size, NEW rbid \in RbIds,
         valid(DcchConfig(rachSF, fachSF, size).mRB[rbid])
  PROVE  LET info == DcchConfig(rachSF, fachSF, size).mRB[rbid]
         IN  info.mTrChAssigned = 0 /\ info.mRbId = rbid /\ rbid \in 1 .. 3
<1>1. DcchConfig(rachSF, fachSF, size).mRB[rbid]
        = IF rbid \in 1 .. 3 THEN defaultConfig0CFRb(rbid) ELSE RBInfo
  BY DEF DcchConfig, setRBs
<1>2. ~ valid(RBInfo)
  BY DEF valid, RBInfo
<1>3. rbid \in 1 .. 3
  BY <1>1, <1>2
<1> QED BY <1>1, <1>3 DEF defaultConfig0CFRb, defaultConfigSrbRlcAm, WithModes, rb_Identity, RBInfo

\* What those of CELL_DCH are that are not transparent.
LEMMA DchBearers ==
  ASSUME NEW rbid \in RbIds, valid(rrcConfigDchCS.mRB[rbid]), rrcConfigDchCS.mRB[rbid].dlMode # "TM"
  PROVE  LET info == rrcConfigDchCS.mRB[rbid]
         IN  info.mTrChAssigned = 3 /\ info.mRbId = rbid /\ rbid \in 1 .. 3
<1> DEFINE S == {1, 2, 3, 5, 6, 7}
<1>1. rrcConfigDchCS.mRB[rbid] = IF rbid \in S THEN defaultConfig3Rb(rbid) ELSE RBInfo
  BY DEF rrcConfigDchCS, setRBs
<1>2. ~ valid(RBInfo)
  BY DEF valid, RBInfo
<1>3. rbid \in S
  BY <1>1, <1>2
<1>4. rbid \in 5 .. 7 => defaultConfig3Rb(rbid).dlMode = "TM"
  BY SMT DEF defaultConfig3Rb, setTransportChannelIdentity, WithModes, rb_Identity, RBInfo
<1>5. rbid \in 1 .. 3
  BY <1>1, <1>3, <1>4, SMT
<1>6. defaultConfig3Rb(rbid).mTrChAssigned = 3 /\ defaultConfig3Rb(rbid).mRbId = rbid
  BY <1>5 DEF defaultConfig3Rb, setTransportChannelIdentity, WithModes, rb_Identity, RBInfo
<1> QED BY <1>1, <1>3, <1>5, <1>6

LEMMA DchTfs ==
  LET channel == rrcConfigDchCS.mTrCh.dl.mChInfo[4]
  IN  /\ channel.info = setTrCh("DlDCH", 4, TRUE, 0)
      /\ channel.mTfs.mTrChPtr = setTrCh("UlDCH", 4, TRUE, 0)
      /\ getMaxTBSize(channel.mTfs) = 144
<1> DEFINE channel == defaultConfig3TrCh.dl.mChInfo[4]
           formats == <<addTF(144, 0), addTF(144, 1)>>
<1>1. rrcConfigDchCS.mTrCh = defaultConfig3TrCh
  BY DEF rrcConfigDchCS, setRBs
<1>2. /\ channel.info = setTrCh("DlDCH", 4, TRUE, 0)
      /\ channel.mTfs = RrcTfs(setTrCh("UlDCH", 4, TRUE, 0), 40, 16, formats)
  BY DEF defaultConfig3TrCh, TrChList, copyUplink, defineTrCh
<1>3. /\ channel.mTfs.mTrChPtr = setTrCh("UlDCH", 4, TRUE, 0)
      /\ channel.mTfs.mDynamic = formats
  BY <1>2 DEF RrcTfs
<1>4. DOMAIN formats = 1 .. 2 /\ formats[1].mTBSize = 144 /\ formats[2].mTBSize = 144
  BY DEF addTF
<1> HIDE DEF formats
<1>5. Max({formats[i].mTBSize : i \in DOMAIN formats}) = 144
  BY <1>4, OneOf
<1>6. getMaxTBSize(channel.mTfs) = 144
  BY <1>3, <1>5 DEF getMaxTBSize
<1> HIDE DEF channel
<1> QED BY <1>1, <1>2, <1>3, <1>6 DEF channel

\* What computeDlRlcSize makes of the block.
LEMMA PduOfBlock ==
  ASSUME NEW s \in Nat, NEW h \in Nat
  PROVE  /\ (s - h) \div 8 \in Int
         /\ s - (8 * ((s - h) \div 8) + h) \in 0 .. 7
BY SMT

-----------------------------------------------------------------------------
(* What the configurations and the pairs are, always.                      *)

ConfiguredWith(rachSF, fachSF, size) ==
  /\ gRrcDcchConfig = DcchConfig(rachSF, fachSF, size)
  /\ frames = [ul |-> UlRadioFrameSize(rachSF), dl |-> getDlRadioFrameSize(fachSF)]

Configured ==
  inited => \E rachSF \in RachSFs, fachSF \in FachSFs, size \in FachTBSizes :
              ConfiguredWith(rachSF, fachSF, size)

LiOk(pair) == pair.mDlLiSizeBits = mDlLiSizeBits(pair.mDown, pair.mDlPduSizeBytes)

LisFit == \A rbid \in RbIds : \A a \in Addresses : LiOk(heap[rbid][a])

LEMMA DeletedOk == LiOk(Deleted)
BY DEF LiOk, Deleted, mDlLiSizeBits

LEMMA SizesInit == Init => Configured /\ LisFit
BY DeletedOk DEF Init, Configured, LisFit, NoPairs

LEMMA SizesNext == IInv /\ Configured /\ LisFit /\ [Next]_vars => Configured' /\ LisFit'
<1> SUFFICES ASSUME IInv, Configured, LisFit, [Next]_vars PROVE Configured' /\ LisFit'
  OBVIOUS
<1>1. ASSUME UNCHANGED <<inited, gRrcDcchConfig, frames>> PROVE Configured'
  BY <1>1 DEF Configured, ConfiguredWith
<1>2. ASSUME UNCHANGED heap PROVE LisFit'
  BY <1>2 DEF LisFit
<1>3. ASSUME NEW rachSF \in RachSFs, NEW fachSF \in FachSFs, NEW size \in FachTBSizes,
             rrcInitCommonCh(rachSF, fachSF, size)
      PROVE  Configured' /\ LisFit'
  <2>1. ConfiguredWith(rachSF, fachSF, size)' /\ UNCHANGED heap
    BY <1>3 DEF rrcInitCommonCh, ConfiguredWith
  <2>2. Configured'
    BY <2>1 DEF Configured
  <2> QED BY <1>2, <2>1, <2>2
<1>4. CASE NewUe
  <2>1. UNCHANGED <<inited, gRrcDcchConfig, frames>> /\ heap' = NoPairs
    BY <1>4 DEF NewUe
  <2>2. LisFit'
    BY <2>1, DeletedOk DEF LisFit, NoPairs
  <2> QED BY <1>1, <2>1, <2>2
<1>5. ASSUME NEW state \in States, ueConnectRlc(state) PROVE Configured' /\ LisFit'
  BY <1>1, <1>2, <1>5 DEF ueConnectRlc
<1>6. ASSUME NEW state \in States, Disconnect(state) PROVE LisFit'
  <2>1. \A rbid \in RbIds : \A a \in Addresses :
          heap'[rbid][a] = Deleted \/ heap'[rbid][a] = heap[rbid][a]
    BY <1>6, Zenon DEF Disconnect
  <2> QED BY <2>1, DeletedOk, Zenon DEF LisFit
<1>7. ASSUME NEW state \in States, ueDisconnectRlc(state) PROVE Configured' /\ LisFit'
  BY <1>1, <1>6, <1>7 DEF ueDisconnectRlc
<1>8. CASE Purge
  BY <1>1, <1>6, <1>8 DEF Purge, States
<1>9. CASE SkipBearer \/ KeepBearer \/ CopyBearer \/ ConnectEnds
  BY <1>1, <1>2, <1>9 DEF SkipBearer, KeepBearer, CopyBearer, ConnectEnds, NextBearer
<1>10. CASE AllocateBearer
  <2>1. UNCHANGED <<inited, gRrcDcchConfig, frames>>
    BY <1>10 DEF AllocateBearer, NextBearer
  <2>2. PICK b \in Addresses : heap' = [heap EXCEPT ![index][b] = URlcPair(rb, dltfs)]
    BY <1>10, Zenon DEF AllocateBearer
  <2>3. LiOk(URlcPair(rb, dltfs))
    BY Zenon DEF LiOk, URlcPair
  <2>4. DOMAIN heap = RbIds /\ \A rbid \in RbIds : DOMAIN heap[rbid] = Addresses
    BY Zenon DEF IInv, TypeOK
  <2>5. \A rbid \in RbIds : \A a \in Addresses :
          heap'[rbid][a] = URlcPair(rb, dltfs) \/ heap'[rbid][a] = heap[rbid][a]
    <3> DEFINE p == URlcPair(rb, dltfs)
    <3> HIDE DEF p
    <3> QED BY <2>2, <2>4, Zenon DEF p
  <2>6. LisFit'
    BY <2>3, <2>5, Zenon DEF LisFit
  <2> QED BY <1>1, <2>1, <2>6
<1>11. CASE UNCHANGED vars
  BY <1>1, <1>2, <1>11 DEF vars
<1> QED
  BY <1>3, <1>4, <1>5, <1>7, <1>8, <1>9, <1>10, <1>11, Zenon DEF Next

LEMMA SpecSizes == Spec => [](IInv /\ Configured /\ LisFit)
<1>1. Init => IInv /\ Configured /\ LisFit
  BY InitInv, SizesInit
<1>2. IInv /\ [Next]_vars => IInv'
  BY StepInv
<1> QED BY <1>1, <1>2, SizesNext, PTL DEF Spec

-----------------------------------------------------------------------------
(* PDUs and blocks.                                                         *)

\* The PDU size and the length indicators of a bearer that is connected.
LEMMA FachPdus ==
  ASSUME IInv, Configured, LisFit, exists, NEW rbid \in Filled("CELL_FACH"),
         PairIn("CELL_FACH", rbid).mDown # "TM"
  PROVE  \E s \in Nat :
           LET pair == PairIn("CELL_FACH", rbid)
               info == gRrcDcchConfig.mRB[rbid]
               channel == gRrcDcchConfig.mTrCh.dl.mChInfo[1]
           IN  /\ info.mTrChAssigned = 0 /\ getMaxTBSize(channel.mTfs) = s
               /\ pair.mDlPduSizeBytes = (s - 24) \div 8
               /\ 48 <= s /\ s <= LargestCommon
               /\ \E size \in FachTBSizes : size >= 48 => s <= size
<1> DEFINE pair == PairIn("CELL_FACH", rbid)
           info == gRrcDcchConfig.mRB[rbid]
           channel == gRrcDcchConfig.mTrCh.dl.mChInfo[1]
<1>1. inited /\ rbid \in RbIds /\ "CELL_FACH" \in States
      /\ config("CELL_FACH") = gRrcDcchConfig
  BY DEF IInv, InOrder, Filled, States, config
<1>2. PICK rachSF \in RachSFs, fachSF \in FachSFs, size \in FachTBSizes :
        ConfiguredWith(rachSF, fachSF, size)
  BY <1>1 DEF Configured
<1>3. gRrcDcchConfig = DcchConfig(rachSF, fachSF, size)
  BY <1>2 DEF ConfiguredWith
<1>4. fachSF \in SpreadingFactors /\ size \in Nat
  BY SpreadingAssumption
<1>5. PICK s \in Nat : /\ 48 <= s /\ s <= LargestCommon
                       /\ configFachTrCh(fachSF, TTI10ms, 12, size) = FachTrChs(s, TTI10ms, 12)
                       /\ size >= 48 => s <= size
  BY <1>4, FachBlock
<1>6. gRrcDcchConfig.mTrCh.dl = FachTrChs(s, TTI10ms, 12)
  BY <1>3, <1>5 DEF DcchConfig, setRBs
<1>7. /\ channel.mTfs.mTrChPtr = setTrCh("FACH", 1, TRUE, 0)
      /\ getMaxTBSize(channel.mTfs) = s
  BY <1>6, FachTfs
<1>8. Matches("CELL_FACH", rbid)
  BY <1>1, MatchesAll DEF IInv
<1>9. /\ valid(info) /\ pair.mDown = info.dlMode
      /\ pair.mDlPduSizeBytes = computeDlRlcSize(info, getDlTfs(gRrcDcchConfig, info.mTrChAssigned))
  BY <1>1, <1>8 DEF Matches
<1>10. info.mTrChAssigned = 0 /\ info.mRbId = rbid /\ rbid \in 1 .. 3
  BY <1>1, <1>3, <1>9, FachBearers
<1>11. getDlTfs(gRrcDcchConfig, 0) = channel.mTfs
  BY SMT DEF getDlTfs
<1> HIDE DEF channel, info, pair
<1>12. pair.mDlPduSizeBytes = computeDlRlcSize(info, channel.mTfs)
  BY <1>9, <1>10, <1>11
<1>13. macHeaderSize("FACH", info.mRbId, TRUE) = 24
  BY <1>10, SMT DEF macHeaderSize
<1>14. info.dlMode # "TM"
  BY <1>9 DEF pair
<1>15. pair.mDlPduSizeBytes = (s - 24) \div 8
  <2> DEFINE tc == channel.mTfs.mTrChPtr
  <2>1. tc.mTransportChType = "FACH" /\ tc.mTcIsMultiplexed = TRUE
    BY <1>7 DEF setTrCh
  <2>2. computeDlRlcSize(info, channel.mTfs)
          = (getMaxTBSize(channel.mTfs)
               - macHeaderSize(tc.mTransportChType, info.mRbId, tc.mTcIsMultiplexed)) \div 8
    BY <1>14, Zenon DEF computeDlRlcSize
  <2> HIDE DEF tc
  <2> QED BY <1>7, <1>12, <1>13, <2>1, <2>2
<1>16. /\ info.mTrChAssigned = 0 /\ getMaxTBSize(channel.mTfs) = s
       /\ pair.mDlPduSizeBytes = (s - 24) \div 8
       /\ 48 <= s /\ s <= LargestCommon
       /\ \E z \in FachTBSizes : z >= 48 => s <= z
  BY <1>5, <1>7, <1>10, <1>15
<1> QED BY <1>16 DEF channel, info, pair

LEMMA DchPdus ==
  ASSUME IInv, Configured, LisFit, exists, NEW rbid \in Filled("CELL_DCH"),
         PairIn("CELL_DCH", rbid).mDown # "TM"
  PROVE  LET info == rrcConfigDchCS.mRB[rbid]
             channel == rrcConfigDchCS.mTrCh.dl.mChInfo[4]
         IN  /\ info.mTrChAssigned = 3 /\ getMaxTBSize(channel.mTfs) = 144
             /\ channel.info.mTcIsMultiplexed
             /\ PairIn("CELL_DCH", rbid).mDlPduSizeBytes = 17
<1> DEFINE pair == PairIn("CELL_DCH", rbid)
           info == rrcConfigDchCS.mRB[rbid]
           channel == rrcConfigDchCS.mTrCh.dl.mChInfo[4]
<1>1. rbid \in RbIds /\ "CELL_DCH" \in States /\ config("CELL_DCH") = rrcConfigDchCS
  BY DEF Filled, States, config
<1>2. Matches("CELL_DCH", rbid)
  BY <1>1, MatchesAll DEF IInv
<1>3. /\ valid(info) /\ pair.mDown = info.dlMode
      /\ pair.mDlPduSizeBytes = computeDlRlcSize(info, getDlTfs(rrcConfigDchCS, info.mTrChAssigned))
  BY <1>1, <1>2 DEF Matches
<1>4. info.mTrChAssigned = 3 /\ info.mRbId = rbid /\ rbid \in 1 .. 3
  BY <1>1, <1>3, DchBearers
<1>5. getDlTfs(rrcConfigDchCS, 3) = channel.mTfs
  BY SMT DEF getDlTfs
<1>6. /\ channel.info = setTrCh("DlDCH", 4, TRUE, 0)
      /\ channel.mTfs.mTrChPtr = setTrCh("UlDCH", 4, TRUE, 0)
      /\ getMaxTBSize(channel.mTfs) = 144
  BY DchTfs
<1> HIDE DEF channel, info, pair
<1>7. pair.mDlPduSizeBytes = computeDlRlcSize(info, channel.mTfs)
  BY <1>3, <1>4, <1>5
<1>8. macHeaderSize("UlDCH", info.mRbId, TRUE) = 4
  BY <1>4, SMT DEF macHeaderSize
<1>9. info.dlMode # "TM"
  BY <1>3 DEF pair
<1>10. pair.mDlPduSizeBytes = (144 - 4) \div 8
  <2> DEFINE tc == channel.mTfs.mTrChPtr
  <2>1. tc.mTransportChType = "UlDCH" /\ tc.mTcIsMultiplexed = TRUE
    BY <1>6 DEF setTrCh
  <2>2. computeDlRlcSize(info, channel.mTfs)
          = (getMaxTBSize(channel.mTfs)
               - macHeaderSize(tc.mTransportChType, info.mRbId, tc.mTcIsMultiplexed)) \div 8
    BY <1>9, Zenon DEF computeDlRlcSize
  <2> HIDE DEF tc
  <2> QED BY <1>6, <1>7, <1>8, <2>1, <2>2
<1>11. (144 - 4) \div 8 = 17
  BY SMT
<1>12. channel.info.mTcIsMultiplexed
  BY <1>6 DEF setTrCh
<1> QED BY <1>4, <1>6, <1>10, <1>11, <1>12 DEF channel, info, pair

\* For every spreading factor and block size a PDU with its MAC header fills a
\* transport block but for less than an octet (RBInfo::computeDlRlcSize), also
\* when the pair was made for the other state of the UE.
THEOREM SpecPdusFitBlocks == Spec => []PdusFitBlocks
<1>1. IInv /\ Configured /\ LisFit => PdusFitBlocks
  <2> SUFFICES ASSUME IInv, Configured, LisFit, exists, NEW state \in States,
                      NEW rbid \in Filled(state), PairIn(state, rbid).mDown # "TM"
               PROVE  LET channel == config(state).mTrCh.dl.mChInfo[config(state).mRB[rbid].mTrChAssigned + 1]
                          header == IF state = "CELL_FACH" THEN 24
                                    ELSE IF channel.info.mTcIsMultiplexed THEN 4 ELSE 0
                          bits == 8 * PairIn(state, rbid).mDlPduSizeBytes + header
                      IN  getMaxTBSize(channel.mTfs) - bits \in 0 .. 7
    BY Zenon DEF PdusFitBlocks
  <2>1. CASE state = "CELL_FACH"
    <3> DEFINE channel == gRrcDcchConfig.mTrCh.dl.mChInfo[1]
    <3>1. PICK s \in Nat :
            /\ gRrcDcchConfig.mRB[rbid].mTrChAssigned = 0 /\ getMaxTBSize(channel.mTfs) = s
            /\ PairIn(state, rbid).mDlPduSizeBytes = (s - 24) \div 8
      BY <2>1, FachPdus
    <3>2. s - (8 * ((s - 24) \div 8) + 24) \in 0 .. 7
      BY PduOfBlock
    <3>3. config(state) = gRrcDcchConfig /\ 0 + 1 = 1
      BY <2>1, SMT DEF config
    <3> HIDE DEF channel
    <3>4. getMaxTBSize(channel.mTfs) - (8 * PairIn(state, rbid).mDlPduSizeBytes + 24) \in 0 .. 7
      BY <3>1, <3>2
    <3> QED BY <2>1, <3>1, <3>3, <3>4 DEF channel
  <2>2. CASE state = "CELL_DCH"
    <3> DEFINE channel == rrcConfigDchCS.mTrCh.dl.mChInfo[4]
    <3>1. /\ rrcConfigDchCS.mRB[rbid].mTrChAssigned = 3 /\ getMaxTBSize(channel.mTfs) = 144
          /\ channel.info.mTcIsMultiplexed
          /\ PairIn(state, rbid).mDlPduSizeBytes = 17
      BY <2>2, DchPdus
    <3>2. 144 - (8 * 17 + 4) \in 0 .. 7
      BY SMT
    <3>3. config(state) = rrcConfigDchCS /\ 3 + 1 = 4 /\ state # "CELL_FACH"
      BY <2>2, SMT DEF config
    <3>4. config(state).mTrCh.dl.mChInfo[config(state).mRB[rbid].mTrChAssigned + 1] = channel
      BY <3>1, <3>3
    <3> HIDE DEF channel
    <3>5. getMaxTBSize(channel.mTfs) - (8 * PairIn(state, rbid).mDlPduSizeBytes + 4) \in 0 .. 7
      BY <3>1, <3>2
    <3>6. (IF state = "CELL_FACH" THEN 24 ELSE IF channel.info.mTcIsMultiplexed THEN 4 ELSE 0) = 4
      BY <3>1, <3>3
    <3> QED BY <3>4, <3>5, <3>6
  <2> QED BY <2>1, <2>2 DEF States
<1> QED BY <1>1, SpecSizes, PTL

\* Up to blocks of 1031 bits - the code asks for 360 - the length indicators of a
\* pair tell every length in its PDU.  With 1032 a PDU of UM, which has
\* indicators of seven bits whatever its size (URlcConfigAmUm), would be too long.
THEOREM SpecLiCoversPdu ==
  ASSUME \A size \in FachTBSizes : 48 <= size /\ size < 1032
  PROVE  Spec => []LiCoversPdu
<1>1. IInv /\ Configured /\ LisFit => LiCoversPdu
  <2> SUFFICES ASSUME IInv, Configured, LisFit, exists, NEW state \in States,
                      NEW rbid \in Filled(state), PairIn(state, rbid).mDown # "TM"
               PROVE  LET pair == PairIn(state, rbid)
                          overhead == IF pair.mDown = "AM" THEN 2 ELSE 1
                      IN  pair.mDlPduSizeBytes - overhead - (pair.mDlLiSizeBits + 1) \div 8
                            < 2 ^ pair.mDlLiSizeBits - 4
    BY Zenon DEF LiCoversPdu
  <2> DEFINE pair == PairIn(state, rbid)
             p == pair.mDlPduSizeBytes
  <2>1. p \in Int /\ p <= 125
    <3>1. CASE state = "CELL_FACH"
      <4>1. PICK s \in Nat : /\ p = (s - 24) \div 8
                             /\ \E size \in FachTBSizes : size >= 48 => s <= size
        BY <3>1, FachPdus
      <4>2. PICK size \in FachTBSizes : size >= 48 => s <= size
        BY <4>1
      <4>3. size \in Nat /\ 48 <= size /\ size < 1032
        BY SpreadingAssumption
      <4> HIDE DEF p
      <4>4. s < 1032
        BY <4>2, <4>3, SMT
      <4> QED BY <4>1, <4>4, SMT
    <3>2. CASE state = "CELL_DCH"
      <4>1. p = 17
        BY <3>2, DchPdus
      <4> HIDE DEF p
      <4> QED BY <4>1, SMT
    <3> QED BY <3>1, <3>2 DEF States
  <2>2. pair.mDlLiSizeBits = mDlLiSizeBits(pair.mDown, p)
    <3>1. rbid \in RbIds /\ mRlcs[state][rbid] \in Addresses
      <4>1. rbid \in RbIds /\ mRlcs[state][rbid] # Null
        BY DEF Filled
      <4>2. mRlcs[state][rbid] \in Addresses \cup {Null}
        BY <4>1 DEF IInv, TypeOK
      <4> QED BY <4>1, <4>2
    <3> QED BY <3>1, Zenon DEF LisFit, LiOk, PairIn
  <2> HIDE DEF pair, p
  <2>3. pair.mDlLiSizeBits = 7
    BY <2>1, <2>2, SMT DEF mDlLiSizeBits
  <2>4. p - (IF pair.mDown = "AM" THEN 2 ELSE 1) - (7 + 1) \div 8 < 2 ^ 7 - 4
    BY <2>1, SMT
  <2> QED BY <2>3, <2>4 DEF pair, p
<1> QED BY <1>1, SpecSizes, PTL

\* The blocks configFachTrCh chooses, with their parity bits and coded, fit in a
\* radio frame of any spreading factor; both formats of configRachTrCh fit up to
\* factor 32, which is what the code configures.  From 64 on two blocks do not.
THEOREM SpecFormatsFit ==
  ASSUME RachSFs \subseteq {4, 8, 16, 32} PROVE Spec => []FormatsFit
<1>1. IInv /\ Configured /\ LisFit => FormatsFit
  <2> SUFFICES ASSUME IInv, Configured, inited
               PROVE  /\ Fits(gRrcDcchConfig.mTrCh.ul.mChInfo[1].mTfs, frames.ul)
                      /\ Fits(gRrcDcchConfig.mTrCh.dl.mChInfo[1].mTfs, frames.dl)
    BY DEF FormatsFit
  <2>1. PICK rachSF \in RachSFs, fachSF \in FachSFs, size \in FachTBSizes :
          ConfiguredWith(rachSF, fachSF, size)
    BY DEF Configured
  <2>2. rachSF \in {4, 8, 16, 32} /\ fachSF \in SpreadingFactors /\ size \in Nat
        /\ rachSF \in SpreadingFactors
    BY SpreadingAssumption
  <2>3. /\ gRrcDcchConfig.mTrCh.ul = configRachTrCh(rachSF, TTI10ms, 16, 260)
        /\ gRrcDcchConfig.mTrCh.dl = configFachTrCh(fachSF, TTI10ms, 12, size)
        /\ frames.ul = UlRadioFrameSize(rachSF) /\ frames.dl = getDlRadioFrameSize(fachSF)
    BY <2>1 DEF ConfiguredWith, DcchConfig, setRBs
  <2>4. 10 \div 10 = 1
    BY SMT
  <2>5. Fits(gRrcDcchConfig.mTrCh.dl.mChInfo[1].mTfs, frames.dl)
    <3>1. PICK s \in Nat :
            /\ configFachTrCh(fachSF, TTI10ms, 12, size) = FachTrChs(s, TTI10ms, 12)
            /\ R2EncodedSize(s + 12) <= getDlRadioFrameSize(fachSF)
      BY <2>2, FachBlock
    <3> DEFINE tfs == gRrcDcchConfig.mTrCh.dl.mChInfo[1].mTfs
               y == frames.dl
    <3>2. tfs.mDynamic = <<addTF(s, 0), addTF(s, 1)>> /\ tfs.mCRCSize = 12 /\ tfs.mTTI = 10
      <4> DEFINE info == gRrcDcchConfig.mTrCh.dl.mChInfo[1].info
                 formats == <<addTF(s, 0), addTF(s, 1)>>
      <4>1. gRrcDcchConfig.mTrCh.dl = FachTrChs(s, TTI10ms, 12)
        BY <2>3, <3>1
      <4>2. tfs = RrcTfs(info, 10, 12, formats)
        BY <4>1, FachTfs
      <4> HIDE DEF info, formats, tfs
      <4>3. tfs.mDynamic = formats /\ tfs.mCRCSize = 12 /\ tfs.mTTI = 10
        BY <4>2 DEF RrcTfs
      <4> QED BY <4>3 DEF formats
    <3>3. y \in Nat /\ R2EncodedSize(s + 12) <= y
      BY <2>2, <2>3, <3>1, DlFrameSize
    <3> HIDE DEF tfs, y
    <3>4. y * getTTINumFrames(tfs) = y
      BY <2>4, <3>2, <3>3, SMT DEF getTTINumFrames
    <3>5. 0 * (s + 12) = 0 /\ 1 * (s + 12) = s + 12
      BY SMT
    <3>6. R2EncodedSize(0 * (s + 12)) <= y /\ R2EncodedSize(1 * (s + 12)) <= y
      BY <3>3, <3>5, EncodedZero
    <3>7. DOMAIN tfs.mDynamic = {1, 2}
      BY <3>2, SMT
    <3>8. /\ tfs.mDynamic[1].mNumTB = 0 /\ tfs.mDynamic[1].mTBSize = s
          /\ tfs.mDynamic[2].mNumTB = 1 /\ tfs.mDynamic[2].mTBSize = s
      BY <3>2 DEF addTF
    <3>9. Fits(tfs, y)
      BY <3>2, <3>4, <3>6, <3>7, <3>8 DEF Fits
    <3> QED BY <3>9 DEF tfs, y
  <2>6. Fits(gRrcDcchConfig.mTrCh.ul.mChInfo[1].mTfs, frames.ul)
    <3>1. PICK s \in Nat :
            /\ s <= 260
            /\ configRachTrCh(rachSF, TTI10ms, 16, 260) =
                 TrChList(<<defineTrCh(setTrCh("RACH", 1, TRUE, 0), 10, 16,
                                       <<addTF(s, 1), addTF(s, 2)>>)>>,
                          2, <<<<<<0>>, 0>>, <<<<1>>, 1>>>>)
      BY <2>2, RachBlocks
    <3> DEFINE tfs == gRrcDcchConfig.mTrCh.ul.mChInfo[1].mTfs
               y == frames.ul
    <3>2. tfs.mDynamic = <<addTF(s, 1), addTF(s, 2)>> /\ tfs.mCRCSize = 16 /\ tfs.mTTI = 10
      BY <2>3, <3>1 DEF RrcTfs, TrChList, defineTrCh
    <3>3. y \in Nat /\ y >= 1200
      BY <2>2, <2>3, SMT DEF UlRadioFrameSize, gFrameLen
    <3> HIDE DEF tfs, y
    <3>4. y * getTTINumFrames(tfs) = y
      BY <2>4, <3>2, <3>3, SMT DEF getTTINumFrames
    <3>5. /\ 1 * (s + 16) \in Nat /\ 1 * (s + 16) <= 552
          /\ 2 * (s + 16) \in Nat /\ 2 * (s + 16) <= 552
      BY <3>1, SMT
    <3>6. R2EncodedSize(552) = 1136 /\ 552 \in Nat
      BY SMT DEF R2EncodedSize, ZConvolutional
    <3>7. R2EncodedSize(1 * (s + 16)) <= 1136 /\ R2EncodedSize(2 * (s + 16)) <= 1136
      BY <3>5, <3>6, EncodedMonotone
    <3>8. R2EncodedSize(1 * (s + 16)) <= y /\ R2EncodedSize(2 * (s + 16)) <= y
      <4>1. R2EncodedSize(1 * (s + 16)) \in Nat /\ R2EncodedSize(2 * (s + 16)) \in Nat
        BY <3>5, EncodedType
      <4> QED BY <3>3, <3>7, <4>1, SMT
    <3>9. DOMAIN tfs.mDynamic = {1, 2}
      BY <3>2, SMT
    <3>10. /\ tfs.mDynamic[1].mNumTB = 1 /\ tfs.mDynamic[1].mTBSize = s
           /\ tfs.mDynamic[2].mNumTB = 2 /\ tfs.mDynamic[2].mTBSize = s
      BY <3>2 DEF addTF
    <3>11. Fits(tfs, y)
      BY <3>2, <3>4, <3>8, <3>9, <3>10 DEF Fits
    <3> QED BY <3>11 DEF tfs, y
  <2> QED BY <2>5, <2>6
<1> QED BY <1>1, SpecSizes, PTL

-----------------------------------------------------------------------------
(* Combinations of formats.                                                *)

IsCtfc(f, channels, tfi) ==
  f = [ch \in 1 .. Len(channels) |->
         tfi[ch] + IF ch = Len(channels) THEN 0 ELSE getNumTF(channels[ch].mTfs) * f[ch + 1]]

LEMMA OneDigit ==
  ASSUME NEW channels, Len(channels) = 1, NEW t \in Nat
  PROVE  setTfc(channels, <<t>>) = t
<1> DEFINE f == CHOOSE f : IsCtfc(f, channels, <<t>>)
           g == [ch \in 1 .. 1 |-> t]
<1>1. setTfc(channels, <<t>>) = f[1]
  BY DEF setTfc, IsCtfc
<1>2. IsCtfc(g, channels, <<t>>)
  BY SMT DEF IsCtfc
<1>3. IsCtfc(f, channels, <<t>>)
  BY <1>2, Zenon
<1> HIDE DEF f
<1>4. f[1] = t
  BY <1>3, SMT DEF IsCtfc
<1> QED BY <1>1, <1>4

\* Four digits of which the first may be 0, 1 or 2 and the others 0 or 1.
Digits(a, b, c, d) == a + 3 * (b + 2 * (c + 2 * d))

IsVoice(channels) ==
  /\ Len(channels) = 4 /\ getNumTF(channels[1].mTfs) = 3
  /\ getNumTF(channels[2].mTfs) = 2 /\ getNumTF(channels[3].mTfs) = 2

LEMMA FourDigits ==
  ASSUME NEW channels, IsVoice(channels),
         NEW a \in Nat, NEW b \in Nat, NEW c \in Nat, NEW d \in Nat
  PROVE  setTfc(channels, <<a, b, c, d>>) = Digits(a, b, c, d)
<1> DEFINE t == <<a, b, c, d>>
           f == CHOOSE f : IsCtfc(f, channels, t)
           g3 == c + 2 * d
           g2 == b + 2 * g3
           g1 == a + 3 * g2
           g == <<g1, g2, g3, d>>
<1>0. /\ Len(channels) = 4 /\ getNumTF(channels[1].mTfs) = 3
      /\ getNumTF(channels[2].mTfs) = 2 /\ getNumTF(channels[3].mTfs) = 2
  BY DEF IsVoice
<1>1. setTfc(channels, t) = f[1]
  BY <1>0 DEF setTfc, IsCtfc
<1>2. 1 .. 4 = {1, 2, 3, 4} /\ 1 + 1 = 2 /\ 2 + 1 = 3 /\ 3 + 1 = 4 /\ d + 0 = d
  BY SMT
<1>3. IsCtfc(g, channels, t)
  <2> DEFINE h == [ch \in 1 .. 4 |->
                     t[ch] + IF ch = 4 THEN 0 ELSE getNumTF(channels[ch].mTfs) * g[ch + 1]]
  <2>1. h[1] = g1 /\ h[2] = g2 /\ h[3] = g3 /\ h[4] = d
    BY <1>0, <1>2
  <2>2. g = h
    <3>1. DOMAIN g = 1 .. 4 /\ g = [i \in 1 .. 4 |-> g[i]]
      OBVIOUS
    <3>2. \A i \in 1 .. 4 : g[i] = h[i]
      BY <1>0, <1>2, <2>1
    <3> QED BY <3>1, <3>2
  <2> QED BY <1>0, <2>2 DEF IsCtfc
<1>4. IsCtfc(f, channels, t)
  BY <1>3, Zenon
<1> HIDE DEF f
<1>5. \A ch \in 1 .. 4 :
        f[ch] = t[ch] + IF ch = 4 THEN 0 ELSE getNumTF(channels[ch].mTfs) * f[ch + 1]
  BY <1>0, <1>4, Zenon DEF IsCtfc
<1>6. f[4] = d
  BY <1>0, <1>2, <1>5
<1>7. f[3] = c + 2 * d
  BY <1>0, <1>2, <1>5, <1>6
<1>8. f[2] = b + 2 * (c + 2 * d)
  BY <1>0, <1>2, <1>5, <1>7
<1>9. f[1] = a + 3 * (b + 2 * (c + 2 * d))
  BY <1>0, <1>2, <1>5, <1>8
<1> QED BY <1>1, <1>9 DEF Digits

\* The combinations of RACH and of FACH.
LEMMA CommonWellFormed ==
  ASSUME NEW channel
  PROVE  WellFormed(TrChList(<<channel>>, 2, <<<<<<0>>, 0>>, <<<<1>>, 1>>>>))
<1> DEFINE combinations == <<<<<<0>>, 0>>, <<<<1>>, 1>>>>
           list == TrChList(<<channel>>, 2, combinations)
           tfcs == list.mTfcList
<1>1. list.mCtfcSize = 2 /\ DOMAIN tfcs = {1, 2}
  <2>1. DOMAIN combinations = {1, 2}
    BY SMT
  <2> QED BY <2>1 DEF TrChList
<1>2. setTfc(<<channel>>, <<0>>) = 0 /\ setTfc(<<channel>>, <<1>>) = 1
  <2>1. Len(<<channel>>) = 1
    OBVIOUS
  <2> QED BY <2>1, OneDigit
<1>3. tfcs[1].mCTFC = 0 /\ tfcs[1].check = 0 /\ tfcs[2].mCTFC = 1 /\ tfcs[2].check = 1
  <2>1. tfcs = [i \in DOMAIN combinations |->
                   addTFC(<<channel>>, combinations[i][1], combinations[i][2])]
    BY DEF TrChList
  <2>2. tfcs[1] = addTFC(<<channel>>, <<0>>, 0) /\ tfcs[2] = addTFC(<<channel>>, <<1>>, 1)
    BY <2>1, SMT
  <2> QED BY <1>2, <2>2 DEF addTFC
<1> HIDE DEF list
<1>4. 0 < 2 ^ 2 /\ 1 < 2 ^ 2
  BY SMT
<1>5. IsInjective([i \in DOMAIN tfcs |-> tfcs[i].mCTFC])
  BY <1>1, <1>3 DEF IsInjective
<1>6. \A i \in DOMAIN tfcs : tfcs[i].mCTFC = tfcs[i].check /\ tfcs[i].mCTFC < 2 ^ 2
  BY <1>1, <1>3, <1>4
<1> QED BY <1>1, <1>5, <1>6 DEF WellFormed, list

\* The combinations of the voice channels.
LEMMA VoiceWellFormed ==
  ASSUME NEW channels, IsVoice(channels)
  PROVE  WellFormed(TrChList(channels, 6,
           <<<<<<0, 0, 0, 0>>, 0>>, <<<<1, 0, 0, 0>>, 1>>, <<<<2, 1, 1, 0>>, 11>>,
             <<<<0, 0, 0, 1>>, 12>>, <<<<1, 0, 0, 1>>, 13>>, <<<<2, 1, 1, 1>>, 23>>>>))
<1> DEFINE combinations ==
             <<<<<<0, 0, 0, 0>>, 0>>, <<<<1, 0, 0, 0>>, 1>>, <<<<2, 1, 1, 0>>, 11>>,
               <<<<0, 0, 0, 1>>, 12>>, <<<<1, 0, 0, 1>>, 13>>, <<<<2, 1, 1, 1>>, 23>>>>
           list == TrChList(channels, 6, combinations)
           tfcs == list.mTfcList
           Ctfc(i) == combinations[i][2]
<1>1. /\ list.mCtfcSize = 6
      /\ tfcs = [i \in DOMAIN combinations |->
                   addTFC(channels, combinations[i][1], combinations[i][2])]
  BY DEF TrChList
<1>2. DOMAIN combinations = 1 .. 6 /\ 1 .. 6 = {1, 2, 3, 4, 5, 6}
  BY SMT
<1>3. \A a, b, c, d \in Nat :
        setTfc(channels, <<a, b, c, d>>) = Digits(a, b, c, d)
  <2> TAKE a, b, c, d \in Nat
  <2> HIDE DEF combinations, list, Ctfc
  <2> QED BY FourDigits, SMTT(20)
<1>4. \A i \in 1 .. 6 : setTfc(channels, combinations[i][1]) = Ctfc(i)
  <2>1. /\ Digits(0, 0, 0, 0) = 0 /\ Digits(1, 0, 0, 0) = 1 /\ Digits(2, 1, 1, 0) = 11
        /\ Digits(0, 0, 0, 1) = 12 /\ Digits(1, 0, 0, 1) = 13 /\ Digits(2, 1, 1, 1) = 23
        /\ 0 \in Nat /\ 1 \in Nat /\ 2 \in Nat
    BY SMT DEF Digits
  <2>2. /\ setTfc(channels, <<0, 0, 0, 0>>) = 0 /\ setTfc(channels, <<1, 0, 0, 0>>) = 1
        /\ setTfc(channels, <<2, 1, 1, 0>>) = 11 /\ setTfc(channels, <<0, 0, 0, 1>>) = 12
        /\ setTfc(channels, <<1, 0, 0, 1>>) = 13 /\ setTfc(channels, <<2, 1, 1, 1>>) = 23
    BY <1>3, <2>1
  <2> QED BY <1>2, <2>2
<1>5. /\ Ctfc(1) = 0 /\ Ctfc(2) = 1 /\ Ctfc(3) = 11
      /\ Ctfc(4) = 12 /\ Ctfc(5) = 13 /\ Ctfc(6) = 23
  OBVIOUS
<1>6. \A i \in 1 .. 6 : tfcs[i].mCTFC = Ctfc(i) /\ tfcs[i].check = Ctfc(i)
  <2>1. \A i \in 1 .. 6 : tfcs[i] = addTFC(channels, combinations[i][1], combinations[i][2])
    BY <1>1, <1>2
  <2> QED BY <1>4, <2>1 DEF addTFC
<1>7. DOMAIN tfcs = 1 .. 6
  BY <1>1, <1>2
<1> HIDE DEF combinations, list
<1>8. \A i, j \in 1 .. 6 : Ctfc(i) = Ctfc(j) => i = j
  BY <1>2, <1>5, SMT
<1>9. \A i \in 1 .. 6 : Ctfc(i) < 2 ^ 6
  BY <1>2, <1>5, SMT
<1> HIDE DEF Ctfc
<1>10. IsInjective([i \in DOMAIN tfcs |-> tfcs[i].mCTFC])
  BY <1>6, <1>7, <1>8 DEF IsInjective
<1>11. \A i \in DOMAIN tfcs : tfcs[i].mCTFC = tfcs[i].check /\ tfcs[i].mCTFC < 2 ^ 6
  BY <1>6, <1>7, <1>9
<1>12. WellFormed(list)
  BY <1>1, <1>10, <1>11 DEF WellFormed
<1> QED BY <1>12 DEF list, combinations

LEMMA DchWellFormed == WellFormed(rrcConfigDchCS.mTrCh.ul) /\ WellFormed(rrcConfigDchCS.mTrCh.dl)
<1> DEFINE
      combinations ==
        <<<<<<0, 0, 0, 0>>, 0>>, <<<<1, 0, 0, 0>>, 1>>, <<<<2, 1, 1, 0>>, 11>>,
          <<<<0, 0, 0, 1>>, 12>>, <<<<1, 0, 0, 1>>, 13>>, <<<<2, 1, 1, 1>>, 23>>>>
      ul == defaultConfig3TrCh.ul.mChInfo
      dl == defaultConfig3TrCh.dl.mChInfo
      trch == rrcConfigDchCS.mTrCh
<1>1. trch = defaultConfig3TrCh
  BY SMTT(30) DEF rrcConfigDchCS, setRBs
<1>2. /\ defaultConfig3TrCh.ul = TrChList(ul, 6, combinations)
      /\ defaultConfig3TrCh.dl = TrChList(dl, 6, combinations)
  BY ZenonT(40) DEF defaultConfig3TrCh, TrChList
<1>3. /\ Len(ul) = 4 /\ Len(ul[1].mTfs.mDynamic) = 3
      /\ Len(ul[2].mTfs.mDynamic) = 2 /\ Len(ul[3].mTfs.mDynamic) = 2
  BY DEF defaultConfig3TrCh, TrChList, defineTrCh, RrcTfs
<1>4. /\ Len(dl) = 4 /\ Len(dl[1].mTfs.mDynamic) = 3
      /\ Len(dl[2].mTfs.mDynamic) = 2 /\ Len(dl[3].mTfs.mDynamic) = 2
  BY DEF defaultConfig3TrCh, TrChList, defineTrCh, RrcTfs, copyUplink
<1> HIDE DEF ul, dl, trch
<1>5. WellFormed(TrChList(ul, 6, combinations))
  BY <1>3, VoiceWellFormed DEF getNumTF, IsVoice
<1>6. WellFormed(TrChList(dl, 6, combinations))
  BY <1>4, VoiceWellFormed DEF getNumTF, IsVoice
<1> HIDE DEF combinations
<1>7. WellFormed(trch.ul) /\ WellFormed(trch.dl)
  BY <1>1, <1>2, <1>5, <1>6
<1> QED BY <1>7 DEF trch

\* In both states of a UE and both directions no two combinations of formats
\* have one CTFC, each CTFC has room in the bits announced for it, and it is the
\* one that the code asserts (RrcTfcs::setTfc and checkCTFC).
THEOREM SpecTfcsWellFormed == Spec => []TfcsWellFormed
<1>1. IInv /\ Configured /\ LisFit => TfcsWellFormed
  <2> SUFFICES ASSUME Configured, inited, NEW state \in States
               PROVE  WellFormed(config(state).mTrCh.ul) /\ WellFormed(config(state).mTrCh.dl)
    BY DEF TfcsWellFormed
  <2>1. CASE state = "CELL_DCH"
    <3>1. config(state) = rrcConfigDchCS
      BY <2>1 DEF config
    <3> QED BY <3>1, DchWellFormed
  <2>2. CASE state = "CELL_FACH"
    <3>1. config(state) = gRrcDcchConfig
      BY <2>2 DEF config
    <3>2. PICK rachSF \in RachSFs, fachSF \in FachSFs, size \in FachTBSizes :
            ConfiguredWith(rachSF, fachSF, size)
      BY DEF Configured
    <3>3. rachSF \in SpreadingFactors /\ fachSF \in SpreadingFactors /\ size \in Nat
      BY SpreadingAssumption
    <3>4. /\ gRrcDcchConfig.mTrCh.ul = configRachTrCh(rachSF, TTI10ms, 16, 260)
          /\ gRrcDcchConfig.mTrCh.dl = configFachTrCh(fachSF, TTI10ms, 12, size)
      BY <3>2 DEF ConfiguredWith, DcchConfig, setRBs
    <3>5. WellFormed(gRrcDcchConfig.mTrCh.ul)
      BY <3>3, <3>4, RachBlocks, CommonWellFormed
    <3>6. WellFormed(gRrcDcchConfig.mTrCh.dl)
      <4>1. PICK s \in Nat : configFachTrCh(fachSF, TTI10ms, 12, size) = FachTrChs(s, TTI10ms, 12)
        BY <3>3, FachBlock
      <4>2. WellFormed(FachTrChs(s, TTI10ms, 12))
        BY CommonWellFormed DEF FachTrChs
      <4> QED BY <3>4, <4>1, <4>2
    <3> QED BY <3>1, <3>5, <3>6
  <2> QED BY <2>1, <2>2 DEF States
<1> QED BY <1>1, SpecSizes, PTL
=============================================================================
