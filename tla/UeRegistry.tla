------------------------------ MODULE UeRegistry ------------------------------
(***************************************************************************)
(* The list of UEs of RRC (Rrc::mUEList), the UE contexts in it and the    *)
(* threads that use them.  The thread rrcRxCCCH sets UEs up and, whenever  *)
(* it adds one, throws away those that were inactive for too long.  The    *)
(* threads macDCCHRX and rrcTxDCCH look UEs up and use their RLCs; the     *)
(* thread macTX goes round all of them.  Only purgeUEs, addUE and flushUE  *)
(* lock the list: in findUe the lock is commented out.                     *)
(***************************************************************************)
EXTENDS Integers, FiniteSets, SequencesExt

CONSTANTS
  Names,      \* <<number, nodeB>> of the UEs that ask for a connection
  MainName,   \* of the UE main sets up before it starts the threads
  Rbs,        \* the radio bearers of gRrcDcchConfig, without SRB0
  Callers,    \* threads that call macPushUpRXDCCH or rrcSendDCCH
  Sought,     \* the names they look up
  MaxUes,     \* bound on the UE contexts that exist at a time
  AddressOf   \* the address `new` takes for a name if it is free

ASSUME RegistryAssumption ==
  /\ MainName \in Names /\ Sought \subseteq Names
  /\ Rbs \subseteq Nat \ {0}
  /\ \E rbid \in Rbs : \A other \in Rbs : other <= rbid
  /\ MaxUes \in Nat \ {0}
  /\ AddressOf \in [Names -> 1 .. MaxUes] /\ AddressOf[MainName] = 1
  /\ Callers \cap {"rrcRxCCCH", "macTX"} = {}

\* Addresses of UE contexts; an address is used again after delete.
Ues == 1 .. MaxUes
NoUe == 0

VARIABLES
  mUEList,      \* addresses, in the order added
  mUEListLock,  \* the thread that holds it
  heap,         \* what each address holds
  rlcs,         \* the RLC pairs that exist, as <<address of UE, rbid>>
  rrc,          \* rrcRxCCCH: where it is, its UE and iterator
  caller,       \* each caller: where it is and the UE it points to
  mac,          \* macTX: the UE it is at
  doomed,       \* history: what had died when purgeUEs began and stayed so
  spared        \* history: what had died before the last purgeUEs and is left

vars == <<mUEList, mUEListLock, heap, rlcs, rrc, caller, mac, doomed, spared>>

Free == "nobody"
Deleted == [name |-> MainName, inactive |-> TRUE, mUeMaxRlc |-> 0, mRlcsCF |-> {}]

\* Definitions whose name starts with bad are wrong on purpose: each is a bug
\* the properties must notice.  badUEInfo leaves mUeMaxRlc uninitialized.
badUEInfo(name) ==
  [name |-> name, inactive |-> FALSE, mUeMaxRlc |-> MaxUes + Max(Rbs), mRlcsCF |-> {}]
UEInfo(name) ==
  [name |-> name, inactive |-> FALSE, mUeMaxRlc |-> 0, mRlcsCF |-> {}]

\* The node behind that of u in the list.
NextUe(u) ==
  IF \E i \in 1 .. Len(mUEList) - 1 : mUEList[i] = u
  THEN mUEList[1 + CHOOSE i \in 1 .. Len(mUEList) - 1 : mUEList[i] = u] ELSE NoUe
FirstUe == IF mUEList = <<>> THEN NoUe ELSE Head(mUEList)

\* rrcSendRRCConnectionSetup of main has returned; the threads are started.
Init ==
  /\ mUEList = <<1>>
  /\ mUEListLock = Free
  /\ heap = [u \in Ues |-> IF u # 1 THEN Deleted
                           ELSE [UEInfo(MainName) EXCEPT !.mRlcsCF = Rbs, !.mUeMaxRlc = Max(Rbs)]]
  /\ rlcs = {1} \X Rbs
  /\ rrc = [at |-> "idle", ue |-> NoUe, itr |-> 0]
  /\ caller = [c \in Callers |-> [at |-> "idle", name |-> MainName, ue |-> NoUe,
                                  stale |-> FALSE, late |-> FALSE]]
  /\ mac = [at |-> "idle", ue |-> NoUe]
  /\ doomed = {} /\ spared = {}

-----------------------------------------------------------------------------
\* The thread rrcRxCCCH.

\* badFindUe ends its loop one node early.
badFindUe(name) ==
  LET found == {i \in 1 .. Len(mUEList) - 1 : heap[mUEList[i]].name = name}
  IN  IF found = {} THEN NoUe ELSE mUEList[Min(found)]

\* What findUe returns, when nobody changes the list in the meantime.
findUe(name) ==
  LET found == {i \in DOMAIN mUEList : heap[mUEList[i]].name = name}
  IN  IF found = {} THEN NoUe ELSE mUEList[Min(found)]

\* rrcSendRRCConnectionSetup, up to the call of addUE or of ueConnectRlc.
SetupFindsUe(name) ==
  /\ rrc.at = "idle"
  /\ findUe(name) # NoUe
  /\ rrc' = [rrc EXCEPT !.at = "connecting", !.ue = findUe(name)]
  /\ UNCHANGED <<mUEList, mUEListLock, heap, rlcs, caller, mac, doomed, spared>>

\* It makes no difference which free address that is.
new(name) ==
  LET free == Ues \ Range(mUEList)
  IN  IF AddressOf[name] \in free THEN AddressOf[name] ELSE CHOOSE u \in free : TRUE

SetupNewUe(name) ==
  /\ rrc.at = "idle"
  /\ findUe(name) = NoUe
  /\ Ues # Range(mUEList)
  /\ LET u == new(name)
     IN  /\ heap' = [heap EXCEPT ![u] = UEInfo(name)]
         /\ rrc' = [rrc EXCEPT !.at = "purge", !.ue = u]
  /\ UNCHANGED <<mUEList, mUEListLock, rlcs, caller, mac, doomed, spared>>

\* ScopedLock waits until the lock is free; badUnlocked lets RRC not wait.
badUnlocked(thread) == mUEListLock = Free \/ thread = "rrcRxCCCH"
Unlocked(thread) == mUEListLock = Free

\* Where the loop of purgeUEs begins, and where it goes on after an erase:
\* the iterator is set to the first UE and moved on.
badBegin == 2
Begin == 1
badAfterErase == Len(mUEList)
AfterErase == Begin + 1

\* addUE calls purgeUEs, which locks the list and goes through it.
PurgeStarts ==
  /\ rrc.at = "purge"
  /\ Unlocked("rrcRxCCCH")
  /\ mUEListLock' = "rrcRxCCCH"
  /\ rrc' = [rrc EXCEPT !.at = "looking", !.itr = Begin]
  /\ doomed' = {u \in Range(mUEList) : heap[u].inactive}
  /\ UNCHANGED <<mUEList, heap, rlcs, caller, mac, spared>>

PurgeLooks ==
  /\ rrc.at = "looking"
  /\ rrc.itr <= Len(mUEList)
  /\ rrc' = IF heap[mUEList[rrc.itr]].inactive
            THEN [rrc EXCEPT !.at = "deleting"] ELSE [rrc EXCEPT !.itr = @ + 1]
  /\ UNCHANGED <<mUEList, mUEListLock, heap, rlcs, caller, mac, doomed, spared>>

\* The pairs of u, which the loop of ueDisconnectRlc(stCELL_FACH) deletes;
\* badDisconnectRlc stops short of the last one.
badDisconnectRlc(u) == {u} \X {rbid \in heap[u].mRlcsCF : rbid < heap[u].mUeMaxRlc}
ueDisconnectRlc(u) == {u} \X heap[u].mRlcsCF

PurgeDeletes ==
  /\ rrc.at = "deleting"
  /\ LET u == mUEList[rrc.itr]
     IN  /\ mUEList' = RemoveAt(mUEList, rrc.itr)
         /\ rlcs' = rlcs \ ueDisconnectRlc(u)
         /\ heap' = [heap EXCEPT ![u] = Deleted]
         /\ doomed' = doomed \ {u} /\ spared' = spared \ {u}
         /\ caller' = [c \in Callers |->
              IF caller[c].ue = u THEN [caller[c] EXCEPT !.stale = TRUE] ELSE caller[c]]
  /\ rrc' = [rrc EXCEPT !.at = "looking", !.itr = AfterErase]
  /\ UNCHANGED <<mUEListLock, mac>>

PurgeEnds ==
  /\ rrc.at = "looking"
  /\ rrc.itr > Len(mUEList)
  /\ mUEListLock' = Free
  /\ rrc' = [rrc EXCEPT !.at = "adding"]
  /\ doomed' = {}
  /\ spared' = doomed
  /\ UNCHANGED <<mUEList, heap, rlcs, caller, mac>>

addUE ==
  /\ rrc.at = "adding"
  /\ Unlocked("rrcRxCCCH")
  /\ mUEList' = Append(mUEList, rrc.ue)
  /\ rrc' = [rrc EXCEPT !.at = "connecting"]
  /\ UNCHANGED <<mUEListLock, heap, rlcs, caller, mac, doomed, spared>>

\* One turn of the loop of ueConnectRlc: bearers that have an RLC keep it.
ueConnectRlc ==
  /\ rrc.at = "connecting"
  /\ \E rbid \in Rbs \ heap[rrc.ue].mRlcsCF :
         /\ \A other \in Rbs \ heap[rrc.ue].mRlcsCF : rbid <= other
         /\ heap' = [heap EXCEPT ![rrc.ue].mRlcsCF = @ \cup {rbid},
                                 ![rrc.ue].mUeMaxRlc = Max({@, rbid})]
         /\ rlcs' = rlcs \cup {<<rrc.ue, rbid>>}
  /\ UNCHANGED <<mUEList, mUEListLock, rrc, caller, mac, doomed, spared>>

SetupEnds ==
  /\ rrc.at = "connecting"
  /\ heap[rrc.ue].mRlcsCF = Rbs
  /\ rrc' = [at |-> "idle", ue |-> NoUe, itr |-> 0]
  /\ UNCHANGED <<mUEList, mUEListLock, heap, rlcs, caller, mac, doomed, spared>>

-----------------------------------------------------------------------------
\* The threads macDCCHRX (macPushUpRXDCCH) and rrcTxDCCH (rrcSendDCCH).  Each
\* looks a UE up, registers activity and uses the RLC of a bearer.

\* The loop of findUe starts, at the first node if there is one.
FindStarts(c, name) ==
  /\ caller[c].at = "idle"
  /\ FirstUe # NoUe
  /\ caller' = [caller EXCEPT ![c] = [at |-> "finding", name |-> name, ue |-> FirstUe,
                                      stale |-> FALSE, late |-> FALSE]]
  /\ UNCHANGED <<mUEList, mUEListLock, heap, rlcs, rrc, mac, doomed, spared>>

Leaves(c) == [caller EXCEPT ![c] = [at |-> "idle", name |-> MainName, ue |-> NoUe,
                                    stale |-> FALSE, late |-> FALSE]]

\* One turn of it.
FindLooks(c) ==
  /\ caller[c].at = "finding"
  /\ ~caller[c].stale
  /\ LET u == caller[c].ue
     IN  caller' =
           IF heap[u].name = caller[c].name THEN [caller EXCEPT ![c].at = "found"]
           ELSE IF NextUe(u) # NoUe THEN [caller EXCEPT ![c].ue = NextUe(u)]
           ELSE Leaves(c)
  /\ UNCHANGED <<mUEList, mUEListLock, heap, rlcs, rrc, mac, doomed, spared>>

\* mActivityTime.now(), which badRegistered forgets.
badRegistered(u) == heap
Registered(u) == [heap EXCEPT ![u].inactive = FALSE]

\* The first thing ueWriteLowSide and ueWriteHighSide do.  `late` notes that
\* purgeUEs has already found the UE inactive.
ueRegisterActivity(c) ==
  /\ caller[c].at = "found"
  /\ ~caller[c].stale
  /\ heap' = Registered(caller[c].ue)
  /\ caller' = [caller EXCEPT ![c].at = "using",
                              ![c].late = rrc.at = "deleting" /\ mUEList[rrc.itr] = caller[c].ue]
  /\ doomed' = doomed \ {caller[c].ue}
  /\ spared' = spared \ {caller[c].ue}
  /\ UNCHANGED <<mUEList, mUEListLock, rlcs, rrc, mac>>

\* The rest of ueWriteLowSide and ueWriteHighSide: the RLC of a bearer, if the
\* UE has it, takes the PDU or the SDU.  What it does with it is in RlcAm.
UsesRlc(c) ==
  /\ caller[c].at = "using"
  /\ ~caller[c].stale
  /\ caller' = Leaves(c)
  /\ UNCHANGED <<mUEList, mUEListLock, heap, rlcs, rrc, mac, doomed, spared>>

\* The node or the UE is gone: what the program does next is undefined.
UsesDeletedUe(c) ==
  /\ caller[c].stale
  /\ caller' = [caller EXCEPT ![c].at = "undefined"]
  /\ UNCHANGED <<mUEList, mUEListLock, heap, rlcs, rrc, mac, doomed, spared>>

-----------------------------------------------------------------------------
\* The thread macTX: flushUE locks the list and reads each RLC of each UE.
FlushStarts ==
  /\ mac.at = "idle"
  /\ Unlocked("macTX")
  /\ mUEListLock' = "macTX"
  /\ mac' = [at |-> "flushing", ue |-> FirstUe]
  /\ UNCHANGED <<mUEList, heap, rlcs, rrc, caller, doomed, spared>>

FlushReads ==
  /\ mac.at = "flushing"
  /\ mac.ue # NoUe
  /\ mac' = [mac EXCEPT !.ue = NextUe(@)]
  /\ UNCHANGED <<mUEList, mUEListLock, heap, rlcs, rrc, caller, doomed, spared>>

FlushEnds ==
  /\ mac.at = "flushing"
  /\ mac.ue = NoUe
  /\ mUEListLock' = Free
  /\ mac' = [mac EXCEPT !.at = "idle"]
  /\ UNCHANGED <<mUEList, heap, rlcs, rrc, caller, doomed, spared>>

\* UMTS_Timers_Inactivity_Delete seconds have passed since the last activity
\* of u: 300, and a thread takes less to use a UE once it has registered.
GrowsInactive(u) ==
  /\ u \in Range(mUEList)
  /\ ~heap[u].inactive
  /\ rrc.ue # u
  /\ \A c \in Callers : caller[c].at = "using" => caller[c].ue # u
  /\ heap' = [heap EXCEPT ![u].inactive = TRUE]
  /\ UNCHANGED <<mUEList, mUEListLock, rlcs, rrc, caller, mac, doomed, spared>>

-----------------------------------------------------------------------------
Defined == \A c \in Callers : caller[c].at # "undefined"

rrcRxCCCH ==
  \/ \E name \in Names : SetupFindsUe(name) \/ SetupNewUe(name)
  \/ PurgeStarts \/ PurgeLooks \/ PurgeDeletes \/ PurgeEnds \/ addUE
  \/ ueConnectRlc \/ SetupEnds

CallerStep(c) ==
  \/ \E name \in Sought : FindStarts(c, name)
  \/ FindLooks(c) \/ ueRegisterActivity(c) \/ UsesRlc(c) \/ UsesDeletedUe(c)

macTX == FlushStarts \/ FlushReads \/ FlushEnds

Next ==
  /\ Defined
  /\ \/ rrcRxCCCH
     \/ macTX
     \/ \E c \in Callers : CallerStep(c)
     \/ \E u \in Ues : GrowsInactive(u)

Spec == Init /\ [][Next]_vars

-----------------------------------------------------------------------------
Context == [name : Names, inactive : BOOLEAN, mUeMaxRlc : Rbs \cup {0}, mRlcsCF : SUBSET Rbs]
Rrc == [at : {"idle", "purge", "looking", "deleting", "adding", "connecting"},
        ue : Ues \cup {NoUe}, itr : Nat]
Caller == [at : {"idle", "finding", "found", "using", "undefined"}, name : Names,
           ue : Ues \cup {NoUe}, stale : BOOLEAN, late : BOOLEAN]
Mac == [at : {"idle", "flushing"}, ue : Ues \cup {NoUe}]

TypeOK ==
  /\ mUEList \in Seq(Ues)
  /\ mUEListLock \in {Free, "rrcRxCCCH", "macTX"}
  /\ heap \in [Ues -> Context]
  /\ rlcs \in SUBSET (Ues \X Rbs)
  /\ rrc \in Rrc
  /\ caller \in [Callers -> Caller]
  /\ mac \in Mac
  /\ doomed \in SUBSET Ues /\ spared \in SUBSET Ues
=============================================================================
