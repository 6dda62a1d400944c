-------------------------- MODULE UeRegistryProofs --------------------------
(***************************************************************************)
(* The safety invariants of UeRegistry hold for any number of UEs, names,  *)
(* bearers and calling threads.  They are proved together, as parts of one *)
(* inductive invariant: each needs some of the others.                     *)
(***************************************************************************)
EXTENDS UeRegistryProperties, SequenceTheorems, TLAPS

\* The thread that is inside holds the lock, and nobody else does.
LockHeld ==
  /\ mUEListLock = "rrcRxCCCH" <=> rrc.at \in {"looking", "deleting"}
  /\ mUEListLock = "macTX" <=> mac.at = "flushing"

\* What rrcRxCCCH knows at each place: a UE that is not on the list yet has a
\* name no UE on the list has.
RrcPlace ==
  /\ rrc.at = "idle" => rrc.ue = NoUe
  /\ rrc.at \in {"purge", "looking", "deleting", "adding"} =>
       rrc.ue \in Ues /\ \A i \in DOMAIN mUEList : heap[mUEList[i]].name # heap[rrc.ue].name
  /\ rrc.at = "connecting" => \E i \in DOMAIN mUEList : mUEList[i] = rrc.ue
  /\ rrc.at = "looking" => rrc.itr # 0
  /\ rrc.at = "deleting" => rrc.itr \in DOMAIN mUEList

\* Once it has registered activity, a caller's UE is neither inactive nor the
\* one purgeUEs is about to delete, unless it came too late.
CallerPlace ==
  \A c \in Callers :
    /\ caller[c].at \in {"finding", "found", "using"} => caller[c].ue \in Ues
    /\ caller[c].at = "using" /\ ~caller[c].stale /\ ~caller[c].late =>
         /\ ~heap[caller[c].ue].inactive
         /\ ~(rrc.at = "deleting" /\ mUEList[rrc.itr] = caller[c].ue)

IInv ==
  /\ TypeOK
  /\ LockHeld /\ RrcPlace /\ CallerPlace
  /\ OneUePerName /\ FlushSeesUes /\ RlcsBelongToUes /\ ActivityProtects

-----------------------------------------------------------------------------
\* The list.

LEMMA ListType ==
  ASSUME NEW s \in Seq(Ues)
  PROVE  /\ DOMAIN s = 1 .. Len(s) /\ Len(s) \in Nat
         /\ \A i \in DOMAIN s : s[i] \in Ues
         /\ Range(s) \subseteq Ues
         /\ \A u : u \in Range(s) <=> \E i \in DOMAIN s : s[i] = u
BY DEF Range

LEMMA RemoveAtType ==
  ASSUME NEW s \in Seq(Ues), NEW i \in DOMAIN s
  PROVE  /\ RemoveAt(s, i) \in Seq(Ues)
         /\ DOMAIN RemoveAt(s, i) = 1 .. (Len(s) - 1)
         /\ \A j \in DOMAIN RemoveAt(s, i) :
              RemoveAt(s, i)[j] = IF j < i THEN s[j] ELSE s[j + 1]
<1> DEFINE a == SubSeq(s, 1, i - 1)
           b == SubSeq(s, i + 1, Len(s))
<1>1. /\ i \in 1 .. Len(s) /\ Len(s) \in Nat
      /\ \A j \in 1 .. Len(s) : s[j] \in Ues
  BY ListType
<1>2. /\ a \in Seq(Ues) /\ Len(a) = i - 1
      /\ \A j \in 1 .. i - 1 : a[j] = s[j]
  <2>1. i - 1 \in Int /\ \A j \in 1 .. (i - 1) : s[j] \in Ues
    BY <1>1
  <2> QED
    BY <1>1, <2>1, SubSeqProperties
<1>3. /\ b \in Seq(Ues) /\ Len(b) = Len(s) - i
      /\ \A j \in 1 .. Len(s) - i : b[j] = s[i + j]
  <2>1. i + 1 \in Int /\ Len(s) \in Int /\ \A j \in (i + 1) .. Len(s) : s[j] \in Ues
    BY <1>1
  <2>2. /\ b \in Seq(Ues)
        /\ Len(b) = IF i + 1 <= Len(s) THEN Len(s) - (i + 1) + 1 ELSE 0
        /\ \A j \in 1 .. (Len(s) - (i + 1) + 1) : b[j] = s[(i + 1) + j - 1]
    BY <2>1, SubSeqProperties
  <2> QED
    BY <1>1, <2>2
<1>4. RemoveAt(s, i) = a \o b
  BY DEF RemoveAt
<1> HIDE DEF a, b
<1> DEFINE t == a \o b
<1>5. /\ t \in Seq(Ues) /\ Len(t) = Len(a) + Len(b)
      /\ \A j \in 1 .. Len(a) + Len(b) : t[j] = IF j <= Len(a) THEN a[j] ELSE b[j - Len(a)]
  BY <1>2, <1>3, ConcatProperties, Zenon
<1> HIDE DEF t
<1>6. DOMAIN t = 1 .. (Len(s) - 1)
  BY <1>1, <1>2, <1>3, <1>5, ListType
<1>7. ASSUME NEW j \in 1 .. (Len(s) - 1)
      PROVE  t[j] = IF j < i THEN s[j] ELSE s[j + 1]
  <2>1. /\ j \in Int /\ i \in Int /\ 1 <= j /\ j <= Len(s) - 1 /\ Len(s) \in Nat
        /\ Len(a) = i - 1 /\ Len(b) = Len(s) - i
    BY <1>1, <1>2, <1>3
  <2>2. j \in 1 .. Len(a) + Len(b)
    BY <2>1
  <2>3. t[j] = IF j <= Len(a) THEN a[j] ELSE b[j - Len(a)]
    BY <1>5, <2>2, Zenon
  <2>4. CASE j < i
    <3>1. j \in 1 .. (i - 1) /\ j <= Len(a)
      BY <2>1, <2>4
    <3>2. a[j] = s[j]
      BY <1>2, <3>1, Zenon
    <3> QED
      BY <2>3, <2>4, <3>1, <3>2, Zenon
  <2>5. CASE ~(j < i)
    <3>1. /\ j - Len(a) \in 1 .. (Len(s) - i) /\ i + (j - Len(a)) = j + 1
          /\ ~(j <= Len(a))
      BY <2>1, <2>5
    <3>2. b[j - Len(a)] = s[i + (j - Len(a))]
      BY <1>3, <3>1, Zenon
    <3> QED
      BY <2>3, <2>5, <3>1, <3>2, Zenon
  <2> QED
    BY <2>4, <2>5
<1> QED
  BY <1>4, <1>5, <1>6, <1>7, Zenon DEF t

\* What is left when one is removed, and that nothing else is lost.
LEMMA RemoveAtRange ==
  ASSUME NEW s \in Seq(Ues), NEW i \in DOMAIN s
  PROVE  /\ \A j \in DOMAIN RemoveAt(s, i) :
              \E k \in DOMAIN s : k # i /\ RemoveAt(s, i)[j] = s[k]
         /\ \A j1, j2 \in DOMAIN RemoveAt(s, i) : j1 # j2 =>
              \E k1, k2 \in DOMAIN s :
                 /\ k1 # k2 /\ k1 # i /\ k2 # i
                 /\ RemoveAt(s, i)[j1] = s[k1] /\ RemoveAt(s, i)[j2] = s[k2]
         /\ \A k \in DOMAIN s : k # i =>
              \E j \in DOMAIN RemoveAt(s, i) : RemoveAt(s, i)[j] = s[k]
<1> DEFINE t == RemoveAt(s, i)
           Old(j) == IF j < i THEN j ELSE j + 1
<1>1. /\ DOMAIN t = 1 .. (Len(s) - 1) /\ DOMAIN s = 1 .. Len(s) /\ Len(s) \in Nat
      /\ \A j \in DOMAIN t : t[j] = IF j < i THEN s[j] ELSE s[j + 1]
  BY RemoveAtType, ListType
<1> HIDE DEF t
<1>2. \A j \in DOMAIN t : Old(j) \in DOMAIN s /\ Old(j) # i /\ t[j] = s[Old(j)]
  BY <1>1
<1>3. \A j1, j2 \in DOMAIN t : j1 # j2 => Old(j1) # Old(j2)
  BY <1>1
<1>4. ASSUME NEW k \in DOMAIN s, k # i
      PROVE  \E j \in DOMAIN t : t[j] = s[k]
  <2>1. CASE k < i
    BY <1>1, <1>4, <2>1
  <2>2. CASE k > i
    <3>1. k - 1 \in DOMAIN t /\ t[k - 1] = s[k]
      BY <1>1, <1>4, <2>2
    <3> QED
      BY <3>1
  <2> QED
    BY <1>1, <1>4, <2>1, <2>2
<1> HIDE DEF Old
<1> QED
  BY <1>2, <1>3, <1>4, Zenon DEF t

LEMMA NextUeType ==
  ASSUME mUEList \in Seq(Ues), NEW u
  PROVE  /\ NextUe(u) \in Ues \cup {NoUe} /\ FirstUe \in Ues \cup {NoUe}
         /\ NextUe(u) # NoUe => NextUe(u) \in Range(mUEList)
         /\ FirstUe # NoUe => FirstUe \in Range(mUEList)
<1>1. /\ DOMAIN mUEList = 1 .. Len(mUEList) /\ Len(mUEList) \in Nat
      /\ \A i \in DOMAIN mUEList : mUEList[i] \in Ues
      /\ \A w : w \in Range(mUEList) <=> \E i \in DOMAIN mUEList : mUEList[i] = w
  BY ListType
<1>2. NextUe(u) \in Ues \cup {NoUe} /\ (NextUe(u) # NoUe => NextUe(u) \in Range(mUEList))
  <2> DEFINE Place(i) == i \in 1 .. Len(mUEList) - 1 /\ mUEList[i] = u
  <2>1. CASE \E i : Place(i)
    <3> DEFINE k == CHOOSE i \in 1 .. Len(mUEList) - 1 : mUEList[i] = u
    <3>1. k \in 1 .. Len(mUEList) - 1
      BY <2>1
    <3>2. NextUe(u) = mUEList[1 + k]
      BY <2>1 DEF NextUe
    <3> HIDE DEF k
    <3>3. 1 + k \in DOMAIN mUEList
      BY <1>1, <3>1
    <3> QED
      BY <1>1, <3>2, <3>3, Zenon
  <2>2. CASE ~\E i : Place(i)
    BY <2>2 DEF NextUe
  <2> QED
    BY <2>1, <2>2
<1>3. FirstUe \in Ues \cup {NoUe} /\ (FirstUe # NoUe => FirstUe \in Range(mUEList))
  <2>1. CASE mUEList = <<>>
    BY <2>1 DEF FirstUe
  <2>2. CASE mUEList # <<>>
    <3>1. FirstUe = mUEList[1] /\ 1 \in DOMAIN mUEList
      BY <1>1, <2>2 DEF FirstUe
    <3> QED
      BY <1>1, <3>1, Zenon
  <2> QED
    BY <2>1, <2>2
<1> QED
  BY <1>2, <1>3

\* findUe returns the UE of that name, and none only if there is none.
LEMMA FindUeType ==
  ASSUME mUEList \in Seq(Ues), OneUePerName, NEW name
  PROVE  \/ /\ findUe(name) = NoUe
            /\ \A i \in DOMAIN mUEList : heap[mUEList[i]].name # name
         \/ /\ findUe(name) # NoUe
            /\ \E i \in DOMAIN mUEList : mUEList[i] = findUe(name)
<1> DEFINE found == {i \in DOMAIN mUEList : heap[mUEList[i]].name = name}
<1>1. CASE found = {}
  BY <1>1 DEF findUe
<1>2. CASE found # {}
  <2>1. PICK i \in found : TRUE
    BY <1>2
  <2>2. found = {i}
    BY <2>1, Zenon DEF OneUePerName
  <2>3. DOMAIN mUEList = 1 .. Len(mUEList) /\ Len(mUEList) \in Nat /\ mUEList[i] \in Ues
    BY <2>1, ListType
  <2>4. i \in Nat /\ i <= i
    BY <2>1, <2>3
  <2>5. Min(found) = i
    BY <2>2, <2>4, Zenon DEF Min
  <2>6. findUe(name) = mUEList[i]
    BY <1>2, <2>5, Zenon DEF findUe
  <2>7. mUEList[i] # NoUe
    BY <2>3, RegistryAssumption DEF Ues, NoUe
  <2> QED
    BY <2>1, <2>6, <2>7, Zenon
<1> QED
  BY <1>1, <1>2

LEMMA NewType ==
  ASSUME mUEList \in Seq(Ues), Ues # Range(mUEList), NEW name \in Names
  PROVE  /\ new(name) \in Ues
         /\ \A i \in DOMAIN mUEList : mUEList[i] # new(name)
<1> DEFINE free == Ues \ Range(mUEList)
<1>1. Range(mUEList) \subseteq Ues
  BY ListType
<1>2. free # {}
  BY <1>1
<1>3. new(name) \in free
  BY <1>2, Zenon DEF new
<1> QED
  BY <1>3, ListType

-----------------------------------------------------------------------------
LEMMA InitInv == Init => IInv
<1> SUFFICES ASSUME Init PROVE IInv
  OBVIOUS
<1> USE RegistryAssumption
<1>1. 1 \in Ues /\ NoUe \notin Ues
  BY DEF Ues, NoUe
<1>2. mUEList = <<1>> /\ mUEList \in Seq(Ues) /\ DOMAIN mUEList = {1} /\ mUEList[1] = 1
      /\ Range(mUEList) = {1}
  BY <1>1 DEF Init, Range
<1>3. heap \in [Ues -> Context] /\ heap[1].mRlcsCF = Rbs
  <2> DEFINE info == UEInfo(MainName)
             main == [info EXCEPT !.mRlcsCF = Rbs, !.mUeMaxRlc = Max(Rbs)]
  <2>1. PICK rbid \in Rbs : \A other \in Rbs : other <= rbid
    OBVIOUS
  <2>2. Max(Rbs) \in Rbs
    BY <2>1 DEF Max
  <2>3. Deleted \in Context
    BY DEF Deleted, Context
  <2>4. info \in Context
    BY DEF UEInfo, Context
  <2> HIDE DEF info
  <2>5. main \in Context /\ main.mRlcsCF = Rbs
    BY <2>2, <2>4, Zenon DEF Context
  <2>6. heap = [u \in Ues |-> IF u # 1 THEN Deleted ELSE main]
    BY Zenon DEF Init, info
  <2> HIDE DEF main
  <2> QED
    BY <1>1, <2>3, <2>5, <2>6, Zenon
<1>4. TypeOK
  <2>1. rrc \in Rrc /\ mac \in Mac /\ mUEListLock \in {Free, "rrcRxCCCH", "macTX"}
    BY DEF Init, Rrc, Mac
  <2>2. [at |-> "idle", name |-> MainName, ue |-> NoUe, stale |-> FALSE, late |-> FALSE] \in Caller
    BY DEF Caller
  <2>3. caller \in [Callers -> Caller]
    BY <2>2, Zenon DEF Init
  <2>4. rlcs \in SUBSET (Ues \X Rbs) /\ doomed \in SUBSET Ues /\ spared \in SUBSET Ues
    BY <1>1 DEF Init
  <2> QED
    BY <1>2, <1>3, <2>1, <2>3, <2>4 DEF TypeOK
<1>5. LockHeld
  BY DEF Init, LockHeld, Free
<1>6. RrcPlace
  BY DEF Init, RrcPlace
<1>7. CallerPlace /\ ActivityProtects
  BY DEF Init, CallerPlace, ActivityProtects
<1>8. OneUePerName
  BY <1>2 DEF OneUePerName
<1>9. FlushSeesUes
  BY DEF Init, FlushSeesUes
<1>10. RlcsBelongToUes
  <2>1. rlcs = {1} \X Rbs /\ rrc.ue = NoUe
    BY DEF Init
  <2> QED
    BY <1>1, <1>2, <1>3, <2>1 DEF RlcsBelongToUes
<1> QED
  BY <1>4, <1>5, <1>6, <1>7, <1>8, <1>9, <1>10 DEF IInv

-----------------------------------------------------------------------------
\* The steps of the callers.

\* A caller that moves and is not using a UE afterwards disturbs nothing.
LEMMA CallerMoves ==
  ASSUME IInv, NEW c \in Callers, NEW k \in Caller,
         caller' = [caller EXCEPT ![c] = k],
         k.at # "using", k.at \in {"finding", "found"} => k.ue \in Ues,
         UNCHANGED <<mUEList, mUEListLock, heap, rlcs, rrc, mac, doomed, spared>>
  PROVE  IInv'
<1>1. /\ caller \in [Callers -> Caller] /\ CallerPlace /\ ActivityProtects
  BY DEF IInv, TypeOK
<1>2. caller' \in [Callers -> Caller]
  BY <1>1, Zenon
<1>3. \A d \in Callers : caller'[d] = IF d = c THEN k ELSE caller[d]
  BY <1>1, Zenon
<1>4. TypeOK'
  BY <1>2 DEF IInv, TypeOK
<1>5. LockHeld' /\ RrcPlace' /\ OneUePerName' /\ FlushSeesUes' /\ RlcsBelongToUes'
  BY DEF IInv, LockHeld, RrcPlace, OneUePerName, FlushSeesUes, RlcsBelongToUes
<1>6. CallerPlace'
  BY <1>1, <1>3 DEF CallerPlace
<1>7. ActivityProtects'
  BY <1>1, <1>3 DEF ActivityProtects
<1> QED
  BY <1>4, <1>5, <1>6, <1>7 DEF IInv

LEMMA LeavesKeeps ==
  ASSUME IInv, NEW c \in Callers, caller' = Leaves(c),
         UNCHANGED <<mUEList, mUEListLock, heap, rlcs, rrc, mac, doomed, spared>>
  PROVE  IInv'
<1> DEFINE k == [at |-> "idle", name |-> MainName, ue |-> NoUe, stale |-> FALSE, late |-> FALSE]
<1>1. k \in Caller /\ k.at = "idle"
  BY RegistryAssumption DEF Caller
<1>2. caller' = [caller EXCEPT ![c] = k]
  BY Zenon DEF Leaves
<1> HIDE DEF k
<1> QED
  BY <1>1, <1>2, CallerMoves

LEMMA FindStartsKeeps ==
  ASSUME IInv, NEW c \in Callers, NEW name \in Names, FindStarts(c, name)
  PROVE  IInv'
<1> DEFINE k == [at |-> "finding", name |-> name, ue |-> FirstUe, stale |-> FALSE, late |-> FALSE]
<1>1. FirstUe \in Ues
  BY NextUeType DEF FindStarts, IInv, TypeOK
<1>2. k \in Caller /\ k.at = "finding" /\ k.ue \in Ues
  BY <1>1 DEF Caller
<1>3. /\ caller' = [caller EXCEPT ![c] = k]
      /\ UNCHANGED <<mUEList, mUEListLock, heap, rlcs, rrc, mac, doomed, spared>>
  BY Zenon DEF FindStarts
<1> HIDE DEF k
<1> QED
  BY <1>2, <1>3, CallerMoves

LEMMA FindLooksKeeps ==
  ASSUME IInv, NEW c \in Callers, FindLooks(c)
  PROVE  IInv'
<1> DEFINE k == caller[c]
           found == [k EXCEPT !.at = "found"]
           next == [k EXCEPT !.ue = NextUe(k.ue)]
<1>1. k \in Caller /\ k.at = "finding" /\ k.ue \in Ues /\ mUEList \in Seq(Ues)
  BY DEF FindLooks, IInv, TypeOK, CallerPlace
<1>2. found \in Caller /\ found.at = "found" /\ found.ue = k.ue
  BY <1>1, Zenon DEF Caller
<1>3. ASSUME NextUe(k.ue) # NoUe
      PROVE  next \in Caller /\ next.at = "finding" /\ next.ue \in Ues
  <2>1. NextUe(k.ue) \in Ues
    BY <1>1, <1>3, NextUeType
  <2>2. NextUe(k.ue) \in Ues \cup {NoUe}
    BY <2>1
  <2> QED
    BY <1>1, <2>1, <2>2, Zenon DEF Caller
<1>4. /\ UNCHANGED <<mUEList, mUEListLock, heap, rlcs, rrc, mac, doomed, spared>>
      /\ \/ caller' = [caller EXCEPT ![c] = found]
         \/ NextUe(k.ue) # NoUe /\ caller' = [caller EXCEPT ![c] = next]
         \/ caller' = Leaves(c)
  BY Zenon DEF FindLooks
<1>5. found.at # "using" /\ (found.at \in {"finding", "found"} => found.ue \in Ues)
  BY <1>1, <1>2
<1>6. NextUe(k.ue) # NoUe => next.at # "using" /\ (next.at \in {"finding", "found"} => next.ue \in Ues)
  BY <1>3
<1> HIDE DEF found, next
<1>7. CASE caller' = [caller EXCEPT ![c] = found]
  BY <1>2, <1>4, <1>5, <1>7, CallerMoves
<1>8. CASE NextUe(k.ue) # NoUe /\ caller' = [caller EXCEPT ![c] = next]
  BY <1>3, <1>4, <1>6, <1>8, CallerMoves
<1>9. CASE caller' = Leaves(c)
  BY <1>4, <1>9, LeavesKeeps
<1> QED
  BY <1>4, <1>7, <1>8, <1>9

LEMMA UsesDeletedUeKeeps ==
  ASSUME IInv, NEW c \in Callers, UsesDeletedUe(c)
  PROVE  IInv'
<1> DEFINE k == [caller[c] EXCEPT !.at = "undefined"]
<1>1. caller[c] \in Caller
  BY DEF IInv, TypeOK
<1>2. k \in Caller /\ k.at = "undefined" /\ k.ue = caller[c].ue
  BY <1>1, Zenon DEF Caller
<1>3. /\ caller' = [caller EXCEPT ![c] = k]
      /\ UNCHANGED <<mUEList, mUEListLock, heap, rlcs, rrc, mac, doomed, spared>>
  BY Zenon DEF UsesDeletedUe
<1> HIDE DEF k
<1> QED
  BY <1>2, <1>3, CallerMoves

\* ueRegisterActivity is in time unless purgeUEs has read the time already.
LEMMA ueRegisterActivityKeeps ==
  ASSUME IInv, NEW c \in Callers, ueRegisterActivity(c)
  PROVE  IInv'
<1> DEFINE u == caller[c].ue
           late == rrc.at = "deleting" /\ mUEList[rrc.itr] = u
           k == [caller[c] EXCEPT !.at = "using", !.late = late]
           info == [heap[u] EXCEPT !.inactive = FALSE]
<1>1. /\ caller \in [Callers -> Caller] /\ caller[c] \in Caller
      /\ heap \in [Ues -> Context] /\ u \in Ues /\ heap[u] \in Context
      /\ caller[c].at = "found" /\ ~caller[c].stale
      /\ doomed \in SUBSET Ues /\ spared \in SUBSET Ues
      /\ CallerPlace /\ ActivityProtects
  BY DEF IInv, TypeOK, CallerPlace, ueRegisterActivity
<1>2. late \in BOOLEAN
  BY Zenon
<1>3. /\ info \in Context /\ ~info.inactive
      /\ info.name = heap[u].name /\ info.mRlcsCF = heap[u].mRlcsCF
  <2> DEFINE h == heap[u]
  <2>1. h \in Context
    BY <1>1
  <2> HIDE DEF h
  <2>2. LET i == [h EXCEPT !.inactive = FALSE]
        IN  i \in Context /\ ~i.inactive /\ i.name = h.name /\ i.mRlcsCF = h.mRlcsCF
    BY <2>1, Zenon DEF Context
  <2> QED
    BY <2>2, Zenon DEF h
<1>4. /\ heap' = [heap EXCEPT ![u] = info]
      /\ caller' = [caller EXCEPT ![c] = k]
      /\ doomed' = doomed \ {u} /\ spared' = spared \ {u}
      /\ UNCHANGED <<mUEList, mUEListLock, rlcs, rrc, mac>>
  BY Zenon DEF ueRegisterActivity, Registered
<1> HIDE DEF late
<1>5. k \in Caller /\ k.at = "using" /\ k.ue = u /\ k.late = late /\ ~k.stale
  <2> DEFINE d == caller[c]
  <2>1. d \in Caller /\ ~d.stale
    BY <1>1
  <2> HIDE DEF d
  <2>2. LET i == [d EXCEPT !.at = "using", !.late = late]
        IN  i \in Caller /\ i.at = "using" /\ i.ue = d.ue /\ i.late = late /\ ~i.stale
    BY <1>2, <2>1, Zenon DEF Caller
  <2> QED
    BY <2>2, Zenon DEF d
<1> HIDE DEF info, k
<1>6. \A w \in Ues : heap'[w] = IF w = u THEN info ELSE heap[w]
  BY <1>1, <1>4, Zenon
<1>7. \A d \in Callers : caller'[d] = IF d = c THEN k ELSE caller[d]
  BY <1>1, <1>4, Zenon
<1>8. \A w \in Ues : heap'[w].name = heap[w].name /\ heap'[w].mRlcsCF = heap[w].mRlcsCF
  BY <1>3, <1>6, Zenon
<1> HIDE DEF u
<1>9. /\ \A i \in DOMAIN mUEList : mUEList[i] \in Ues
      /\ LockHeld /\ RrcPlace /\ OneUePerName /\ FlushSeesUes /\ RlcsBelongToUes
  BY ListType DEF IInv, TypeOK
<1>10. TypeOK'
  <2>1. heap' \in [Ues -> Context] /\ caller' \in [Callers -> Caller]
    BY <1>1, <1>3, <1>4, <1>5, Zenon
  <2>2. doomed' \in SUBSET Ues /\ spared' \in SUBSET Ues
    BY <1>1, <1>4
  <2> QED
    BY <1>4, <2>1, <2>2 DEF IInv, TypeOK
<1>11. LockHeld' /\ FlushSeesUes'
  BY <1>4, <1>9 DEF LockHeld, FlushSeesUes
<1>12. RrcPlace' /\ OneUePerName' /\ RlcsBelongToUes'
  BY <1>4, <1>8, <1>9 DEF RrcPlace, OneUePerName, RlcsBelongToUes
<1>13. CallerPlace'
  <2> SUFFICES ASSUME NEW d \in Callers
               PROVE  /\ caller'[d].at \in {"finding", "found", "using"} => caller'[d].ue \in Ues
                      /\ caller'[d].at = "using" /\ ~caller'[d].stale /\ ~caller'[d].late =>
                           /\ ~heap'[caller'[d].ue].inactive
                           /\ ~(rrc.at = "deleting" /\ mUEList[rrc.itr] = caller'[d].ue)
    BY <1>4 DEF CallerPlace
  <2>1. CASE d = c
    BY <1>1, <1>3, <1>5, <1>6, <1>7, <2>1 DEF late
  <2>2. CASE d # c
    BY <1>1, <1>3, <1>6, <1>7, <2>2 DEF CallerPlace
  <2> QED
    BY <2>1, <2>2
<1>14. ActivityProtects'
  BY <1>1, <1>5, <1>7 DEF ActivityProtects
<1> QED
  BY <1>10, <1>11, <1>12, <1>13, <1>14 DEF IInv

LEMMA CallerStepKeeps ==
  ASSUME IInv, NEW c \in Callers, CallerStep(c)
  PROVE  IInv'
<1>1. CASE \E name \in Sought : FindStarts(c, name)
  BY <1>1, RegistryAssumption, FindStartsKeeps
<1>2. CASE FindLooks(c)
  BY <1>2, FindLooksKeeps
<1>3. CASE ueRegisterActivity(c)
  BY <1>3, ueRegisterActivityKeeps
<1>4. CASE UsesRlc(c)
  BY <1>4, LeavesKeeps DEF UsesRlc
<1>5. CASE UsesDeletedUe(c)
  BY <1>5, UsesDeletedUeKeeps
<1> QED
  BY <1>1, <1>2, <1>3, <1>4, <1>5 DEF CallerStep

-----------------------------------------------------------------------------
\* The thread macTX, and the passage of time.

LEMMA macTXKeeps ==
  ASSUME IInv, macTX
  PROVE  IInv'
<1>1. /\ TypeOK /\ LockHeld /\ FlushSeesUes
      /\ UNCHANGED <<mUEList, heap, rlcs, rrc, caller, doomed, spared>>
  BY DEF IInv, macTX, FlushStarts, FlushReads, FlushEnds
<1>2. RrcPlace' /\ CallerPlace' /\ OneUePerName' /\ RlcsBelongToUes' /\ ActivityProtects'
  BY <1>1 DEF IInv, RrcPlace, CallerPlace, OneUePerName, RlcsBelongToUes, ActivityProtects
<1>3. mac \in Mac /\ mUEList \in Seq(Ues)
  BY <1>1 DEF TypeOK
<1>4. /\ mac' \in Mac /\ mUEListLock' \in {Free, "rrcRxCCCH", "macTX"}
      /\ LockHeld' /\ FlushSeesUes'
  <2>1. CASE FlushStarts
    <3>1. mac' = [at |-> "flushing", ue |-> FirstUe] /\ mUEListLock = Free /\ mUEListLock' = "macTX"
      BY <2>1 DEF FlushStarts, Unlocked
    <3>2. FirstUe \in Ues \cup {NoUe} /\ (FirstUe # NoUe => FirstUe \in Range(mUEList))
      BY <1>3, NextUeType
    <3>3. mac' \in Mac /\ mac'.at = "flushing" /\ mac'.ue = FirstUe
      BY <3>1, <3>2 DEF Mac
    <3> QED
      BY <1>1, <3>1, <3>2, <3>3 DEF LockHeld, FlushSeesUes, Free
  <2>2. CASE FlushReads
    <3>1. /\ mac' = [mac EXCEPT !.ue = NextUe(mac.ue)] /\ mac.at = "flushing"
          /\ mUEListLock' = mUEListLock
      BY <2>2 DEF FlushReads
    <3> DEFINE next == NextUe(mac.ue)
    <3>2. next \in Ues \cup {NoUe} /\ (next # NoUe => next \in Range(mUEList))
      BY <1>3, NextUeType
    <3> HIDE DEF next
    <3>3. mac' \in Mac /\ mac'.at = "flushing" /\ mac'.ue = next
      BY <1>3, <3>1, <3>2 DEF Mac, next
    <3> QED
      BY <1>1, <3>1, <3>2, <3>3 DEF LockHeld, FlushSeesUes, TypeOK
  <2>3. CASE FlushEnds
    <3>1. /\ mac' = [mac EXCEPT !.at = "idle"] /\ mac.at = "flushing"
          /\ mUEListLock' = Free
      BY <2>3 DEF FlushEnds
    <3>2. mac' \in Mac /\ mac'.at = "idle"
      BY <1>3, <3>1 DEF Mac
    <3> QED
      BY <1>1, <3>1, <3>2 DEF LockHeld, FlushSeesUes, Free
  <2> QED
    BY <2>1, <2>2, <2>3 DEF macTX
<1>5. TypeOK'
  BY <1>1, <1>4 DEF TypeOK
<1> QED
  BY <1>2, <1>4, <1>5 DEF IInv

LEMMA GrowsInactiveKeeps ==
  ASSUME IInv, NEW u \in Ues, GrowsInactive(u)
  PROVE  IInv'
<1> DEFINE info == [heap[u] EXCEPT !.inactive = TRUE]
<1>1. /\ heap \in [Ues -> Context] /\ heap[u] \in Context
      /\ LockHeld /\ RrcPlace /\ OneUePerName /\ FlushSeesUes /\ RlcsBelongToUes
      /\ CallerPlace /\ ActivityProtects
      /\ \A i \in DOMAIN mUEList : mUEList[i] \in Ues
  BY ListType DEF IInv, TypeOK
<1>2. /\ info \in Context /\ info.name = heap[u].name /\ info.mRlcsCF = heap[u].mRlcsCF
  <2> DEFINE h == heap[u]
  <2>1. h \in Context
    BY <1>1
  <2> HIDE DEF h
  <2>2. LET i == [h EXCEPT !.inactive = TRUE]
        IN  i \in Context /\ i.name = h.name /\ i.mRlcsCF = h.mRlcsCF
    BY <2>1, Zenon DEF Context
  <2> QED
    BY <2>2, Zenon DEF h
<1>3. /\ heap' = [heap EXCEPT ![u] = info]
      /\ \A c \in Callers : caller[c].at = "using" => caller[c].ue # u
      /\ UNCHANGED <<mUEList, mUEListLock, rlcs, rrc, caller, mac, doomed, spared>>
  BY Zenon DEF GrowsInactive
<1> HIDE DEF info
<1>4. \A w \in Ues : heap'[w] = IF w = u THEN info ELSE heap[w]
  BY <1>1, <1>3, Zenon
<1>5. \A w \in Ues : heap'[w].name = heap[w].name /\ heap'[w].mRlcsCF = heap[w].mRlcsCF
  BY <1>2, <1>4, Zenon
<1>6. TypeOK'
  <2>1. heap' \in [Ues -> Context]
    BY <1>1, <1>2, <1>3, Zenon
  <2> QED
    BY <1>3, <2>1 DEF IInv, TypeOK
<1>7. LockHeld' /\ FlushSeesUes' /\ ActivityProtects'
  BY <1>1, <1>3 DEF LockHeld, FlushSeesUes, ActivityProtects
<1>8. RrcPlace' /\ OneUePerName' /\ RlcsBelongToUes'
  BY <1>1, <1>3, <1>5 DEF RrcPlace, OneUePerName, RlcsBelongToUes
<1>9. CallerPlace'
  BY <1>1, <1>3, <1>4 DEF CallerPlace
<1> QED
  BY <1>6, <1>7, <1>8, <1>9 DEF IInv

-----------------------------------------------------------------------------
\* The steps of rrcRxCCCH.

\* What a step that only moves rrcRxCCCH and the lock must show.
LEMMA RrcMoves ==
  ASSUME IInv, rrc' \in Rrc, rrc'.at # "deleting",
         mUEListLock' \in {Free, "rrcRxCCCH", "macTX"},
         doomed' \in SUBSET Ues, spared' \in SUBSET Ues,
         LockHeld', RrcPlace', RlcsBelongToUes',
         UNCHANGED <<mUEList, heap, rlcs, caller, mac>>
  PROVE  IInv'
<1>1. TypeOK'
  BY DEF IInv, TypeOK
<1>2. OneUePerName' /\ FlushSeesUes' /\ ActivityProtects' /\ CallerPlace'
  BY DEF IInv, OneUePerName, FlushSeesUes, ActivityProtects, CallerPlace
<1> QED
  BY <1>1, <1>2 DEF IInv

LEMMA SetupFindsUeKeeps ==
  ASSUME IInv, NEW name \in Names, SetupFindsUe(name)
  PROVE  IInv'
<1> DEFINE u == findUe(name)
<1>1. /\ rrc \in Rrc /\ mUEList \in Seq(Ues) /\ OneUePerName /\ LockHeld /\ RrcPlace
      /\ RlcsBelongToUes /\ rrc.at = "idle" /\ u # NoUe
      /\ rrc' = [rrc EXCEPT !.at = "connecting", !.ue = u]
      /\ UNCHANGED <<mUEList, mUEListLock, heap, rlcs, caller, mac, doomed, spared>>
  BY DEF IInv, TypeOK, SetupFindsUe
<1>2. /\ \E i \in DOMAIN mUEList : mUEList[i] = u
      /\ u \in Range(mUEList) /\ u \in Ues
  BY <1>1, FindUeType, ListType
<1> HIDE DEF u
<1>3. rrc' \in Rrc /\ rrc'.at = "connecting" /\ rrc'.ue = u
  BY <1>1, <1>2, Zenon DEF Rrc
<1>4. rrc.ue = NoUe /\ NoUe \notin Ues
  BY <1>1, RegistryAssumption DEF RrcPlace, NoUe, Ues
<1>5. LockHeld' /\ RrcPlace'
  BY <1>1, <1>2, <1>3 DEF LockHeld, RrcPlace
<1>6. RlcsBelongToUes'
  BY <1>1, <1>2, <1>3, <1>4 DEF RlcsBelongToUes
<1> QED
  BY <1>1, <1>3, <1>5, <1>6, RrcMoves DEF IInv, TypeOK

LEMMA PurgeStartsKeeps ==
  ASSUME IInv, PurgeStarts
  PROVE  IInv'
<1>1. /\ rrc \in Rrc /\ rrc.at = "purge" /\ mUEListLock = Free /\ mUEListLock' = "rrcRxCCCH"
      /\ LockHeld /\ RrcPlace /\ RlcsBelongToUes
      /\ rrc' = [rrc EXCEPT !.at = "looking", !.itr = 1]
      /\ UNCHANGED <<mUEList, heap, rlcs, caller, mac, spared>>
  BY DEF IInv, TypeOK, PurgeStarts, Unlocked, Begin
<1>2. rrc' \in Rrc /\ rrc'.at = "looking" /\ rrc'.ue = rrc.ue /\ rrc'.itr = 1
  BY <1>1 DEF Rrc
<1>3. LockHeld' /\ RrcPlace' /\ RlcsBelongToUes'
  BY <1>1, <1>2 DEF LockHeld, RrcPlace, RlcsBelongToUes, Free
<1>4. doomed' \in SUBSET Ues /\ spared' \in SUBSET Ues
  BY ListType DEF PurgeStarts, IInv, TypeOK
<1> QED
  BY <1>1, <1>2, <1>3, <1>4, RrcMoves

LEMMA PurgeEndsKeeps ==
  ASSUME IInv, PurgeEnds
  PROVE  IInv'
<1>1. /\ rrc \in Rrc /\ rrc.at = "looking" /\ mUEListLock' = Free
      /\ LockHeld /\ RrcPlace /\ RlcsBelongToUes
      /\ rrc' = [rrc EXCEPT !.at = "adding"]
      /\ UNCHANGED <<mUEList, heap, rlcs, caller, mac>>
  BY DEF IInv, TypeOK, PurgeEnds
<1>2. rrc' \in Rrc /\ rrc'.at = "adding" /\ rrc'.ue = rrc.ue
  BY <1>1 DEF Rrc
<1>3. LockHeld' /\ RrcPlace' /\ RlcsBelongToUes'
  BY <1>1, <1>2 DEF LockHeld, RrcPlace, RlcsBelongToUes, Free
<1>4. doomed' \in SUBSET Ues /\ spared' \in SUBSET Ues
  BY DEF PurgeEnds, IInv, TypeOK
<1> QED
  BY <1>1, <1>2, <1>3, <1>4, RrcMoves

LEMMA SetupEndsKeeps ==
  ASSUME IInv, SetupEnds
  PROVE  IInv'
<1>1. /\ rrc.at = "connecting" /\ LockHeld /\ RrcPlace /\ RlcsBelongToUes
      /\ mUEList \in Seq(Ues)
      /\ rrc' = [at |-> "idle", ue |-> NoUe, itr |-> 0]
      /\ UNCHANGED <<mUEList, mUEListLock, heap, rlcs, caller, mac, doomed, spared>>
  BY DEF IInv, TypeOK, SetupEnds
<1>2. rrc' \in Rrc /\ rrc'.at = "idle" /\ rrc'.ue = NoUe
  BY <1>1 DEF Rrc
<1>3. rrc.ue \in Range(mUEList) /\ NoUe \notin Ues
  BY <1>1, ListType, RegistryAssumption DEF RrcPlace, NoUe, Ues
<1>4. LockHeld' /\ RrcPlace' /\ RlcsBelongToUes'
  BY <1>1, <1>2, <1>3 DEF LockHeld, RrcPlace, RlcsBelongToUes
<1> QED
  BY <1>1, <1>2, <1>4, RrcMoves DEF IInv, TypeOK

\* It deletes only a UE it found inactive, hence no UE that is in use.
LEMMA PurgeLooksKeeps ==
  ASSUME IInv, PurgeLooks
  PROVE  IInv'
<1> DEFINE u == mUEList[rrc.itr]
<1>1. /\ rrc \in Rrc /\ mUEList \in Seq(Ues) /\ rrc.at = "looking"
      /\ LockHeld /\ RrcPlace /\ RlcsBelongToUes /\ CallerPlace
      /\ rrc.itr <= Len(mUEList) /\ rrc.itr \in Nat
      /\ UNCHANGED <<mUEList, mUEListLock, heap, rlcs, caller, mac, doomed, spared>>
  BY DEF IInv, TypeOK, PurgeLooks, Rrc
<1>2. rrc.itr \in DOMAIN mUEList
  BY <1>1, ListType DEF RrcPlace
<1>3. CASE heap[u].inactive
  <2>1. rrc' = [rrc EXCEPT !.at = "deleting"]
    BY <1>3 DEF PurgeLooks
  <2>2. rrc' \in Rrc /\ rrc'.at = "deleting" /\ rrc'.ue = rrc.ue /\ rrc'.itr = rrc.itr
    BY <1>1, <2>1 DEF Rrc
  <2>3. TypeOK'
    BY <1>1, <2>2 DEF IInv, TypeOK
  <2>4. LockHeld' /\ RrcPlace' /\ RlcsBelongToUes'
    BY <1>1, <1>2, <2>2 DEF LockHeld, RrcPlace, RlcsBelongToUes
  <2>5. CallerPlace'
    BY <1>1, <1>3, <2>2 DEF CallerPlace
  <2>6. OneUePerName' /\ FlushSeesUes' /\ ActivityProtects'
    BY <1>1 DEF IInv, OneUePerName, FlushSeesUes, ActivityProtects
  <2> QED
    BY <2>3, <2>4, <2>5, <2>6 DEF IInv
<1>4. CASE ~heap[u].inactive
  <2>1. rrc' = [rrc EXCEPT !.itr = rrc.itr + 1]
    BY <1>4 DEF PurgeLooks
  <2>2. rrc' \in Rrc /\ rrc'.at = "looking" /\ rrc'.ue = rrc.ue /\ rrc'.itr = rrc.itr + 1
    BY <1>1, <2>1 DEF Rrc
  <2>3. LockHeld' /\ RrcPlace' /\ RlcsBelongToUes'
    BY <1>1, <2>2 DEF LockHeld, RrcPlace, RlcsBelongToUes
  <2> QED
    BY <1>1, <2>2, <2>3, RrcMoves DEF IInv, TypeOK
<1> QED
  BY <1>3, <1>4


\* A caller never points to the address of a UE that is only now created,
\* unless it is stale.
LEMMA SetupNewUeKeeps ==
  ASSUME IInv, NEW name \in Names, SetupNewUe(name)
  PROVE  IInv'
<1> DEFINE u == new(name)
           info == UEInfo(name)
<1>1. /\ rrc \in Rrc /\ mUEList \in Seq(Ues) /\ heap \in [Ues -> Context] /\ rrc.at = "idle"
      /\ LockHeld /\ RrcPlace /\ CallerPlace /\ RlcsBelongToUes /\ OneUePerName
      /\ FlushSeesUes /\ ActivityProtects
      /\ findUe(name) = NoUe /\ Ues # Range(mUEList)
      /\ heap' = [heap EXCEPT ![u] = info]
      /\ rrc' = [rrc EXCEPT !.at = "purge", !.ue = u]
      /\ UNCHANGED <<mUEList, mUEListLock, rlcs, caller, mac, doomed, spared>>
  BY DEF IInv, TypeOK, SetupNewUe
<1>2. u \in Ues /\ \A i \in DOMAIN mUEList : mUEList[i] # u
  BY <1>1, NewType
<1>3. /\ \A i \in DOMAIN mUEList : heap[mUEList[i]].name # name
      /\ \A i \in DOMAIN mUEList : mUEList[i] \in Ues
  BY <1>1, FindUeType, ListType
<1>4. info \in Context /\ info.name = name /\ info.mRlcsCF = {} /\ ~info.inactive
  BY DEF UEInfo, Context
<1> HIDE DEF u, info
<1>5. rrc' \in Rrc /\ rrc'.at = "purge" /\ rrc'.ue = u
  BY <1>1, <1>2, Zenon DEF Rrc
<1>6. heap' \in [Ues -> Context] /\ \A w \in Ues : heap'[w] = IF w = u THEN info ELSE heap[w]
  BY <1>1, <1>4, Zenon
<1>7. rrc.ue = NoUe /\ NoUe \notin Ues /\ u \notin Range(mUEList)
  BY <1>1, <1>2, ListType, RegistryAssumption DEF RrcPlace, NoUe, Ues
<1>8. TypeOK'
  BY <1>1, <1>5, <1>6 DEF IInv, TypeOK
<1>9. LockHeld' /\ FlushSeesUes' /\ ActivityProtects'
  BY <1>1, <1>5 DEF LockHeld, FlushSeesUes, ActivityProtects
<1>10. \A i \in DOMAIN mUEList : heap'[mUEList[i]] = heap[mUEList[i]]
  BY <1>2, <1>3, <1>6
<1>11. RrcPlace'
  BY <1>1, <1>2, <1>3, <1>4, <1>5, <1>6, <1>10 DEF RrcPlace
<1>12. OneUePerName'
  BY <1>1, <1>10 DEF OneUePerName
<1>13. RlcsBelongToUes'
  <2> SUFFICES ASSUME NEW w \in Ues, NEW rbid \in Rbs
               PROVE  <<w, rbid>> \in rlcs <=> /\ w \in Range(mUEList) \cup {u}
                                               /\ rbid \in heap'[w].mRlcsCF
    BY <1>1, <1>5, Zenon DEF RlcsBelongToUes
  <2>1. <<w, rbid>> \in rlcs <=> w \in Range(mUEList) /\ rbid \in heap[w].mRlcsCF
    BY <1>1, <1>7 DEF RlcsBelongToUes
  <2>2. CASE w = u
    BY <1>4, <1>6, <1>7, <2>1, <2>2
  <2>3. CASE w # u
    BY <1>6, <2>1, <2>3
  <2> QED
    BY <2>2, <2>3
<1>14. CallerPlace'
  BY <1>1, <1>4, <1>5, <1>6 DEF CallerPlace
<1> QED
  BY <1>8, <1>9, <1>11, <1>12, <1>13, <1>14 DEF IInv

\* The lock is free: macTX is not going through the list.
LEMMA addUEKeeps ==
  ASSUME IInv, addUE
  PROVE  IInv'
<1> DEFINE list == Append(mUEList, rrc.ue)
           n == Len(mUEList)
<1>1. /\ rrc \in Rrc /\ mUEList \in Seq(Ues) /\ rrc.at = "adding" /\ mUEListLock = Free
      /\ LockHeld /\ RrcPlace /\ CallerPlace /\ RlcsBelongToUes /\ OneUePerName
      /\ rrc.ue \in Ues
      /\ \A i \in DOMAIN mUEList : heap[mUEList[i]].name # heap[rrc.ue].name
      /\ mUEList' = list
      /\ rrc' = [rrc EXCEPT !.at = "connecting"]
      /\ UNCHANGED <<mUEListLock, heap, rlcs, caller, mac, doomed, spared>>
  BY DEF IInv, TypeOK, addUE, RrcPlace, Unlocked
<1>2. /\ n \in Nat /\ DOMAIN mUEList = 1 .. n
      /\ list \in Seq(Ues) /\ Len(list) = n + 1 /\ DOMAIN list = 1 .. n + 1
      /\ \A i \in 1 .. n : list[i] = mUEList[i]
      /\ list[n + 1] = rrc.ue
  BY <1>1, AppendProperties, ListType
<1> HIDE DEF list, n
<1>3. rrc' \in Rrc /\ rrc'.at = "connecting" /\ rrc'.ue = rrc.ue
  BY <1>1 DEF Rrc
<1>4. \A i \in DOMAIN list :
        \/ i = n + 1 /\ list[i] = rrc.ue
        \/ i \in DOMAIN mUEList /\ list[i] = mUEList[i]
  BY <1>2
<1>5. TypeOK'
  BY <1>1, <1>2, <1>3 DEF IInv, TypeOK
<1>6. LockHeld' /\ FlushSeesUes' /\ ActivityProtects' /\ CallerPlace'
  BY <1>1, <1>3 DEF IInv, LockHeld, FlushSeesUes, ActivityProtects, CallerPlace, Free
<1>7. RrcPlace'
  <2>1. n + 1 \in DOMAIN list
    BY <1>2
  <2> QED
    BY <1>1, <1>2, <1>3, <2>1 DEF RrcPlace
<1>8. OneUePerName'
  BY <1>1, <1>2, <1>4 DEF OneUePerName
<1>9. Range(list) = Range(mUEList) \cup {rrc.ue}
  <2>1. \A u : u \in Range(list) <=> \E i \in DOMAIN list : list[i] = u
    BY <1>2, ListType
  <2>2. \A u : u \in Range(mUEList) <=> \E i \in DOMAIN mUEList : mUEList[i] = u
    BY <1>1, ListType
  <2>3. \A i \in DOMAIN mUEList : i \in DOMAIN list /\ list[i] = mUEList[i]
    BY <1>2
  <2>4. n + 1 \in DOMAIN list
    BY <1>2
  <2> QED
    BY <1>2, <1>4, <2>1, <2>2, <2>3, <2>4, Zenon
<1>10. RlcsBelongToUes'
  BY <1>1, <1>3, <1>9 DEF RlcsBelongToUes
<1> QED
  BY <1>5, <1>6, <1>7, <1>8, <1>10 DEF IInv

LEMMA ueConnectRlcKeeps ==
  ASSUME IInv, ueConnectRlc
  PROVE  IInv'
<1> DEFINE u == rrc.ue
<1>1. /\ rrc \in Rrc /\ mUEList \in Seq(Ues) /\ heap \in [Ues -> Context]
      /\ rlcs \in SUBSET (Ues \X Rbs)
      /\ rrc.at = "connecting" /\ LockHeld /\ RrcPlace /\ CallerPlace /\ RlcsBelongToUes
      /\ OneUePerName /\ FlushSeesUes /\ ActivityProtects
      /\ UNCHANGED <<mUEList, mUEListLock, rrc, caller, mac, doomed, spared>>
  BY DEF IInv, TypeOK, ueConnectRlc
<1>2. u \in Ues /\ u \in Range(mUEList) /\ \A i \in DOMAIN mUEList : mUEList[i] \in Ues
  BY <1>1, ListType DEF RrcPlace
<1>3. PICK rbid \in Rbs :
        /\ heap' = [heap EXCEPT ![u].mRlcsCF = @ \cup {rbid}, ![u].mUeMaxRlc = Max({@, rbid})]
        /\ rlcs' = rlcs \cup {<<u, rbid>>}
  BY DEF ueConnectRlc
<1> DEFINE h == heap[u]
           rbs == h.mRlcsCF \cup {rbid}
           max == Max({h.mUeMaxRlc, rbid})
           info == [h EXCEPT !.mRlcsCF = rbs, !.mUeMaxRlc = max]
<1>4. h \in Context
  BY <1>1, <1>2
<1>5. rbs \in SUBSET Rbs /\ max \in Rbs \cup {0}
  <2> HIDE DEF h, info
  <2>1. h.mRlcsCF \in SUBSET Rbs /\ h.mUeMaxRlc \in Rbs \cup {0}
    BY <1>4, Zenon DEF Context
  <2>2. h.mUeMaxRlc \in Nat /\ rbid \in Nat
    <3>1. \A x \in Rbs \cup {0} : x \in Nat
      BY RegistryAssumption
    <3> QED
      BY <2>1, <3>1, Zenon
  <2>3. \E x \in {h.mUeMaxRlc, rbid} : \A y \in {h.mUeMaxRlc, rbid} : x >= y
    BY <2>2
  <2>4. max \in {h.mUeMaxRlc, rbid}
    BY <2>3 DEF Max
  <2> QED
    BY <2>1, <2>4
<1>6. heap' = [heap EXCEPT ![u] = info]
  BY <1>1, <1>2, <1>3, Zenon
<1> HIDE DEF rbs, max, h
<1>7. /\ info \in Context /\ info.mRlcsCF = rbs
      /\ info.name = h.name /\ info.inactive = h.inactive
  BY <1>4, <1>5, Zenon DEF Context
<1> HIDE DEF info
<1>8. heap' \in [Ues -> Context] /\ \A w \in Ues : heap'[w] = IF w = u THEN info ELSE heap[w]
  BY <1>1, <1>6, <1>7, Zenon
<1>9. /\ \A w \in Ues : heap'[w].name = heap[w].name /\ heap'[w].inactive = heap[w].inactive
      /\ \A w \in Ues : heap'[w].mRlcsCF = IF w = u THEN heap[u].mRlcsCF \cup {rbid} ELSE heap[w].mRlcsCF
  BY <1>7, <1>8, Zenon DEF h, rbs
<1>10. TypeOK'
  <2>1. rlcs' \in SUBSET (Ues \X Rbs)
    BY <1>1, <1>2, <1>3
  <2> QED
    BY <1>1, <1>8, <2>1 DEF IInv, TypeOK
<1>11. LockHeld' /\ FlushSeesUes' /\ ActivityProtects'
  BY <1>1 DEF LockHeld, FlushSeesUes, ActivityProtects
<1>12. RrcPlace' /\ OneUePerName' /\ CallerPlace'
  BY <1>1, <1>2, <1>9 DEF RrcPlace, OneUePerName, CallerPlace
<1>13. RlcsBelongToUes'
  <2> SUFFICES ASSUME NEW w \in Ues, NEW b \in Rbs
               PROVE  <<w, b>> \in rlcs' <=> /\ w \in Range(mUEList) \cup {u}
                                             /\ b \in heap'[w].mRlcsCF
    BY <1>1, Zenon DEF RlcsBelongToUes
  <2>1. <<w, b>> \in rlcs <=> w \in Range(mUEList) \cup {u} /\ b \in heap[w].mRlcsCF
    BY <1>1 DEF RlcsBelongToUes
  <2>2. <<w, b>> \in rlcs' <=> <<w, b>> \in rlcs \/ (w = u /\ b = rbid)
    BY <1>3
  <2>3. heap'[w].mRlcsCF = IF w = u THEN heap[w].mRlcsCF \cup {rbid} ELSE heap[w].mRlcsCF
    BY <1>9, Zenon
  <2> HIDE DEF u
  <2>4. CASE w = u
    BY <1>2, <2>1, <2>2, <2>3, <2>4
  <2>5. CASE w # u
    BY <2>1, <2>2, <2>3, <2>5
  <2> QED
    BY <2>4, <2>5
<1> QED
  BY <1>10, <1>11, <1>12, <1>13 DEF IInv


\* purgeUEs takes one UE off the list and deletes it with its RLCs.
LEMMA PurgeDeletesKeeps ==
  ASSUME IInv, PurgeDeletes
  PROVE  IInv'
<1> DEFINE k == rrc.itr
           u == mUEList[k]
           list == RemoveAt(mUEList, k)
           Marked(c) == IF caller[c].ue = u THEN [caller[c] EXCEPT !.stale = TRUE] ELSE caller[c]
<1>1. /\ rrc \in Rrc /\ mUEList \in Seq(Ues) /\ heap \in [Ues -> Context]
      /\ rlcs \in SUBSET (Ues \X Rbs) /\ caller \in [Callers -> Caller]
      /\ doomed \in SUBSET Ues /\ spared \in SUBSET Ues
      /\ rrc.at = "deleting" /\ LockHeld /\ RrcPlace /\ CallerPlace /\ RlcsBelongToUes
      /\ OneUePerName /\ FlushSeesUes /\ ActivityProtects
      /\ k \in DOMAIN mUEList /\ rrc.ue \in Ues
      /\ \A i \in DOMAIN mUEList : heap[mUEList[i]].name # heap[rrc.ue].name
  BY DEF IInv, TypeOK, PurgeDeletes, RrcPlace
<1>2. /\ mUEList' = list
      /\ rlcs' = rlcs \ ({u} \X heap[u].mRlcsCF)
      /\ heap' = [heap EXCEPT ![u] = Deleted]
      /\ doomed' = doomed \ {u} /\ spared' = spared \ {u}
      /\ caller' = [c \in Callers |-> Marked(c)]
      /\ rrc' = [rrc EXCEPT !.at = "looking", !.itr = 2]
      /\ UNCHANGED <<mUEListLock, mac>>
  BY DEF PurgeDeletes, ueDisconnectRlc, AfterErase, Begin
<1>3. /\ list \in Seq(Ues)
      /\ \A j \in DOMAIN list : \E i \in DOMAIN mUEList : i # k /\ list[j] = mUEList[i]
      /\ \A j1, j2 \in DOMAIN list : j1 # j2 =>
           \E i1, i2 \in DOMAIN mUEList : /\ i1 # i2 /\ i1 # k /\ i2 # k
                                          /\ list[j1] = mUEList[i1] /\ list[j2] = mUEList[i2]
      /\ \A i \in DOMAIN mUEList : i # k => \E j \in DOMAIN list : list[j] = mUEList[i]
  BY <1>1, RemoveAtType, RemoveAtRange
<1>4. /\ \A i \in DOMAIN mUEList : mUEList[i] \in Ues
      /\ \A i \in DOMAIN mUEList : i # k => mUEList[i] # u
      /\ u \in Ues /\ rrc.ue # u
  BY <1>1, ListType DEF OneUePerName
<1> HIDE DEF k, list
<1>5. rrc' \in Rrc /\ rrc'.at = "looking" /\ rrc'.ue = rrc.ue /\ rrc'.itr = 2
  BY <1>1, <1>2 DEF Rrc
<1>6. Deleted \in Context
  BY RegistryAssumption DEF Deleted, Context
<1> HIDE DEF u
<1>7. heap' \in [Ues -> Context] /\ \A w \in Ues : w # u => heap'[w] = heap[w]
  BY <1>1, <1>2, <1>6, Zenon
<1>8. ASSUME NEW c \in Callers
      PROVE  /\ Marked(c) \in Caller /\ Marked(c).at = caller[c].at /\ Marked(c).ue = caller[c].ue
             /\ Marked(c).late = caller[c].late
             /\ Marked(c).stale <=> caller[c].ue = u \/ caller[c].stale
  <2> DEFINE d == caller[c]
             marked == [d EXCEPT !.stale = TRUE]
  <2>1. d \in Caller
    BY <1>1
  <2>2. Marked(c) = IF d.ue = u THEN marked ELSE d
    OBVIOUS
  <2> HIDE DEF d
  <2>3. /\ marked \in Caller /\ marked.at = d.at /\ marked.ue = d.ue /\ marked.late = d.late
        /\ marked.stale
    BY <2>1, Zenon DEF Caller
  <2> HIDE DEF marked, Marked
  <2> QED
    BY <2>1, <2>2, <2>3, Zenon DEF d
<1> HIDE DEF Marked
<1>9. \A c \in Callers : caller'[c] = Marked(c)
  BY <1>2, Zenon
<1>10. TypeOK'
  <2>1. caller' \in [Callers -> Caller]
    BY <1>2, <1>8, Zenon
  <2>2. rlcs' \in SUBSET (Ues \X Rbs) /\ doomed' \in SUBSET Ues /\ spared' \in SUBSET Ues
    BY <1>1, <1>2
  <2> QED
    BY <1>2, <1>3, <1>5, <1>7, <2>1, <2>2 DEF IInv, TypeOK
<1>11. LockHeld' /\ FlushSeesUes'
  BY <1>1, <1>2, <1>5 DEF LockHeld, FlushSeesUes
<1>12. \A j \in DOMAIN list : /\ list[j] \in Ues /\ list[j] # u
                              /\ heap'[list[j]] = heap[list[j]]
  BY <1>3, <1>4, <1>7
<1>13. RrcPlace'
  <2>1. heap'[rrc.ue] = heap[rrc.ue]
    BY <1>1, <1>4, <1>7
  <2>2. \A j \in DOMAIN list : heap'[list[j]].name # heap'[rrc.ue].name
    BY <1>1, <1>3, <1>12, <2>1
  <2> QED
    BY <1>1, <1>2, <1>5, <2>2 DEF RrcPlace
<1>14. OneUePerName'
  <2> SUFFICES ASSUME NEW j1 \in DOMAIN list, NEW j2 \in DOMAIN list, j1 # j2
               PROVE  heap'[list[j1]].name # heap'[list[j2]].name
    BY <1>2 DEF OneUePerName
  <2>1. PICK i1 \in DOMAIN mUEList, i2 \in DOMAIN mUEList :
          i1 # i2 /\ list[j1] = mUEList[i1] /\ list[j2] = mUEList[i2]
    BY <1>3, Zenon
  <2>2. heap[mUEList[i1]].name # heap[mUEList[i2]].name
    BY <1>1, <2>1 DEF OneUePerName
  <2> QED
    BY <1>12, <2>1, <2>2, Zenon
<1>15. RlcsBelongToUes'
  <2> SUFFICES ASSUME NEW w \in Ues, NEW b \in Rbs
               PROVE  <<w, b>> \in rlcs' <=> /\ w \in Range(list) \cup {rrc.ue}
                                             /\ b \in heap'[w].mRlcsCF
    BY <1>2, <1>5, Zenon DEF RlcsBelongToUes
  <2>1. <<w, b>> \in rlcs <=> w \in Range(mUEList) \cup {rrc.ue} /\ b \in heap[w].mRlcsCF
    BY <1>1 DEF RlcsBelongToUes
  <2>2. <<w, b>> \in rlcs' <=> <<w, b>> \in rlcs /\ ~(w = u /\ b \in heap[u].mRlcsCF)
    BY <1>2
  <2>3. w \in Range(list) <=> \E j \in DOMAIN list : list[j] = w
    BY <1>3, ListType
  <2>4. w \in Range(mUEList) <=> \E i \in DOMAIN mUEList : mUEList[i] = w
    BY <1>1, ListType
  <2>5. CASE w = u
    <3>1. w \notin Range(list) /\ w # rrc.ue
      BY <1>4, <1>12, <2>3, <2>5
    <3> QED
      BY <2>1, <2>2, <2>5, <3>1
  <2>6. CASE w # u
    <3>1. mUEList[k] = u
      BY DEF u
    <3>2. w \in Range(list) <=> w \in Range(mUEList)
      BY <1>3, <2>3, <2>4, <2>6, <3>1, Zenon
    <3> QED
      BY <1>7, <2>1, <2>2, <2>6, <3>2
  <2> QED
    BY <2>5, <2>6
<1>16. CallerPlace'
  <2> SUFFICES ASSUME NEW c \in Callers
               PROVE  /\ caller'[c].at \in {"finding", "found", "using"} => caller'[c].ue \in Ues
                      /\ caller'[c].at = "using" /\ ~caller'[c].stale /\ ~caller'[c].late =>
                           ~heap'[caller'[c].ue].inactive
    BY <1>5 DEF CallerPlace
  <2>1. /\ caller'[c].at = caller[c].at /\ caller'[c].ue = caller[c].ue
        /\ caller'[c].late = caller[c].late
        /\ caller'[c].stale <=> caller[c].ue = u \/ caller[c].stale
    BY <1>8, <1>9
  <2> QED
    BY <1>1, <1>7, <2>1 DEF CallerPlace
<1>17. ActivityProtects'
  <2> SUFFICES ASSUME NEW c \in Callers, caller'[c].at = "using", caller'[c].stale
               PROVE  caller'[c].late
    BY DEF ActivityProtects
  <2>1. /\ caller[c].at = "using" /\ caller'[c].late = caller[c].late
        /\ caller[c].ue = u \/ caller[c].stale
    BY <1>8, <1>9
  <2>2. caller[c].stale \in BOOLEAN /\ caller[c].late \in BOOLEAN
    BY <1>1 DEF Caller
  <2>3. CASE caller[c].stale
    BY <1>1, <2>1, <2>3 DEF ActivityProtects
  <2>4. CASE ~caller[c].stale
    <3>1. mUEList[rrc.itr] = caller[c].ue
      BY <2>1, <2>4 DEF u, k
    <3> QED
      BY <1>1, <2>1, <2>2, <2>4, <3>1 DEF CallerPlace
  <2> QED
    BY <2>3, <2>4
<1> QED
  BY <1>10, <1>11, <1>13, <1>14, <1>15, <1>16, <1>17 DEF IInv

LEMMA rrcRxCCCHKeeps ==
  ASSUME IInv, rrcRxCCCH
  PROVE  IInv'
<1>1. CASE \E name \in Names : SetupFindsUe(name) \/ SetupNewUe(name)
  BY <1>1, SetupFindsUeKeeps, SetupNewUeKeeps
<1>2. CASE PurgeStarts \/ PurgeLooks \/ PurgeDeletes \/ PurgeEnds
  BY <1>2, PurgeStartsKeeps, PurgeLooksKeeps, PurgeDeletesKeeps, PurgeEndsKeeps
<1>3. CASE addUE \/ ueConnectRlc \/ SetupEnds
  BY <1>3, addUEKeeps, ueConnectRlcKeeps, SetupEndsKeeps
<1> QED
  BY <1>1, <1>2, <1>3 DEF rrcRxCCCH

-----------------------------------------------------------------------------
LEMMA StepInv == IInv /\ [Next]_vars => IInv'
<1> SUFFICES ASSUME IInv, [Next]_vars PROVE IInv'
  OBVIOUS
<1>1. CASE rrcRxCCCH
  BY <1>1, rrcRxCCCHKeeps
<1>2. CASE macTX
  BY <1>2, macTXKeeps
<1>3. CASE \E c \in Callers : CallerStep(c)
  BY <1>3, CallerStepKeeps
<1>4. CASE \E u \in Ues : GrowsInactive(u)
  BY <1>4, GrowsInactiveKeeps
<1>5. CASE UNCHANGED vars
  BY <1>5 DEF vars, IInv, TypeOK, LockHeld, RrcPlace, CallerPlace, OneUePerName,
              FlushSeesUes, RlcsBelongToUes, ActivityProtects
<1> QED
  BY <1>1, <1>2, <1>3, <1>4, <1>5 DEF Next

THEOREM SpecIInv == Spec => []IInv
<1> QED
  BY InitInv, StepInv, PTL DEF Spec

\* However many UEs, threads and bearers: every record keeps its shape.
THEOREM SpecTypeOK == Spec => []TypeOK
<1>1. IInv => TypeOK
  BY DEF IInv
<1> QED
  BY <1>1, SpecIInv, PTL

\* A UE is never set up twice: URlc.cpp:110 finds the one it has.
THEOREM SpecOneUePerName == Spec => []OneUePerName
<1>1. IInv => OneUePerName
  BY DEF IInv
<1> QED
  BY <1>1, SpecIInv, PTL

\* flushUE is never at a UE that purgeUEs has deleted.
THEOREM SpecFlushSeesUes == Spec => []FlushSeesUes
<1>1. IInv => FlushSeesUes
  BY DEF IInv
<1> QED
  BY <1>1, SpecIInv, PTL

\* The RLCs that exist are those of the UEs that exist.
THEOREM SpecRlcsBelongToUes == Spec => []RlcsBelongToUes
<1>1. IInv => RlcsBelongToUes
  BY DEF IInv
<1> QED
  BY <1>1, SpecIInv, PTL

\* A caller that registers activity in time can finish.
THEOREM SpecActivityProtects == Spec => []ActivityProtects
<1>1. IInv => ActivityProtects
  BY DEF IInv
<1> QED
  BY <1>1, SpecIInv, PTL
=============================================================================
