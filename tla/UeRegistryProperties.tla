------------------------ MODULE UeRegistryProperties ------------------------
(***************************************************************************)
(* What must be true of the UEs and their RLCs while several threads use   *)
(* them.                                                                   *)
(***************************************************************************)
EXTENDS UeRegistry

\* One name, one UE: a second request of a UE for a connection, which may
\* arrive at any time, finds the context of the first by number and NodeB
\* (URlc.cpp:110) and does not make another, whatever is purged and added.
OneUePerName ==
  \A i, j \in DOMAIN mUEList :
    heap[mUEList[i]].name = heap[mUEList[j]].name => i = j

\* macTX only goes through UEs that exist: what purgeUEs takes off the list
\* and deletes (URRC.cpp:151-153) is never the UE flushUE is at.
FlushSeesUes ==
  mac.at = "flushing" /\ mac.ue # NoUe => mac.ue \in Range(mUEList)

\* No RLC outlives its UE and none is deleted while its UE still has it: the
\* destructor of UEInfo does not delete them, purgeUEs and ueConnectRlc must
\* (URRC.cpp:152, UEInfo.cpp:265-266).
RlcsBelongToUes ==
  \A u \in Ues, rbid \in Rbs :
    <<u, rbid>> \in rlcs <=> /\ u \in Range(mUEList) \cup {rrc.ue}
                             /\ rbid \in heap[u].mRlcsCF

\* "Throw away UEs that died" (URRC.cpp:6): after a deletion the iterator is
\* set to the first UE and the loop steps over it (URRC.cpp:159), so one that
\* has died may be left, but no more than one.
PurgeLeavesAtMostOne ==
  [][PurgeEnds => Cardinality(doomed) <= 1]_vars

\* The activity time protects a UE in use from deletion, although findUe does
\* not lock the list: a thread that has registered activity can finish,
\* unless purgeUEs had already read the time before.
ActivityProtects ==
  \A c \in Callers : caller[c].at = "using" /\ caller[c].stale => caller[c].late

\* The UE a purge has stepped over does not escape again: it is the first one
\* the next purge looks at (URRC.cpp:116), unless it shows activity after all.
NoUeSparedTwice == [][PurgeEnds => doomed \cap spared = {}]_vars
=============================================================================
