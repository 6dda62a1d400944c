------------------------- MODULE DcchThreadsProofs --------------------------
(***************************************************************************)
(* Proofs about DcchThreads: the linked list of an uplink queue with its   *)
(* pool of nodes is a queue, and the threads around it hand over SDUs as   *)
(* SduHandOver says; threads that count references with no lock lose       *)
(* memory, but never delete what is in use.                                *)
(***************************************************************************)
EXTENDS DcchThreadsProperties, TLAPS

-----------------------------------------------------------------------------
(* The list.  ns[k] is the node of the k-th item ever put, for the items after *)
(* the first lo, which were taken.  The nodes in pool are those released: none *)
(* of them is in the list, and no two lead to the same next one.               *)

ChainOK(q, items, lo, ns, pool) ==
  /\ \A k \in lo + 1 .. Len(items) : ns[k] \in q.nodes \ pool /\ q.data[ns[k]] = items[k]
  /\ \A k, l \in lo + 1 .. Len(items) : ns[k] = ns[l] => k = l
  /\ \A k \in lo + 1 .. Len(items) :
       q.next[ns[k]] = IF k = Len(items) THEN NULL ELSE ns[k + 1]
  /\ q.mHead = IF lo = Len(items) THEN NULL ELSE ns[lo + 1]
  /\ q.mTail = IF lo = Len(items) THEN NULL ELSE ns[Len(items)]
  /\ q.mSize = Len(items) - lo

PoolOK(q, pool) ==
  /\ pool \subseteq q.nodes
  /\ q.mFreeList \in pool \cup {NULL}
  /\ \A n \in pool : q.next[n] \in pool \cup {NULL}
  /\ \A n \in pool : q.next[n] # NULL => q.next[n] # q.mFreeList
  /\ \A m, n \in pool : q.next[m] = q.next[n] /\ q.next[m] # NULL => m = n

QueueHolds(q, items, lo) ==
  \E ns \in [Nat -> Node \cup {NULL}], pool \in SUBSET Node :
    ChainOK(q, items, lo, ns, pool) /\ PoolOK(q, pool)

(* A list stays one when its fields are set to values they may have.           *)
LEMMA SetData ==
  ASSUME NEW q \in Fifo, NEW v \in [Node -> Item \cup {NULL}]
  PROVE  [q EXCEPT !.data = v] \in Fifo
BY DEF Fifo

LEMMA SetNext ==
  ASSUME NEW q \in Fifo, NEW v \in [Node -> Node \cup {NULL}]
  PROVE  [q EXCEPT !.next = v] \in Fifo
BY DEF Fifo

LEMMA SetTail ==
  ASSUME NEW q \in Fifo, NEW v \in Node \cup {NULL}
  PROVE  [q EXCEPT !.mTail = v] \in Fifo
BY DEF Fifo

LEMMA SetHead ==
  ASSUME NEW q \in Fifo, NEW v \in Node \cup {NULL}
  PROVE  [q EXCEPT !.mHead = v] \in Fifo
BY DEF Fifo

LEMMA SetSize ==
  ASSUME NEW q \in Fifo, NEW v \in Nat
  PROVE  [q EXCEPT !.mSize = v] \in Fifo
BY DEF Fifo

LEMMA SetFields ==
  ASSUME NEW q \in Fifo, NEW d \in [Node -> Item \cup {NULL}], NEW x \in [Node -> Node \cup {NULL}],
         NEW t \in Node \cup {NULL}, NEW h \in Node \cup {NULL}, NEW s \in Nat
  PROVE  [q EXCEPT !.data = d, !.next = x, !.mTail = t, !.mHead = h, !.mSize = s] \in Fifo
<1> DEFINE withData == [q EXCEPT !.data = d]
           withNext == [withData EXCEPT !.next = x]
           withTail == [withNext EXCEPT !.mTail = t]
           withHead == [withTail EXCEPT !.mHead = h]
           withSize == [withHead EXCEPT !.mSize = s]
<1>1. withSize \in Fifo
  <2>1. withData \in Fifo BY SetData
  <2> HIDE DEF withData
  <2>2. withNext \in Fifo BY <2>1, SetNext
  <2> HIDE DEF withNext
  <2>3. withTail \in Fifo BY <2>2, SetTail
  <2> HIDE DEF withTail
  <2>4. withHead \in Fifo BY <2>3, SetHead
  <2> HIDE DEF withHead
  <2> QED BY <2>4, SetSize
<1> QED BY <1>1

LEMMA FieldsOf ==
  ASSUME NEW q \in Fifo
  PROVE  /\ q.next \in [Node -> Node \cup {NULL}] /\ q.data \in [Node -> Item \cup {NULL}]
         /\ q.nodes \in SUBSET Node /\ q.mSize \in Nat
         /\ q.mHead \in Node \cup {NULL} /\ q.mTail \in Node \cup {NULL}
         /\ q.mFreeList \in Node \cup {NULL}
BY DEF Fifo

(* allocate returns a node of the pool or a new one.                           *)
LEMMA NodeForType ==
  ASSUME NEW q \in Fifo, CanAllocate(q)
  PROVE  /\ NodeFor(q) \in Node
         /\ q.mFreeList # NULL => NodeFor(q) = q.mFreeList
         /\ q.mFreeList = NULL => NodeFor(q) \notin q.nodes
<1>1. CASE q.mFreeList # NULL
  BY <1>1, FieldsOf DEF NodeFor
<1>2. CASE q.mFreeList = NULL
  <2>1. \E n \in Node : n \notin q.nodes
    BY <1>2, FieldsOf DEF CanAllocate
  <2>2. NodeFor(q) = CHOOSE n \in Node : n \notin q.nodes
    BY <1>2 DEF NodeFor
  <2> QED BY <1>2, <2>1, <2>2
<1> QED BY <1>1, <1>2

(* What put changes of a list.                                                 *)
LEMMA PutFields ==
  ASSUME NEW q \in Fifo, NEW val \in Item, CanAllocate(q)
  PROVE  /\ put(q, val) \in Fifo
         /\ put(q, val).mSize = q.mSize + 1
         /\ put(q, val).mTail = NodeFor(q)
         /\ put(q, val).mHead = IF q.mHead = NULL THEN NodeFor(q) ELSE q.mHead
         /\ put(q, val).mFreeList = IF q.mFreeList # NULL THEN q.next[q.mFreeList] ELSE NULL
         /\ put(q, val).nodes = q.nodes \cup {NodeFor(q)}
         /\ put(q, val).data = [q.data EXCEPT ![NodeFor(q)] = val]
         /\ put(q, val).next =
              IF q.mTail # NULL
              THEN [[q.next EXCEPT ![NodeFor(q)] = NULL] EXCEPT ![q.mTail] = NodeFor(q)]
              ELSE [q.next EXCEPT ![NodeFor(q)] = NULL]
<1> DEFINE n == NodeFor(q)
           linked == [q.next EXCEPT ![n] = NULL]
           next == IF q.mTail # NULL THEN [linked EXCEPT ![q.mTail] = n] ELSE linked
           data == [q.data EXCEPT ![n] = val]
           head == IF q.mHead = NULL THEN n ELSE q.mHead
           A == allocate(q)
<1>1. n \in Node
  BY NodeForType
<1>2. /\ A \in Fifo
      /\ A.mFreeList = IF q.mFreeList # NULL THEN q.next[q.mFreeList] ELSE NULL
      /\ A.nodes = q.nodes \cup {n}
      /\ A.mHead = q.mHead /\ A.mTail = q.mTail /\ A.mSize = q.mSize
      /\ A.next = q.next /\ A.data = q.data
  BY <1>1 DEF allocate, Fifo
<1>3. /\ data \in [Node -> Item \cup {NULL}] /\ next \in [Node -> Node \cup {NULL}]
      /\ head \in Node \cup {NULL} /\ n \in Node \cup {NULL} /\ q.mSize + 1 \in Nat
  BY <1>1, FieldsOf
<1>4. put(q, val) = [A EXCEPT !.data = [@ EXCEPT ![n] = val],
                              !.next = IF q.mTail # NULL
                                       THEN [[A.next EXCEPT ![n] = NULL] EXCEPT ![q.mTail] = n]
                                       ELSE [A.next EXCEPT ![n] = NULL],
                              !.mTail = n, !.mHead = IF @ = NULL THEN n ELSE @, !.mSize = @ + 1]
  BY Zenon DEF put
<1>5. put(q, val) = [A EXCEPT !.data = data, !.next = next, !.mTail = n, !.mHead = head,
                              !.mSize = q.mSize + 1]
  BY <1>2, <1>4
<1> HIDE DEF A, n, next, data, head
<1>6. put(q, val) \in Fifo
  <2>1. [A EXCEPT !.data = data, !.next = next, !.mTail = n, !.mHead = head,
                  !.mSize = q.mSize + 1] \in Fifo
    BY <1>2, <1>3, SetFields
  <2> QED BY <2>1, <1>5
<1>7. /\ put(q, val).mSize = q.mSize + 1 /\ put(q, val).mTail = n /\ put(q, val).mHead = head
      /\ put(q, val).mFreeList = A.mFreeList /\ put(q, val).nodes = A.nodes
      /\ put(q, val).data = data /\ put(q, val).next = next
  BY <1>2, <1>5 DEF Fifo
<1> QED BY <1>2, <1>6, <1>7 DEF n, next, data, head

(* What get changes of a list that is not empty.                               *)
LEMMA GetFields ==
  ASSUME NEW q \in Fifo, q.mHead # NULL, q.mSize > 0
  PROVE  /\ get(q) \in Fifo
         /\ get(q).mSize = q.mSize - 1
         /\ get(q).mHead = q.next[q.mHead]
         /\ get(q).mTail = IF q.next[q.mHead] = NULL THEN NULL ELSE q.mTail
         /\ get(q).mFreeList = q.mHead
         /\ get(q).nodes = q.nodes
         /\ get(q).data = q.data
         /\ get(q).next = [q.next EXCEPT ![q.mHead] = q.mFreeList]
<1>1. get(q) =
        [mHead |-> q.next[q.mHead], mTail |-> IF q.next[q.mHead] = NULL THEN NULL ELSE q.mTail,
         mFreeList |-> q.mHead, mSize |-> q.mSize - 1, nodes |-> q.nodes,
         next |-> [q.next EXCEPT ![q.mHead] = q.mFreeList], data |-> q.data]
  BY DEF get, release, Fifo
<1>2. /\ q.next[q.mHead] \in Node \cup {NULL} /\ q.mSize - 1 \in Nat
      /\ [q.next EXCEPT ![q.mHead] = q.mFreeList] \in [Node -> Node \cup {NULL}]
  BY FieldsOf
<1>3. get(q) \in Fifo
  BY <1>1, <1>2, FieldsOf DEF Fifo
<1> QED BY <1>1, <1>3

(* An empty list.                                                              *)
LEMMA EmptyHolds ==
  EmptyFifo \in Fifo /\ QueueHolds(EmptyFifo, << >>, 0)
<1>1. EmptyFifo \in Fifo
  BY DEF EmptyFifo, Fifo
<1> DEFINE ns == [k \in Nat |-> NULL]
<1>2. ns \in [Nat -> Node \cup {NULL}] /\ {} \in SUBSET Node
  OBVIOUS
<1>3. ChainOK(EmptyFifo, << >>, 0, ns, {})
  BY DEF ChainOK, EmptyFifo
<1>4. PoolOK(EmptyFifo, {})
  BY DEF PoolOK, EmptyFifo
<1> QED BY <1>1, <1>2, <1>3, <1>4 DEF QueueHolds

(* put appends: the node linked in is neither in the list nor left in the pool.*)
LEMMA PutHolds ==
  ASSUME NEW q \in Fifo, CanAllocate(q), NEW val \in Item, NEW items \in Seq(Item),
         NEW lo \in 0 .. Len(items), QueueHolds(q, items, lo)
  PROVE  QueueHolds(put(q, val), Append(items, val), lo)
<1> DEFINE n == NodeFor(q)
           Q == put(q, val)
           items2 == Append(items, val)
           L == Len(items)
<1>1. PICK ns \in [Nat -> Node \cup {NULL}], pool \in SUBSET Node :
        ChainOK(q, items, lo, ns, pool) /\ PoolOK(q, pool)
  BY DEF QueueHolds
<1> DEFINE ns2 == [ns EXCEPT ![L + 1] = n]
           pool2 == pool \ {n}
<1>2. /\ L \in Nat /\ lo \in Nat /\ lo <= L /\ Len(items2) = L + 1
      /\ items2[L + 1] = val /\ \A k \in 1 .. L : items2[k] = items[k]
  OBVIOUS
<1>3. /\ n \in Node
      /\ n \in pool \/ n \notin q.nodes
      /\ q.mFreeList # NULL => n = q.mFreeList
      /\ q.mFreeList = NULL => n \notin q.nodes
  BY <1>1, NodeForType DEF PoolOK
<1>4. /\ Q.mSize = q.mSize + 1 /\ Q.mTail = n
      /\ Q.mHead = IF q.mHead = NULL THEN n ELSE q.mHead
      /\ Q.mFreeList = IF q.mFreeList # NULL THEN q.next[q.mFreeList] ELSE NULL
      /\ Q.nodes = q.nodes \cup {n} /\ Q.data = [q.data EXCEPT ![n] = val]
      /\ Q.next = IF q.mTail # NULL THEN [[q.next EXCEPT ![n] = NULL] EXCEPT ![q.mTail] = n]
                  ELSE [q.next EXCEPT ![n] = NULL]
  BY PutFields
<1>5. /\ q.next \in [Node -> Node \cup {NULL}] /\ q.data \in [Node -> Item \cup {NULL}]
      /\ q.nodes \in SUBSET Node /\ NULL \notin Node
  BY FieldsOf, ThreadAssumption
<1>6. /\ ns2 \in [Nat -> Node \cup {NULL}] /\ ns2[L + 1] = n
      /\ \A k \in lo + 1 .. L : ns2[k] = ns[k]
  BY <1>2, <1>3
<1> HIDE DEF n, Q, L, ns2, items2
<1>7. \A k \in lo + 1 .. L : ns[k] \in Node /\ ns[k] # n /\ ns[k] \notin pool
  BY <1>1, <1>2, <1>3, <1>5 DEF ChainOK, PoolOK, L
<1>8. q.mTail # n /\ q.mTail \notin pool /\ (q.mTail # NULL <=> lo < L)
  BY <1>1, <1>2, <1>3, <1>5, <1>7 DEF ChainOK, L
<1>9. ChainOK(Q, items2, lo, ns2, pool2)
  <2>1. \A k \in lo + 1 .. L + 1 : ns2[k] \in Q.nodes \ pool2 /\ Q.data[ns2[k]] = items2[k]
    <3> TAKE k \in lo + 1 .. L + 1
    <3>1. CASE k = L + 1
      BY <3>1, <1>2, <1>3, <1>4, <1>5, <1>6
    <3>2. CASE k \in lo + 1 .. L
      <4>1. ns[k] \in q.nodes \ pool /\ q.data[ns[k]] = items[k]
        BY <3>2, <1>1 DEF ChainOK, L
      <4>2. items2[k] = items[k] /\ ns2[k] = ns[k] /\ ns[k] # n
        BY <3>2, <1>2, <1>6, <1>7
      <4> QED BY <4>1, <4>2, <1>4, <1>5
    <3> QED BY <3>1, <3>2, <1>2
  <2>2. \A k, l \in lo + 1 .. L + 1 : ns2[k] = ns2[l] => k = l
    <3> TAKE k, l \in lo + 1 .. L + 1
    <3>1. \A j \in lo + 1 .. L : ns2[j] = ns[j] /\ ns[j] # n
      BY <1>6, <1>7
    <3>2. \A i, j \in lo + 1 .. L : ns[i] = ns[j] => i = j
      BY <1>1 DEF ChainOK, L
    <3>3. k = L + 1 \/ k \in lo + 1 .. L
      BY <1>2
    <3>4. l = L + 1 \/ l \in lo + 1 .. L
      BY <1>2
    <3> QED BY <3>1, <3>2, <3>3, <3>4, <1>6
  <2>3. \A k \in lo + 1 .. L + 1 : Q.next[ns2[k]] = IF k = L + 1 THEN NULL ELSE ns2[k + 1]
    <3> TAKE k \in lo + 1 .. L + 1
    <3>1. CASE k = L + 1
      BY <3>1, <1>3, <1>4, <1>5, <1>6, <1>8
    <3>2. CASE k \in lo + 1 .. L
      <4>1. lo < L /\ q.mTail = ns[L] /\ q.next[ns[k]] = IF k = L THEN NULL ELSE ns[k + 1]
        BY <3>2, <1>1, <1>2 DEF ChainOK, L
      <4>2. ns2[k] = ns[k] /\ ns[k] # n /\ ns[k] \in Node
        BY <3>2, <1>6, <1>7
      <4>3. Q.next = [[q.next EXCEPT ![n] = NULL] EXCEPT ![ns[L]] = n]
        BY <4>1, <1>4, <1>8
      <4>4. CASE k = L
        BY <4>2, <4>3, <4>4, <1>2, <1>5, <1>6
      <4>5. CASE k # L
        <5>1. L \in lo + 1 .. L /\ k + 1 \in lo + 1 .. L
          BY <4>5, <3>2, <4>1, <1>2
        <5>2. ns[k] # ns[L] /\ ns2[k + 1] = ns[k + 1]
          BY <5>1, <4>5, <3>2, <1>1, <1>6 DEF ChainOK, L
        <5> QED BY <5>1, <5>2, <4>1, <4>2, <4>3, <4>5, <1>2, <1>5
      <4> QED BY <4>4, <4>5
    <3> QED BY <3>1, <3>2, <1>2
  <2>4. /\ Q.mHead = IF lo = L + 1 THEN NULL ELSE ns2[lo + 1]
        /\ Q.mTail = IF lo = L + 1 THEN NULL ELSE ns2[L + 1]
        /\ Q.mSize = L + 1 - lo
    <3>1. /\ q.mHead = IF lo = L THEN NULL ELSE ns[lo + 1]
          /\ q.mSize = L - lo
      BY <1>1 DEF ChainOK, L
    <3>2. lo < L => ns2[lo + 1] = ns[lo + 1] /\ ns[lo + 1] # NULL
      BY <1>2, <1>5, <1>6, <1>7
    <3> QED BY <3>1, <3>2, <1>2, <1>4, <1>6
  <2> QED BY <2>1, <2>2, <2>3, <2>4, <1>2 DEF ChainOK
<1>10. PoolOK(Q, pool2)
  <2>1. \A m \in pool2 : m \in pool /\ m # n /\ Q.next[m] = q.next[m]
    BY <1>4, <1>5, <1>8
  <2>2. \A m \in pool : q.next[m] \in pool \cup {NULL} /\ (q.next[m] # NULL => q.next[m] # q.mFreeList)
    BY <1>1 DEF PoolOK
  <2>3. \A k, m \in pool : q.next[k] = q.next[m] /\ q.next[k] # NULL => k = m
    BY <1>1 DEF PoolOK
  <2>4. pool \subseteq q.nodes /\ q.mFreeList \in pool \cup {NULL}
    BY <1>1 DEF PoolOK
  <2>5. CASE q.mFreeList # NULL
    <3>1. n = q.mFreeList /\ n \in pool /\ Q.mFreeList = q.next[n]
      BY <2>4, <2>5, <1>3, <1>4
    <3> QED BY <3>1, <2>1, <2>2, <2>3, <2>4, <1>4 DEF PoolOK
  <2>6. CASE q.mFreeList = NULL
    <3>1. n \notin pool /\ Q.mFreeList = NULL
      BY <2>4, <2>6, <1>3, <1>4
    <3> QED BY <3>1, <2>1, <2>2, <2>3, <2>4, <1>4, SMTT(20) DEF PoolOK
  <2> QED BY <2>5, <2>6
<1> QED BY <1>6, <1>9, <1>10 DEF QueueHolds, Q, items2

(* get returns the first item not yet taken, whose node it puts first in the   *)
(* pool.                                                                       *)
LEMMA GetHolds ==
  ASSUME NEW q \in Fifo, NEW items \in Seq(Item), NEW lo \in Nat, lo < Len(items),
         QueueHolds(q, items, lo)
  PROVE  /\ Front(q) = items[lo + 1] /\ q.mHead # NULL /\ q.mSize > 0
         /\ QueueHolds(get(q), items, lo + 1)
<1> DEFINE Q == get(q)
           L == Len(items)
           h == q.mHead
<1>1. PICK ns \in [Nat -> Node \cup {NULL}], pool \in SUBSET Node :
        ChainOK(q, items, lo, ns, pool) /\ PoolOK(q, pool)
  BY DEF QueueHolds
<1> DEFINE pool2 == pool \cup {h}
<1>2. L \in Nat /\ lo + 1 \in lo + 1 .. L
  OBVIOUS
<1>3. /\ q.next \in [Node -> Node \cup {NULL}] /\ q.data \in [Node -> Item \cup {NULL}]
      /\ q.nodes \in SUBSET Node /\ NULL \notin Node
  BY FieldsOf, ThreadAssumption
<1>4. /\ h = ns[lo + 1] /\ h \in q.nodes /\ h \notin pool /\ h \in Node /\ h # NULL
      /\ q.data[h] = items[lo + 1] /\ q.mSize > 0
  BY <1>1, <1>2, <1>3 DEF ChainOK
<1>5. /\ Q.mSize = q.mSize - 1 /\ Q.mHead = q.next[h]
      /\ Q.mTail = IF q.next[h] = NULL THEN NULL ELSE q.mTail
      /\ Q.mFreeList = h /\ Q.nodes = q.nodes /\ Q.data = q.data
      /\ Q.next = [q.next EXCEPT ![h] = q.mFreeList]
  BY <1>4, GetFields
<1> HIDE DEF Q, h, L
<1>6. \A k \in lo + 2 .. L : ns[k] \in Node /\ ns[k] # h /\ ns[k] \notin pool /\ Q.next[ns[k]] = q.next[ns[k]]
  <2> TAKE k \in lo + 2 .. L
  <2>1. k \in lo + 1 .. L /\ k # lo + 1
    BY <1>2
  <2>2. ns[k] \in q.nodes \ pool /\ ns[k] # ns[lo + 1]
    BY <2>1, <1>1, <1>2 DEF ChainOK, L
  <2> QED BY <2>2, <1>3, <1>4, <1>5
<1>7. q.next[h] = (IF lo + 1 = L THEN NULL ELSE ns[lo + 2])
  BY <1>1, <1>2, <1>4 DEF ChainOK, L
<1>8. ChainOK(Q, items, lo + 1, ns, pool2)
  <2>1. \A k \in lo + 2 .. L : k \in lo + 1 .. L
    BY <1>2
  <2>2. \A k \in lo + 2 .. L : ns[k] \in Q.nodes \ pool2 /\ Q.data[ns[k]] = items[k]
    BY <2>1, <1>1, <1>5, <1>6 DEF ChainOK, L
  <2>3. \A k, l \in lo + 2 .. L : ns[k] = ns[l] => k = l
    BY <2>1, <1>1 DEF ChainOK, L
  <2>4. \A k \in lo + 2 .. L : Q.next[ns[k]] = IF k = L THEN NULL ELSE ns[k + 1]
    BY <2>1, <1>1, <1>6 DEF ChainOK, L
  <2>5. /\ Q.mHead = IF lo + 1 = L THEN NULL ELSE ns[lo + 2]
        /\ Q.mTail = IF lo + 1 = L THEN NULL ELSE ns[L]
        /\ Q.mSize = L - (lo + 1)
    <3>1. q.mTail = ns[L] /\ q.mSize = L - lo
      BY <1>1, <1>2 DEF ChainOK, L
    <3>2. lo + 1 # L => ns[lo + 2] # NULL
      BY <1>2, <1>3, <1>6
    <3> QED BY <3>1, <3>2, <1>2, <1>5, <1>7
  <2> QED BY <2>2, <2>3, <2>4, <2>5, <1>2 DEF ChainOK, L
<1>9. PoolOK(Q, pool2)
  <2>1. \A m \in pool : m # h /\ Q.next[m] = q.next[m] /\ q.next[m] \in pool \cup {NULL}
    BY <1>1, <1>3, <1>4, <1>5 DEF PoolOK
  <2>2. Q.next[h] = q.mFreeList /\ q.mFreeList \in pool \cup {NULL}
    BY <1>1, <1>3, <1>4, <1>5 DEF PoolOK
  <2> QED BY <2>1, <2>2, <1>1, <1>4, <1>5 DEF PoolOK
<1>10. pool2 \in SUBSET Node
  BY <1>4
<1> QED
  <2>1. QueueHolds(Q, items, lo + 1)
    BY <1>8, <1>9, <1>10 DEF QueueHolds
  <2> QED BY <2>1, <1>4 DEF Front, Q, h

LEMMA EmptyFront ==
  ASSUME NEW q \in Fifo, NEW items \in Seq(Item), QueueHolds(q, items, Len(items))
  PROVE  Front(q) = NULL /\ get(q) = q
<1>1. q.mHead = NULL
  BY DEF QueueHolds, ChainOK
<1> QED BY <1>1 DEF Front, get

-----------------------------------------------------------------------------
(* Types.  Each operation on memory and on a queue keeps those of its own      *)
(* variables.                                                                  *)

LEMMA Vectors ==
  /\ Local \in Vec /\ Pdu \in Vec /\ LogSegment \in Vec
  /\ \A i \in Down : DownSdu(i) \in Vec /\ Kept(i) \in Vec
  /\ \A i \in Up : UpSdu(i) \in Vec
BY DEF Vec

LEMMA NewBlockType ==
  ASSUME MemoryTypeOK, heap # Block
  PROVE  NewBlock \in Block /\ NewBlock \notin heap
<1>1. \E b \in Block : b \notin heap
  BY DEF MemoryTypeOK
<1> QED BY <1>1 DEF NewBlock

LEMMA InitType ==
  ASSUME MemoryTypeOK, NEW v \in Vec, init(v)
  PROVE  MemoryTypeOK'
BY NewBlockType DEF init, MemoryTypeOK

LEMMA LoadingType ==
  ASSUME MemoryTypeOK, NEW t \in Thread, NEW v \in Vec, NEW b \in Block, NEW op \in {"inc", "dec"}
  PROVE  Loading(t, v, op, b) \in [Thread -> Call]
<1>1. [op |-> op, vec |-> v, loaded |-> refcnt[b]] \in Call
  BY DEF Call, MemoryTypeOK
<1> QED BY <1>1 DEF Loading, MemoryTypeOK

LEMMA DupType ==
  ASSUME MemoryTypeOK, NEW t \in Thread, NEW v \in Vec, NEW w \in Vec, dup(t, v, w)
  PROVE  MemoryTypeOK'
<1>1. mData[w] \in Block \cup {NULL}
  BY DEF MemoryTypeOK
<1>2. call' \in [Thread -> Call]
  BY <1>1, LoadingType DEF dup, MemoryTypeOK
<1> QED BY <1>1, <1>2 DEF dup, MemoryTypeOK

LEMMA ClearType ==
  ASSUME MemoryTypeOK, NEW t \in Thread, NEW v \in Vec, clear(t, v)
  PROVE  MemoryTypeOK'
<1>1. mData[v] \in Block \cup {NULL}
  BY DEF MemoryTypeOK
<1>2. call' \in [Thread -> Call]
  BY <1>1, LoadingType DEF clear, MemoryTypeOK
<1> QED BY <1>2 DEF clear, MemoryTypeOK

LEMMA NoCallType ==
  NoCall \in Call
BY DEF NoCall, Call

LEMMA SetType ==
  ASSUME MemoryTypeOK, NEW t \in Thread, setRefCnt(t)
  PROVE  MemoryTypeOK'
<1> DEFINE c == call[t]
<1>1. c \in Call /\ c.loaded \in Int
  BY DEF MemoryTypeOK, Call
<1>2. Counted(c) \in Int
  BY <1>1 DEF Counted
<1>3. [c EXCEPT !.op = "delete"] \in Call
  BY <1>1 DEF Call
<1>4. call' \in [Thread -> Call]
  BY <1>3, NoCallType DEF setRefCnt, MemoryTypeOK
<1>5. mData' \in [Vec -> Block \cup {NULL}] /\ refcnt' \in [Block -> Int]
  BY <1>2 DEF setRefCnt, MemoryTypeOK
<1> QED BY <1>4, <1>5 DEF setRefCnt, MemoryTypeOK

LEMMA DeleteType ==
  ASSUME MemoryTypeOK, NEW t \in Thread, deleteData(t)
  PROVE  MemoryTypeOK'
BY NoCallType DEF deleteData, MemoryTypeOK

LEMMA MemoryUnchanged ==
  ASSUME MemoryTypeOK, UNCHANGED memory
  PROVE  MemoryTypeOK'
BY DEF MemoryTypeOK, memory

LEMMA QueuesUnchanged ==
  ASSUME QueueTypeOK, UNCHANGED queues
  PROVE  QueueTypeOK'
BY DEF QueueTypeOK, queues

LEMMA WriteType ==
  ASSUME QueueTypeOK, NEW q \in Queue, NEW val \in Item, Write(q, val)
  PROVE  QueueTypeOK'
<1>1. put(mQ[q], val) \in Fifo
  BY PutFields DEF QueueTypeOK, Write
<1> QED BY <1>1 DEF QueueTypeOK, Write

LEMMA SignalType ==
  ASSUME QueueTypeOK, NEW q \in Queue, Signal(q)
  PROVE  QueueTypeOK'
BY DEF QueueTypeOK, Signal

LEMMA QueuesOfProgram ==
  WriteQueue \in Queue /\ ReadQueue \in Queue
BY ThreadAssumption DEF WriteQueue, ReadQueue

-----------------------------------------------------------------------------
(* The invariant.  The list RRC reads holds the SDUs sent to it and not taken, *)
(* so that it is not empty when get decrements mSize; a thread is only at a    *)
(* place where it uses a vector when there is one.                             *)

ToReader == IF WriteQueue = ReadQueue THEN sent ELSE << >>

PlacesOK ==
  /\ pc[RrcTx] \in {"write", "push"} => written # 0
  /\ pc[MacTx] = "fill" => mSduTxQ # << >>
  /\ pc[MacTx] \in {"fill", "send"} => pdu # NULL

ReadersOK == \A r \in Reader : reading[r] = "returned" <=> retVal[r] # NULL

HandedOver ==
  /\ Len(taken) <= Len(ToReader)
  /\ \A k \in 1 .. Len(taken) : taken[k] = ToReader[k]
  /\ QueueHolds(mQ[ReadQueue], ToReader, Len(taken))

QueueInv == TypeOK /\ PlacesOK /\ ReadersOK /\ HandedOver

LEMMA HandedOverUnchanged ==
  ASSUME HandedOver, UNCHANGED <<mQ, mRlcMode, sent, taken>>
  PROVE  HandedOver'
<1>1. ToReader' = ToReader /\ mQ'[ReadQueue] = mQ[ReadQueue] /\ taken' = taken
  BY DEF ToReader, WriteQueue, IsSrb
<1> QED BY <1>1 DEF HandedOver

LEMMA ReadersUnchanged ==
  ASSUME ReadersOK, UNCHANGED <<reading, retVal>>
  PROVE  ReadersOK'
BY DEF ReadersOK

LEMMA QueueInvInit ==
  Init => QueueInv
<1> SUFFICES ASSUME Init PROVE QueueInv
  OBVIOUS
<1>1. TypeOK
  <2>1. MemoryTypeOK
    BY NoCallType DEF Init, MemoryInit, MemoryTypeOK
  <2>2. QueueTypeOK
    BY EmptyHolds DEF Init, QueueInit, QueueTypeOK
  <2> QED BY <2>1, <2>2, ThreadAssumption DEF Init, TypeOK
<1>2. PlacesOK /\ ReadersOK
  BY DEF Init, PlacesOK, ReadersOK, QueueInit
<1>3. HandedOver
  <2>1. mQ[ReadQueue] = EmptyFifo /\ ToReader = << >> /\ taken = << >>
    BY QueuesOfProgram DEF Init, QueueInit, ToReader
  <2> QED BY <2>1, EmptyHolds DEF HandedOver
<1> QED BY <1>1, <1>2, <1>3 DEF QueueInv

(* A step of the threads that neither write to a queue nor read from one.      *)
Elsewhere == RrcTxNext \/ MacTxNext \/ NewUpSdu \/ discardPartialSdu \/ \E t \in Thread : Memory(t)

LEMMA ElsewhereStep ==
  ASSUME QueueInv, Elsewhere
  PROVE  QueueInv'
<1> USE DEF QueueInv
<1>0. /\ RrcTx \in Thread /\ MacTx \in Thread /\ MacRx \in Thread
      /\ DOMAIN pc = {RrcTx, MacTx, MacRx} /\ RrcTx # MacTx /\ MacTx # MacRx /\ RrcTx # MacRx
  BY DEF Thread, RrcTx, MacTx, MacRx, TypeOK
<1>1. UNCHANGED <<queues, mRlcMode, sent, taken>>
  BY DEF Elsewhere, RrcTxNext, MacTxNext, rrcSendDCCH, NewDownSdu, PushSdu, DcchReturns, ReadTm,
         ReadUm, FillUm, fillPduData, SendPdu, NewUpSdu, discardPartialSdu, Memory, uplink, downlink
<1>2. QueueTypeOK' /\ ReadersOK' /\ HandedOver'
  BY <1>1, QueuesUnchanged, ReadersUnchanged, HandedOverUnchanged DEF TypeOK, queues
<1>3. MemoryTypeOK /\ MaxSdus \in Nat
  BY ThreadAssumption DEF TypeOK
<1>4. ASSUME rrcSendDCCH PROVE QueueInv'
  <2>1. MemoryTypeOK'
    BY <1>3, <1>4, InitType, Vectors DEF rrcSendDCCH
  <2> QED BY <2>1, <1>0, <1>1, <1>2, <1>3, <1>4
          DEF rrcSendDCCH, At, Goes, TypeOK, PlacesOK, uplink
<1>5. ASSUME NewDownSdu PROVE QueueInv'
  <2>1. MemoryTypeOK'
    BY <1>0, <1>3, <1>5, DupType, Vectors DEF NewDownSdu, At, PlacesOK, TypeOK, Down
  <2> QED BY <2>1, <1>0, <1>1, <1>2, <1>3, <1>5
          DEF NewDownSdu, At, Goes, TypeOK, PlacesOK, uplink, downlink
<1>6. ASSUME PushSdu PROVE QueueInv'
  <2>1. MemoryTypeOK'
    BY <1>3, <1>6, MemoryUnchanged DEF PushSdu
  <2>2. written \in Down
    BY <1>0, <1>6 DEF PushSdu, At, PlacesOK, TypeOK, Down
  <2> QED BY <2>1, <2>2, <1>0, <1>1, <1>2, <1>6
          DEF PushSdu, At, Goes, TypeOK, PlacesOK, uplink
<1>7. ASSUME DcchReturns PROVE QueueInv'
  <2>1. MemoryTypeOK'
    BY <1>0, <1>3, <1>7, ClearType, Vectors DEF DcchReturns
  <2> QED BY <2>1, <1>0, <1>1, <1>2, <1>7
          DEF DcchReturns, At, Goes, TypeOK, PlacesOK, uplink, downlink
<1>8. ASSUME ReadTm PROVE QueueInv'
  <2>1. MemoryTypeOK'
    BY <1>3, <1>8, MemoryUnchanged DEF ReadTm
  <2>2. Head(mSduTxQ) \in Down /\ Tail(mSduTxQ) \in Seq(Down)
    BY <1>8 DEF ReadTm, TypeOK
  <2>3. pdu' \in Vec /\ pdu' # NULL
    BY <2>2, <1>8, Vectors, ThreadAssumption DEF ReadTm
  <2> QED BY <2>1, <2>2, <2>3, <1>0, <1>1, <1>2, <1>8
          DEF ReadTm, At, Goes, TypeOK, PlacesOK, uplink
<1>9. ASSUME ReadUm PROVE QueueInv'
  <2>1. MemoryTypeOK'
    BY <1>3, <1>9, InitType, Vectors DEF ReadUm
  <2>2. Pdu \in Vec /\ Pdu # NULL
    BY Vectors, ThreadAssumption
  <2> QED BY <2>1, <2>2, <1>0, <1>1, <1>2, <1>9
          DEF ReadUm, At, Goes, TypeOK, PlacesOK, uplink
<1>10. ASSUME FillUm PROVE QueueInv'
  <2>1. fillPduData("send") /\ mSduTxQ # << >> /\ pdu # NULL
    BY <1>10 DEF FillUm, fillPduData, At, PlacesOK
  <2>2. Head(mSduTxQ) \in Down /\ Tail(mSduTxQ) \in Seq(Down)
    BY <2>1 DEF TypeOK
  <2>3. MemoryTypeOK'
    BY <2>1, <2>2, <1>0, <1>3, ClearType, Vectors DEF fillPduData
  <2> QED BY <2>1, <2>2, <2>3, <1>0, <1>1, <1>2
          DEF fillPduData, At, Goes, TypeOK, PlacesOK, uplink
<1>11. ASSUME SendPdu PROVE QueueInv'
  <2>1. pdu \in Vec
    BY <1>11 DEF SendPdu, At, PlacesOK, TypeOK
  <2>2. MemoryTypeOK'
    BY <2>1, <1>0, <1>3, <1>11, ClearType DEF SendPdu
  <2> QED BY <2>2, <1>0, <1>1, <1>2, <1>11
          DEF SendPdu, At, Goes, TypeOK, PlacesOK, uplink
<1>12. ASSUME NewUpSdu PROVE QueueInv'
  <2>1. received + 1 \in Up
    BY <1>3, <1>12 DEF NewUpSdu, TypeOK, Up
  <2>2. MemoryTypeOK'
    BY <2>1, <1>3, <1>12, InitType, Vectors DEF NewUpSdu
  <2> QED BY <2>1, <2>2, <1>1, <1>2, <1>12
          DEF NewUpSdu, TypeOK, PlacesOK, downlink, Up
<1>13. ASSUME discardPartialSdu PROVE QueueInv'
  <2>1. mUpSdu \in Up
    BY <1>13 DEF discardPartialSdu, TypeOK
  <2>2. MemoryTypeOK'
    BY <2>1, <1>0, <1>3, <1>13, ClearType, Vectors DEF discardPartialSdu
  <2> QED BY <2>2, <1>1, <1>2, <1>13
          DEF discardPartialSdu, TypeOK, PlacesOK, downlink
<1>14. ASSUME NEW t \in Thread, Memory(t) PROVE QueueInv'
  <2>1. MemoryTypeOK'
    BY <1>3, <1>14, SetType, DeleteType DEF Memory
  <2> QED BY <2>1, <1>1, <1>2, <1>14
          DEF Memory, TypeOK, PlacesOK, downlink, uplink
<1> QED BY <1>4, <1>5, <1>6, <1>7, <1>8, <1>9, <1>10, <1>11, <1>12, <1>13, <1>14
        DEF Elsewhere, RrcTxNext, MacTxNext

(* A bearer that is not for signalling writes to a queue that is not read.     *)
LEMMA VoiceElsewhere ==
  ~IsSrb => WriteQueue # ReadQueue
BY ThreadAssumption DEF WriteQueue, ReadQueue

LEMMA SendStep ==
  ASSUME QueueInv, rlcSendHighSide
  PROVE  QueueInv'
<1> USE DEF QueueInv
<1>1. /\ mUpSdu \in Up /\ Item = Up /\ CanAllocate(mQ[WriteQueue])
      /\ mQ' = [mQ EXCEPT ![WriteQueue] = put(@, mUpSdu)]
      /\ UNCHANGED <<waiting, reading, retVal, memory, mRlcMode, downlink, received, taken>>
  BY DEF rlcSendHighSide, Write, TypeOK, Item
<1>2. /\ WriteQueue \in Queue /\ ReadQueue \in Queue /\ mQ \in [Queue -> Fifo]
      /\ sent \in Seq(Up) /\ taken \in Seq(Up)
  BY QueuesOfProgram DEF TypeOK, QueueTypeOK
<1>3. QueueTypeOK'
  BY <1>1, <1>2, WriteType DEF rlcSendHighSide, TypeOK
<1>4. MemoryTypeOK'
  BY <1>1, MemoryUnchanged DEF TypeOK
<1>5. TypeOK'
  BY <1>1, <1>2, <1>3, <1>4 DEF rlcSendHighSide, At, Goes, TypeOK, downlink
<1>6. PlacesOK' /\ ReadersOK'
  BY <1>1, ReadersUnchanged DEF rlcSendHighSide, At, Goes, PlacesOK, TypeOK, downlink, RrcTx, MacTx, MacRx
<1>7. HandedOver'
  <2>1. CASE WriteQueue = ReadQueue
    <3>1. sent' = Append(sent, mUpSdu)
      BY <2>1, VoiceElsewhere DEF rlcSendHighSide
    <3>2. ToReader = sent /\ ToReader' = sent' /\ mQ'[ReadQueue] = put(mQ[ReadQueue], mUpSdu)
      BY <2>1, <1>1, <1>2 DEF ToReader, WriteQueue, IsSrb
    <3>3. QueueHolds(put(mQ[ReadQueue], mUpSdu), Append(sent, mUpSdu), Len(taken))
      BY <3>2, <2>1, <1>1, <1>2, PutHolds DEF HandedOver
    <3>4. /\ Len(taken) <= Len(sent) + 1 /\ Len(Append(sent, mUpSdu)) = Len(sent) + 1
          /\ \A k \in 1 .. Len(taken) : taken[k] = Append(sent, mUpSdu)[k]
      BY <3>2, <1>1, <1>2 DEF HandedOver
    <3> QED BY <3>1, <3>2, <3>3, <3>4, <1>1 DEF HandedOver
  <2>2. CASE WriteQueue # ReadQueue
    <3>1. ToReader' = ToReader /\ mQ'[ReadQueue] = mQ[ReadQueue] /\ taken' = taken
      BY <2>2, <1>1, <1>2 DEF ToReader, WriteQueue, IsSrb
    <3> QED BY <3>1 DEF HandedOver
  <2> QED BY <2>1, <2>2
<1> QED BY <1>5, <1>6, <1>7

LEMMA SignalStep ==
  ASSUME QueueInv, SignalsRead \/ \E r \in Reader : ReturnsSpuriously(r)
  PROVE  QueueInv'
<1> USE DEF QueueInv
<1>1. /\ UNCHANGED <<mQ, reading, retVal, memory, mRlcMode, downlink, uplink>>
      /\ waiting' \in [Queue -> SUBSET Reader]
      /\ pc' = pc \/ SignalsRead
  BY QueuesOfProgram
     DEF SignalsRead, Signal, ReturnsSpuriously, SpuriousReturn, TypeOK, QueueTypeOK
<1>2. MemoryTypeOK' /\ ReadersOK' /\ HandedOver'
  BY <1>1, MemoryUnchanged, ReadersUnchanged, HandedOverUnchanged DEF TypeOK, uplink
<1>3. QueueTypeOK'
  BY <1>1 DEF TypeOK, QueueTypeOK
<1>4. TypeOK' /\ PlacesOK'
  BY <1>1, <1>2, <1>3
     DEF SignalsRead, Goes, TypeOK, PlacesOK, downlink, uplink, RrcTx, MacTx, MacRx
<1> QED BY <1>2, <1>4

(* What a read does: it takes the next SDU, or finds the list empty.           *)
LEMMA ReadTakes ==
  ASSUME QueueInv, NEW r \in Reader, Reads(r)
  PROVE  \/ /\ Len(taken) < Len(ToReader) /\ retVal' = [retVal EXCEPT ![r] = ToReader[Len(taken) + 1]]
            /\ taken' = Append(taken, ToReader[Len(taken) + 1])
            /\ reading' = [reading EXCEPT ![r] = "returned"] /\ UNCHANGED waiting
            /\ mQ' = [mQ EXCEPT ![ReadQueue] = get(@)]
            /\ QueueHolds(get(mQ[ReadQueue]), ToReader, Len(taken) + 1)
            /\ get(mQ[ReadQueue]) \in Fifo /\ ToReader[Len(taken) + 1] \in Up
         \/ /\ Len(taken) = Len(ToReader) /\ UNCHANGED <<mQ, retVal, taken>>
            /\ retVal[r] = NULL /\ reading' = [reading EXCEPT ![r] = "waits"]
            /\ waiting' = [waiting EXCEPT ![ReadQueue] = @ \cup {r}]
<1> USE DEF QueueInv
<1> DEFINE q == mQ[ReadQueue]
<1>1. /\ q \in Fifo /\ ReadQueue \in Queue /\ mQ \in [Queue -> Fifo] /\ taken \in Seq(Up)
      /\ retVal \in [Reader -> Up \cup {NULL}] /\ NULL \notin Up
  BY QueuesOfProgram, ThreadAssumption DEF TypeOK, QueueTypeOK, Item
<1>2. ToReader \in Seq(Item) /\ ToReader \in Seq(Up)
  BY DEF ToReader, TypeOK, Item
<1>3. GetOrWait(r, ReadQueue) /\ reading[r] # "returned" /\ retVal[r] = NULL
  BY DEF Reads, ReadCalled, ReadWakes, ReadersOK
<1>4. taken' = IF retVal'[r] # NULL THEN Append(taken, retVal'[r]) ELSE taken
  BY DEF Reads
<1>5. QueueHolds(q, ToReader, Len(taken)) /\ Len(taken) <= Len(ToReader) /\ Len(taken) \in Nat
  BY <1>1 DEF HandedOver
<1>6. CASE Len(taken) < Len(ToReader)
  <2>1. /\ Front(q) = ToReader[Len(taken) + 1] /\ q.mHead # NULL /\ q.mSize > 0
        /\ QueueHolds(get(q), ToReader, Len(taken) + 1)
    BY <1>1, <1>2, <1>5, <1>6, GetHolds
  <2>2. ToReader[Len(taken) + 1] \in Up
    BY <1>2, <1>5, <1>6
  <2>3. get(q) \in Fifo
    BY <2>1, <1>1, GetFields
  <2>4. /\ retVal' = [retVal EXCEPT ![r] = ToReader[Len(taken) + 1]]
        /\ reading' = [reading EXCEPT ![r] = "returned"] /\ UNCHANGED waiting
        /\ mQ' = [mQ EXCEPT ![ReadQueue] = get(@)]
    BY <2>1, <2>2, <1>1, <1>3 DEF GetOrWait
  <2>5. retVal'[r] = ToReader[Len(taken) + 1] /\ retVal'[r] # NULL
    BY <2>2, <2>4, <1>1
  <2> QED BY <2>1, <2>2, <2>3, <2>4, <2>5, <1>4, <1>6
<1>7. CASE Len(taken) = Len(ToReader)
  <2>1. Front(q) = NULL /\ get(q) = q
    BY <1>1, <1>2, <1>5, <1>7, EmptyFront
  <2>2. /\ mQ' = [mQ EXCEPT ![ReadQueue] = get(@)] /\ UNCHANGED retVal
        /\ reading' = [reading EXCEPT ![r] = "waits"]
        /\ waiting' = [waiting EXCEPT ![ReadQueue] = @ \cup {r}]
    BY <2>1, <1>3 DEF GetOrWait
  <2>3. mQ' = mQ
    BY <2>1, <2>2, <1>1
  <2> QED BY <2>2, <2>3, <1>3, <1>4, <1>7
<1> QED
  <2>1. Len(ToReader) \in Nat
    BY <1>2
  <2> QED BY <2>1, <1>5, <1>6, <1>7

LEMMA ReadStep ==
  ASSUME QueueInv, NEW r \in Reader, Reads(r)
  PROVE  QueueInv'
<1> USE DEF QueueInv
<1>1. /\ UNCHANGED <<memory, mRlcMode, pc, downlink, received, mUpSdu, sent>>
      /\ mQ \in [Queue -> Fifo] /\ ReadQueue \in Queue /\ taken \in Seq(Up) /\ Item = Up
      /\ NULL \notin Up /\ ToReader' = ToReader
  BY QueuesOfProgram, ThreadAssumption
     DEF Reads, TypeOK, QueueTypeOK, ToReader, WriteQueue, IsSrb, Item
<1>2. MemoryTypeOK'
  BY <1>1, MemoryUnchanged DEF TypeOK
<1>3. CASE /\ Len(taken) < Len(ToReader) /\ retVal' = [retVal EXCEPT ![r] = ToReader[Len(taken) + 1]]
           /\ taken' = Append(taken, ToReader[Len(taken) + 1])
           /\ reading' = [reading EXCEPT ![r] = "returned"] /\ UNCHANGED waiting
           /\ mQ' = [mQ EXCEPT ![ReadQueue] = get(@)]
           /\ QueueHolds(get(mQ[ReadQueue]), ToReader, Len(taken) + 1)
           /\ get(mQ[ReadQueue]) \in Fifo /\ ToReader[Len(taken) + 1] \in Up
  <2>1. QueueTypeOK' /\ taken' \in Seq(Up)
    BY <1>1, <1>3 DEF TypeOK, QueueTypeOK
  <2>2. TypeOK' /\ PlacesOK'
    BY <2>1, <1>1, <1>2 DEF TypeOK, PlacesOK, downlink
  <2>3. ReadersOK'
    BY <1>1, <1>3 DEF ReadersOK, TypeOK, QueueTypeOK
  <2>4. /\ Len(taken') = Len(taken) + 1 /\ Len(taken) \in Nat /\ Len(ToReader) \in Nat
        /\ \A k \in 1 .. Len(taken') : taken'[k] = ToReader[k]
    BY <1>1, <1>3 DEF HandedOver, ToReader, TypeOK
  <2>5. HandedOver'
    BY <2>4, <1>1, <1>3 DEF HandedOver
  <2> QED BY <2>2, <2>3, <2>5
<1>4. CASE /\ Len(taken) = Len(ToReader) /\ UNCHANGED <<mQ, retVal, taken>>
           /\ retVal[r] = NULL /\ reading' = [reading EXCEPT ![r] = "waits"]
           /\ waiting' = [waiting EXCEPT ![ReadQueue] = @ \cup {r}]
  <2>1. QueueTypeOK'
    BY <1>1, <1>4 DEF TypeOK, QueueTypeOK
  <2>2. TypeOK' /\ PlacesOK'
    BY <2>1, <1>1, <1>2, <1>4 DEF TypeOK, PlacesOK, downlink
  <2>3. ReadersOK'
    BY <1>1, <1>4 DEF ReadersOK, TypeOK, QueueTypeOK
  <2>4. HandedOver'
    BY <1>1, <1>4, HandedOverUnchanged
  <2> QED BY <2>2, <2>3, <2>4
<1> QED BY <1>3, <1>4, ReadTakes

LEMMA ReturnStep ==
  ASSUME QueueInv, NEW r \in Reader, rrcRecvDCCH(r)
  PROVE  QueueInv'
<1> USE DEF QueueInv
<1>1. /\ UNCHANGED <<mQ, waiting, mRlcMode, pc, downlink, uplink>>
      /\ reading' = [reading EXCEPT ![r] = "out"] /\ retVal' = [retVal EXCEPT ![r] = NULL]
      /\ retVal[r] # NULL /\ retVal[r] \in Up /\ clear(r, UpSdu(retVal[r])) /\ r \in Thread
  BY DEF rrcRecvDCCH, Released, ReadersOK, TypeOK, QueueTypeOK, Item, Thread
<1>2. MemoryTypeOK'
  BY <1>1, ClearType, Vectors DEF TypeOK
<1>3. QueueTypeOK' /\ ReadersOK'
  BY <1>1 DEF TypeOK, QueueTypeOK, ReadersOK
<1>4. TypeOK' /\ PlacesOK' /\ HandedOver'
  BY <1>1, <1>2, <1>3, HandedOverUnchanged DEF TypeOK, PlacesOK, downlink, uplink
<1> QED BY <1>3, <1>4

LEMMA QueueInvNext ==
  QueueInv /\ [Next]_vars => QueueInv'
<1> SUFFICES ASSUME QueueInv, [Next]_vars PROVE QueueInv'
  OBVIOUS
<1>1. CASE UNCHANGED vars
  BY <1>1, MemoryUnchanged, QueuesUnchanged, ReadersUnchanged, HandedOverUnchanged
     DEF QueueInv, TypeOK, PlacesOK, vars, memory, queues, downlink, uplink
<1>2. CASE Next
  BY <1>2, ElsewhereStep, SendStep, SignalStep, ReadStep, ReturnStep
     DEF Next, MacRxNext, ReaderNext, Elsewhere
<1> QED BY <1>1, <1>2

LEMMA SpecQueueInv ==
  Spec => []QueueInv
BY QueueInvInit, QueueInvNext, PTL DEF Spec

-----------------------------------------------------------------------------

(* Whatever the number of threads, blocks, nodes and SDUs, every variable      *)
(* keeps its shape; in particular the size of a queue, which get decrements    *)
(* with no check of its own, never passes below zero.                          *)
THEOREM SpecTypeOK ==
  Spec => []TypeOK
BY SpecQueueInv, PTL DEF QueueInv

(* Each step of the threads is a step of SduHandOver or leaves its variables.  *)
LEMMA HandOverStep ==
  ASSUME QueueInv, [Next]_vars
  PROVE  [HandOver!Next]_<<sent, taken>>
<1>1. CASE UNCHANGED vars \/ Elsewhere \/ SignalsRead
           \/ \E r \in Reader : ReturnsSpuriously(r) \/ rrcRecvDCCH(r)
  BY <1>1 DEF vars, uplink, Elsewhere, RrcTxNext, MacTxNext, rrcSendDCCH, NewDownSdu, PushSdu,
              DcchReturns, ReadTm, ReadUm, FillUm, fillPduData, SendPdu, NewUpSdu,
              discardPartialSdu, Memory, SignalsRead, ReturnsSpuriously, rrcRecvDCCH
<1>2. CASE rlcSendHighSide
  <2>1. mUpSdu \in Up /\ UNCHANGED taken /\ (sent' = Append(sent, mUpSdu) \/ UNCHANGED sent)
    BY <1>2 DEF rlcSendHighSide, QueueInv, TypeOK
  <2> QED BY <2>1 DEF HandOver!Next, HandOver!Send
<1>3. ASSUME NEW r \in Reader, Reads(r) PROVE [HandOver!Next]_<<sent, taken>>
  <2>1. UNCHANGED sent /\ taken \in Seq(Up) /\ Len(taken) \in Nat
    BY <1>3 DEF Reads, QueueInv, TypeOK
  <2>2. \/ Len(taken) < Len(ToReader) /\ taken' = Append(taken, ToReader[Len(taken) + 1])
        \/ UNCHANGED taken
    BY <1>3, ReadTakes
  <2>3. Len(taken) < Len(ToReader) => ToReader = sent
    BY <2>1 DEF ToReader
  <2> QED BY <2>1, <2>2, <2>3 DEF HandOver!Next, HandOver!Take
<1> QED BY <1>1, <1>2, <1>3 DEF Next, MacRxNext, ReaderNext, Elsewhere

(* However many threads read and in whatever order they wake, RRC takes the    *)
(* SDUs RLC sent up, each once and in order: the lock, the signal and the      *)
(* linked list with its pool of nodes implement a queue.                       *)
THEOREM SpecImplementsHandOver ==
  Spec => ImplementsHandOver
<1>1. Init => HandOver!Init
  BY DEF Init, HandOver!Init
<1>2. QueueInv /\ [Next]_vars => [HandOver!Next]_<<sent, taken>>
  BY HandOverStep
<1> QED BY <1>1, <1>2, SpecQueueInv, PTL DEF Spec, ImplementsHandOver, HandOver!Spec

-----------------------------------------------------------------------------
(* Memory.  A block is pointed to by one vector, or by Local and one SDU made  *)
(* of it; its count is then two, once it has been stored.  A thread about to   *)
(* store a count it read as one has the only vector, and so has a thread about *)
(* to delete.                                                                  *)

Downs == {DownSdu(i) : i \in Down}

(* The vector that a block v points to was allocated for.                      *)
Owner(v) == IF v \in Downs THEN Local ELSE v

Shared(d, v, w) == v # w /\ d[v] # NULL /\ d[v] = d[w]
Sole(d, v) == \A w \in Vec : ~Shared(d, v, w)
Busy(t, v) == call[t].op # "none" /\ call[t].vec = v
Counting == \E t \in Thread : call[t].op = "inc"

OwnedOK ==
  \A v \in Vec : mData[v] # NULL => mData[v] \in heap /\ madeFor[mData[v]] = Owner(v)

FoundOK ==
  \A b \in heap : madeFor[b] # Local => madeFor[b] \in Vec /\ mData[madeFor[b]] = b

SharedOK ==
  \A v, w \in Vec : Shared(mData, v, w) =>
     /\ v = Local \/ w = Local
     /\ refcnt[mData[v]] = IF Counting THEN 1 ELSE 2

SoleOK ==
  \A v \in Vec :
       /\ mData[v] # NULL /\ Sole(mData, v)
       /\ \A t \in Thread : call[t].op = "delete" => call[t].vec # v
     => refcnt[mData[v]] = 1

CallOK(d, c, t) ==
  /\ c[t].vec \in Vec /\ d[c[t].vec] # NULL
  /\ \A u \in Thread \ {t} : c[u].op # "none" => c[u].vec # c[t].vec
  /\ c[t].op = "inc" => /\ c[t].loaded = 1 /\ Shared(d, Local, c[t].vec)
                        /\ \A u \in Thread : c[u].op # "none" => c[u].vec # Local
  /\ c[t].op = "dec" => \/ c[t].loaded = 1 /\ Sole(d, c[t].vec)
                        \/ c[t].loaded = 2 /\ Owner(c[t].vec) = Local
  /\ c[t].op = "delete" => Sole(d, c[t].vec)

CallsOK == \A t \in Thread : call[t].op # "none" => CallOK(mData, call, t)

MemoryInv == OwnedOK /\ FoundOK /\ SharedOK /\ SoleOK /\ CallsOK

(* Where the threads are decides which vectors they may be using.  An SDU is   *)
(* rrcTxDCCH's until it is pushed, then macTX's.                               *)

Increasing(s) == \A j, k \in 1 .. Len(s) : j < k => s[j] < s[k]

Pushed(i) == i < written \/ (i = written /\ pc[RrcTx] \notin {"write", "push"})

RrcTxOK ==
  /\ pc[RrcTx] \in {"loop", "write", "push", "return"}
  /\ pc[RrcTx] = "loop" /\ Idle(RrcTx) => mData[Local] = NULL
  /\ pc[RrcTx] = "write" => Sole(mData, Local) /\ Idle(RrcTx)
  /\ pc[RrcTx] = "return" => Idle(RrcTx)
  /\ pc[RrcTx] = "loop" => call[RrcTx].op # "inc" /\ (~Idle(RrcTx) => Busy(RrcTx, Local))
  /\ pc[RrcTx] = "push" /\ ~Idle(RrcTx) => call[RrcTx].op = "inc" /\ Busy(RrcTx, DownSdu(written))
  /\ \A i \in Down : i > written \/ (i = written /\ pc[RrcTx] = "write") => mData[DownSdu(i)] = NULL

Holds(i) == pdu = DownSdu(i) \/ Busy(MacTx, DownSdu(i))

MacTxOK ==
  /\ pc[MacTx] \in {"loop", "fill", "send"}
  /\ call[MacTx].op # "inc"
  /\ ~Idle(MacTx) => call[MacTx].vec \in Downs \cup {Pdu}
  /\ pdu \in Downs \cup {Pdu, NULL}
  /\ pc[MacTx] = "loop" => pdu = NULL
  /\ mData[Pdu] # NULL => pdu = Pdu \/ Busy(MacTx, Pdu)
  /\ pdu # NULL => ~Busy(MacTx, pdu)
  /\ \A k \in 1 .. Len(mSduTxQ) : Pushed(mSduTxQ[k])
  /\ Increasing(mSduTxQ)
  /\ \A i \in Down : Holds(i) => Pushed(i) /\ \A k \in 1 .. Len(mSduTxQ) : mSduTxQ[k] # i

MacRxOK ==
  /\ pc[MacRx] \in {"loop", "signal"}
  /\ \A i \in Up : i > received => mData[UpSdu(i)] = NULL
  /\ Increasing(sent)
  /\ \A k \in 1 .. Len(sent) : sent[k] <= received /\ (mUpSdu # NULL => sent[k] < received)
  /\ mUpSdu # NULL => mUpSdu = received /\ Idle(MacRx)
  /\ ~Idle(MacRx) => /\ call[MacRx].op # "inc" /\ pc[MacRx] = "loop"
                     /\ \E i \in Up : /\ call[MacRx].vec = UpSdu(i) /\ i <= received
                                      /\ \A k \in 1 .. Len(sent) : sent[k] # i

Reading(r, i) == retVal[r] = i \/ Busy(r, UpSdu(i))

ReaderOK ==
  \A r \in Reader :
    /\ ~Idle(r) => /\ call[r].op # "inc" /\ reading[r] = "out"
                   /\ \E i \in Up : call[r].vec = UpSdu(i)
    /\ \A i \in Up : Reading(r, i) =>
         /\ \E k \in 1 .. Len(taken) : taken[k] = i
         /\ \A s \in Reader \ {r} : ~Reading(s, i)

PlaceInv == RrcTxOK /\ MacTxOK /\ MacRxOK /\ ReaderOK

-----------------------------------------------------------------------------
(* The operations on vectors keep MemoryInv, each where its caller may use it. *)

LEMMA Distinct ==
  /\ Downs \subseteq Vec /\ Local \notin Downs /\ Pdu \notin Downs /\ Pdu # Local /\ NULL \notin Vec
  /\ \A i \in Down : DownSdu(i) \in Downs /\ DownSdu(i) # Local /\ DownSdu(i) # Pdu
  /\ \A i, j \in Down : DownSdu(i) = DownSdu(j) => i = j
  /\ \A i \in Up : UpSdu(i) \notin Downs /\ UpSdu(i) # Local /\ UpSdu(i) # Pdu /\ UpSdu(i) \in Vec
  /\ \A i, j \in Up : UpSdu(i) = UpSdu(j) => i = j
<1>1. NULL \notin Vec
  BY ThreadAssumption
<1>2. Downs \subseteq Vec
  BY Vectors DEF Downs
<1> QED BY <1>1, <1>2, Vectors DEF Downs, Local, Pdu, DownSdu, UpSdu

LEMMA InitKeeps ==
  ASSUME MemoryTypeOK, MemoryInv, NEW v \in Vec, v \notin Downs, mData[v] = NULL, init(v)
  PROVE  MemoryInv'
<1> DEFINE b == NewBlock
<1>1. /\ b \in Block /\ b \notin heap /\ b # NULL
      /\ mData' = [mData EXCEPT ![v] = b] /\ refcnt' = [refcnt EXCEPT ![b] = 1]
      /\ heap' = heap \cup {b} /\ madeFor' = [madeFor EXCEPT ![b] = v] /\ call' = call
      /\ mData \in [Vec -> Block \cup {NULL}] /\ refcnt \in [Block -> Int] /\ heap \subseteq Block
      /\ madeFor \in [Block -> Vec \cup {NULL}] /\ NULL \notin Block
  BY NewBlockType, ThreadAssumption DEF init, MemoryTypeOK
<1> HIDE DEF b
<1>2. \A w \in Vec : mData[w] # NULL => w # v /\ mData[w] \in heap /\ mData[w] # b
  BY <1>1 DEF MemoryInv, OwnedOK
<1>3. \A w \in Vec \ {v} : mData'[w] = mData[w]
  BY <1>1
<1>4. mData'[v] = b
  BY <1>1
<1>5. \A x, y \in Vec : Shared(mData', x, y) <=> Shared(mData, x, y)
  BY <1>2, <1>3, <1>4, <1>1 DEF Shared
<1>6. \A x \in Vec : Sole(mData', x) <=> Sole(mData, x)
  BY <1>5 DEF Sole
<1>7. OwnedOK'
  BY <1>1, <1>2, <1>3, <1>4 DEF MemoryInv, OwnedOK, Owner
<1>8. FoundOK'
  BY <1>1, <1>2, <1>3, <1>4 DEF MemoryInv, FoundOK
<1>9. SharedOK'
  <2>1. Counting' <=> Counting
    BY <1>1 DEF Counting
  <2>2. \A x, y \in Vec : Shared(mData, x, y) => mData'[x] = mData[x] /\ refcnt'[mData[x]] = refcnt[mData[x]]
    BY <1>1, <1>2, <1>3 DEF Shared
  <2> QED BY <2>1, <2>2, <1>5 DEF MemoryInv, SharedOK
<1>10. SoleOK'
  <2>1. \A x \in Vec \ {v} : mData[x] # NULL => refcnt'[mData[x]] = refcnt[mData[x]]
    BY <1>1, <1>2
  <2>2. refcnt'[mData'[v]] = 1
    BY <1>1, <1>4
  <2> QED BY <2>1, <2>2, <1>1, <1>3, <1>6 DEF MemoryInv, SoleOK
<1>11. CallsOK'
  <2> SUFFICES ASSUME NEW t \in Thread, call[t].op # "none" PROVE CallOK(mData', call, t)
    BY <1>1 DEF CallsOK
  <2>1. call[t].vec \in Vec /\ mData'[call[t].vec] # NULL
    BY <1>2, <1>3 DEF MemoryInv, CallsOK, CallOK
  <2> QED BY <2>1, <1>5, <1>6, Vectors DEF MemoryInv, CallsOK, CallOK
<1> QED BY <1>7, <1>8, <1>9, <1>10, <1>11 DEF MemoryInv

(* An SDU is made of Local while nobody counts Local's memory.                 *)
LEMMA DupKeeps ==
  ASSUME MemoryTypeOK, MemoryInv, NEW t \in Thread, Idle(t), NEW v \in Downs, mData[v] = NULL,
         Sole(mData, Local), \A u \in Thread : ~Busy(u, Local), dup(t, v, Local)
  PROVE  MemoryInv'
<1> DEFINE b == mData[Local]
<1>1. /\ mData \in [Vec -> Block \cup {NULL}] /\ refcnt \in [Block -> Int] /\ heap \subseteq Block
      /\ NULL \notin Block /\ v \in Vec /\ Local \in Vec /\ v # Local /\ call \in [Thread -> Call]
      /\ mData' = [mData EXCEPT ![v] = b] /\ refcnt' = refcnt /\ heap' = heap /\ madeFor' = madeFor
      /\ b = NULL => call' = call
      /\ b # NULL => call' = [call EXCEPT ![t] = [op |-> "inc", vec |-> v, loaded |-> refcnt[b]]]
  BY ThreadAssumption, Distinct, Vectors DEF MemoryTypeOK, dup, Loading
<1> HIDE DEF b
<1>2. CASE b = NULL
  <2>1. mData' = mData
    BY <1>1, <1>2
  <2> QED BY <2>1, <1>1, <1>2
          DEF MemoryInv, OwnedOK, FoundOK, SharedOK, SoleOK, CallsOK, CallOK, Shared, Sole, Busy, Counting
<1>3. CASE b # NULL
  <2>1. /\ \A w \in Vec \ {v} : mData'[w] = mData[w]
        /\ mData'[v] = b /\ mData'[Local] = b /\ mData[Local] = b
    BY <1>1 DEF b
  <2>2. \A w \in Vec \ {Local} : mData[w] # b
    BY <1>1, <1>3 DEF Sole, Shared, b
  <2>3. \A x, y \in Vec : Shared(mData', x, y) <=> Shared(mData, x, y) \/ (x = v /\ y = Local) \/ (x = Local /\ y = v)
    BY <2>1, <2>2, <1>1, <1>3 DEF Shared
  <2>4. ~Counting
    BY <1>1 DEF Counting, MemoryInv, CallsOK, CallOK, Sole
  <2>5. /\ call'[t].op = "inc" /\ call'[t].vec = v /\ call'[t].loaded = refcnt[b]
        /\ \A u \in Thread \ {t} : call'[u] = call[u]
    BY <1>1, <1>3
  <2>6. refcnt[b] = 1
    BY <2>1, <1>1, <1>3 DEF MemoryInv, SoleOK, Busy
  <2>7. OwnedOK'
    BY <2>1, <1>1, <1>3, Distinct DEF MemoryInv, OwnedOK, Owner
  <2>8. FoundOK'
    BY <2>1, <1>1 DEF MemoryInv, FoundOK
  <2>9. SharedOK'
    <3>1. Counting'
      BY <2>5 DEF Counting
    <3>2. \A x, y \in Vec : ~Shared(mData, x, y)
      BY <2>3, <1>1 DEF Sole, MemoryInv, SharedOK, Shared
    <3> QED BY <3>1, <3>2, <2>1, <2>3, <2>6, <1>1 DEF SharedOK
  <2>10. \A x \in Vec : Sole(mData', x) => Sole(mData, x) /\ x # v /\ x # Local
    BY <2>3, <1>1 DEF Sole
  <2>11. \A u \in Thread : call[u].op # "none" => u # t /\ call[u].vec # v /\ call[u].vec # Local
    BY <1>1 DEF MemoryInv, CallsOK, CallOK, Idle, Busy
  <2>12. \A x \in Vec \ {v, Local} : Sole(mData, x) => Sole(mData', x)
    BY <2>3 DEF Sole
  <2>13. SoleOK'
    BY <2>1, <2>5, <2>10, <2>11, <1>1 DEF MemoryInv, SoleOK
  <2>14. CallsOK'
    <3> SUFFICES ASSUME NEW u \in Thread, call'[u].op # "none" PROVE CallOK(mData', call', u)
      BY DEF CallsOK
    <3>1. CASE u = t
      <4>1. Shared(mData', Local, v)
        BY <2>3, <1>1
      <4>2. \A s \in Thread \ {t} : call'[s].op # "none" => call'[s].vec # v
        BY <2>5, <2>11
      <4>3. \A s \in Thread : call'[s].op # "none" => call'[s].vec # Local
        BY <2>5, <2>11, <1>1
      <4> QED BY <3>1, <4>1, <4>2, <4>3, <2>1, <2>5, <2>6, <1>1, <1>3 DEF CallOK
    <3>2. CASE u # t
      <4>1. /\ call'[u] = call[u] /\ call[u].op # "none" /\ call[u].op # "inc"
            /\ call[u].vec \in Vec \ {v, Local}
        BY <3>2, <2>4, <2>5, <2>11 DEF Counting, MemoryInv, CallsOK, CallOK
      <4>2. mData[call[u].vec] # NULL
        BY <4>1 DEF MemoryInv, CallsOK, CallOK
      <4>3. \A s \in Thread \ {u} : call'[s].op # "none" => call'[s].vec # call[u].vec
        BY <4>1, <2>5 DEF MemoryInv, CallsOK, CallOK, Busy
      <4> QED BY <4>1, <4>2, <4>3, <2>1, <2>12 DEF MemoryInv, CallsOK, CallOK
    <3> QED BY <3>1, <3>2
  <2> QED BY <2>7, <2>8, <2>9, <2>13, <2>14 DEF MemoryInv
<1> QED BY <1>2, <1>3

(* A thread begins to release a vector no other thread is releasing, nor       *)
(* counting if its memory is shared.                                           *)
LEMMA ClearKeeps ==
  ASSUME MemoryTypeOK, MemoryInv, NEW t \in Thread, Idle(t), NEW v \in Vec,
         \A u \in Thread : ~Busy(u, v), ~Sole(mData, v) => ~Counting, clear(t, v)
  PROVE  MemoryInv'
<1> DEFINE b == mData[v]
<1>1. /\ mData \in [Vec -> Block \cup {NULL}] /\ refcnt \in [Block -> Int]
      /\ NULL \notin Block /\ Local \in Vec /\ call \in [Thread -> Call]
      /\ mData' = mData /\ refcnt' = refcnt /\ heap' = heap /\ madeFor' = madeFor
      /\ b = NULL => call' = call
      /\ b # NULL => call' = [call EXCEPT ![t] = [op |-> "dec", vec |-> v, loaded |-> refcnt[b]]]
  BY ThreadAssumption, Vectors DEF MemoryTypeOK, clear, Loading
<1> HIDE DEF b
<1>2. /\ OwnedOK' /\ FoundOK'
      /\ \A x, y : Shared(mData', x, y) <=> Shared(mData, x, y)
      /\ \A x : Sole(mData', x) <=> Sole(mData, x)
  BY <1>1 DEF MemoryInv, OwnedOK, FoundOK, Shared, Sole
<1>3. CASE b = NULL
  <2>1. SharedOK' /\ SoleOK' /\ CallsOK'
    BY <1>1, <1>3 DEF MemoryInv, SharedOK, SoleOK, CallsOK, CallOK, Shared, Sole, Busy, Counting
  <2> QED BY <2>1, <1>2 DEF MemoryInv
<1>4. CASE b # NULL
  <2>1. /\ call'[t].op = "dec" /\ call'[t].vec = v /\ call'[t].loaded = refcnt[b] /\ call[t].op = "none"
        /\ \A u \in Thread \ {t} : call'[u] = call[u]
    BY <1>1, <1>4 DEF Idle
  <2>2. Counting' <=> Counting
    BY <2>1 DEF Counting
  <2>3. SharedOK' /\ SoleOK'
    BY <2>1, <2>2, <1>1, <1>2 DEF MemoryInv, SharedOK, SoleOK
  <2>4. \/ refcnt[b] = 1 /\ Sole(mData, v)
        \/ refcnt[b] = 2 /\ Owner(v) = Local
    <3>1. CASE Sole(mData, v)
      BY <3>1, <1>4 DEF MemoryInv, SoleOK, Busy, b
    <3>2. CASE ~Sole(mData, v)
      <4>1. PICK w \in Vec : Shared(mData, v, w)
        BY <3>2 DEF Sole
      <4>2. refcnt[b] = 2 /\ (v = Local \/ w = Local)
        BY <4>1, <3>2 DEF MemoryInv, SharedOK, b
      <4>3. madeFor[b] = Owner(v) /\ madeFor[b] = Owner(w)
        BY <4>1, <1>4 DEF MemoryInv, OwnedOK, Shared, b
      <4> QED BY <4>2, <4>3, Distinct DEF Owner
    <3> QED BY <3>1, <3>2
  <2>5. CallsOK'
    <3> SUFFICES ASSUME NEW u \in Thread, call'[u].op # "none" PROVE CallOK(mData', call', u)
      BY DEF CallsOK
    <3>1. CASE u = t
      BY <3>1, <2>1, <2>4, <1>1, <1>4 DEF CallOK, Busy, b
    <3>2. CASE u # t
      <4>1. call'[u] = call[u] /\ call[u].op # "none" /\ call[u].vec # v
        BY <3>2, <2>1 DEF Busy
      <4>2. \A s \in Thread \ {u} : call'[s].op # "none" => call'[s].vec # call[u].vec
        BY <4>1, <2>1 DEF MemoryInv, CallsOK, CallOK, Busy
      <4>3. CASE call[u].op = "inc"
        <5>1. Shared(mData, Local, call[u].vec) /\ call[u].vec \in Vec /\ Counting
          BY <4>1, <4>3 DEF MemoryInv, CallsOK, CallOK, Counting
        <5>2. v # Local
          BY <5>1 DEF Sole
        <5>3. \A s \in Thread : call'[s].op # "none" => call'[s].vec # Local
          BY <5>2, <4>1, <4>3, <2>1 DEF MemoryInv, CallsOK, CallOK
        <5> QED BY <5>3, <4>1, <4>2, <4>3, <1>1 DEF MemoryInv, CallsOK, CallOK
      <4>4. CASE call[u].op # "inc"
        BY <4>1, <4>2, <4>4, <1>1 DEF MemoryInv, CallsOK, CallOK
      <4> QED BY <4>3, <4>4
    <3> QED BY <3>1, <3>2
  <2> QED BY <2>3, <2>5, <1>2 DEF MemoryInv
<1> QED BY <1>3, <1>4

(* Of the vectors that point to one block, one is Local: there are at most two.*)
LEMMA AtMostTwo ==
  ASSUME MemoryInv, NEW x \in Vec, NEW y \in Vec, NEW z \in Vec,
         Shared(mData, x, y), Shared(mData, x, z)
  PROVE  y = z
<1> SUFFICES ASSUME y # z PROVE FALSE
  OBVIOUS
<1>1. Shared(mData, y, z)
  BY DEF Shared
<1>2. /\ x = Local \/ y = Local
      /\ x = Local \/ z = Local
      /\ y = Local \/ z = Local
  BY <1>1 DEF MemoryInv, SharedOK
<1> QED BY <1>1, <1>2 DEF Shared

LEMMA CountKeeps ==
  ASSUME MemoryTypeOK, MemoryInv, NEW t \in Thread, setRefCnt(t), call[t].op = "inc"
  PROVE  MemoryInv'
<1> DEFINE v == call[t].vec
           b == mData[v]
<1>1. /\ mData' = mData /\ heap' = heap /\ madeFor' = madeFor
      /\ refcnt' = [refcnt EXCEPT ![b] = call[t].loaded + 1] /\ call' = [call EXCEPT ![t] = NoCall]
      /\ refcnt \in [Block -> Int] /\ mData \in [Vec -> Block \cup {NULL}]
      /\ call \in [Thread -> Call] /\ Local \in Vec
  BY Vectors DEF setRefCnt, MemoryTypeOK, Counted
<1>2. v \in Vec /\ call[t].loaded = 1 /\ Shared(mData, Local, v) /\ mData[v] # NULL
  BY DEF MemoryInv, CallsOK, CallOK
<1>3. b \in Block /\ mData[Local] = b /\ refcnt'[b] = 2
  BY <1>1, <1>2 DEF Shared
<1>4. call'[t].op = "none" /\ \A u \in Thread \ {t} : call'[u] = call[u]
  BY <1>1 DEF NoCall
<1> HIDE DEF v, b
<1>5. OwnedOK' /\ FoundOK'
  BY <1>1 DEF MemoryInv, OwnedOK, FoundOK
<1>6. SharedOK'
  <2>1. ~Counting'
    <3> SUFFICES ASSUME NEW u \in Thread \ {t}, call[u].op = "inc" PROVE FALSE
      BY <1>4 DEF Counting
    <3>1. Shared(mData, Local, call[u].vec) /\ call[u].vec \in Vec /\ call[u].vec # v
      BY DEF MemoryInv, CallsOK, CallOK, v
    <3> QED BY <3>1, <1>1, <1>2, AtMostTwo
  <2>2. \A x, y \in Vec : Shared(mData, x, y) => (x = Local \/ y = Local) /\ mData[x] = b
    BY <1>3 DEF MemoryInv, SharedOK, Shared
  <2> QED BY <2>1, <2>2, <1>1, <1>3 DEF SharedOK
<1>7. SoleOK'
  <2>1. \A x \in Vec : mData[x] # NULL /\ Sole(mData, x) => mData[x] # b
    BY <1>1, <1>2, <1>3 DEF Sole, Shared
  <2>2. \A x : (\A u \in Thread : call'[u].op = "delete" => call'[u].vec # x)
                 => \A u \in Thread : call[u].op = "delete" => call[u].vec # x
    BY <1>4
  <2> QED BY <2>1, <2>2, <1>1 DEF MemoryInv, SoleOK
<1>8. CallsOK'
  <2> SUFFICES ASSUME NEW u \in Thread, call'[u].op # "none" PROVE CallOK(mData', call', u)
    BY DEF CallsOK
  <2>1. u # t /\ call'[u] = call[u] /\ \A s \in Thread : call'[s].op # "none" => call'[s] = call[s]
    BY <1>4
  <2> QED BY <2>1, <1>1 DEF MemoryInv, CallsOK, CallOK
<1> QED BY <1>5, <1>6, <1>7, <1>8 DEF MemoryInv

LEMMA ReleaseKeeps ==
  ASSUME MemoryTypeOK, MemoryInv, NEW t \in Thread, setRefCnt(t), call[t].op = "dec"
  PROVE  MemoryInv'
<1> DEFINE v == call[t].vec
           b == mData[v]
<1>1. /\ heap' = heap /\ madeFor' = madeFor
      /\ refcnt' = [refcnt EXCEPT ![b] = call[t].loaded - 1]
      /\ refcnt \in [Block -> Int] /\ mData \in [Vec -> Block \cup {NULL}] /\ NULL \notin Block
      /\ call \in [Thread -> Call] /\ Local \in Vec
  BY Vectors, ThreadAssumption DEF setRefCnt, MemoryTypeOK, Counted
<1>2. /\ v \in Vec /\ b # NULL
      /\ \A u \in Thread \ {t} : call[u].op # "none" => call[u].vec # v
      /\ \/ call[t].loaded = 1 /\ Sole(mData, v)
         \/ call[t].loaded = 2 /\ Owner(v) = Local
  BY DEF MemoryInv, CallsOK, CallOK
<1>3. b \in Block
  BY <1>1, <1>2
<1>4. ASSUME call[t].loaded = 1, Sole(mData, v) PROVE MemoryInv'
  <2>1. mData' = mData /\ call' = [call EXCEPT ![t] = [call[t] EXCEPT !.op = "delete"]]
    BY <1>4 DEF setRefCnt, Counted
  <2>2. /\ call'[t].op = "delete" /\ call'[t].vec = v
        /\ \A u \in Thread \ {t} : call'[u] = call[u]
    BY <2>1, <1>1 DEF Call
  <2> HIDE DEF v, b
  <2>3. OwnedOK' /\ FoundOK'
    BY <2>1, <1>1 DEF MemoryInv, OwnedOK, FoundOK
  <2>4. Counting' <=> Counting
    BY <2>2 DEF Counting
  <2>5. \A x \in Vec : mData[x] = b => x = v
    BY <1>2, <1>4 DEF Sole, Shared, b
  <2>6. \A x \in Vec : x # v => refcnt'[mData[x]] = refcnt[mData[x]]
    BY <2>5, <1>1
  <2>7. SharedOK'
    <3>1. \A x, y \in Vec : Shared(mData, x, y) => x # v
      BY <1>4 DEF Sole
    <3> QED BY <3>1, <2>1, <2>4, <2>6 DEF MemoryInv, SharedOK
  <2>8. SoleOK'
    <3>1. \A x : (\A u \in Thread : call'[u].op = "delete" => call'[u].vec # x)
                   => x # v /\ \A u \in Thread : call[u].op = "delete" => call[u].vec # x
      BY <2>2
    <3> QED BY <3>1, <2>1, <2>6 DEF MemoryInv, SoleOK
  <2>9. CallsOK'
    <3> SUFFICES ASSUME NEW u \in Thread, call'[u].op # "none" PROVE CallOK(mData', call', u)
      BY DEF CallsOK
    <3>1. \A s \in Thread : call'[s].op # "none" => call[s].op # "none" /\ call'[s].vec = call[s].vec
      BY <2>2 DEF v
    <3>2. CASE u = t
      BY <3>1, <3>2, <2>1, <2>2, <1>2, <1>4 DEF CallOK, b
    <3>3. CASE u # t
      BY <3>1, <3>3, <2>1, <2>2 DEF MemoryInv, CallsOK, CallOK
    <3> QED BY <3>2, <3>3
  <2> QED BY <2>3, <2>7, <2>8, <2>9 DEF MemoryInv
<1>5. ASSUME call[t].loaded = 2, Owner(v) = Local PROVE MemoryInv'
  <2>1. mData' = [mData EXCEPT ![v] = NULL] /\ call' = [call EXCEPT ![t] = NoCall]
    BY <1>5 DEF setRefCnt, Counted
  <2>2. /\ call'[t].op = "none" /\ \A u \in Thread \ {t} : call'[u] = call[u]
        /\ refcnt'[b] = 1 /\ mData'[v] = NULL /\ \A x \in Vec \ {v} : mData'[x] = mData[x]
    BY <2>1, <1>1, <1>2, <1>3, <1>5 DEF NoCall
  <2>3. call[t].op # "inc" /\ call[t].op # "delete"
    OBVIOUS
  <2>4. madeFor[b] = Local
    BY <1>2, <1>5 DEF MemoryInv, OwnedOK
  <2> HIDE DEF v, b
  <2>5. OwnedOK'
    BY <2>2, <1>1 DEF MemoryInv, OwnedOK
  <2>6. FoundOK'
    BY <2>2, <2>4, <1>1 DEF MemoryInv, FoundOK, b
  <2>7. \A x, y \in Vec : Shared(mData', x, y) <=> Shared(mData, x, y) /\ x # v /\ y # v
    BY <2>2 DEF Shared
  <2>8. \A x, y \in Vec : Shared(mData, x, y) /\ x # v /\ y # v => mData[x] # b
    <3> SUFFICES ASSUME NEW x \in Vec, NEW y \in Vec, Shared(mData, x, y), x # v, y # v, mData[x] = b
                 PROVE  FALSE
      OBVIOUS
    <3>1. Shared(mData, x, v)
      BY DEF Shared, b
    <3> QED BY <3>1, <1>2, AtMostTwo
  <2>9. SharedOK'
    <3>1. Counting' <=> Counting
      BY <2>2, <2>3 DEF Counting
    <3>2. \A x, y \in Vec : Shared(mData', x, y)
            => Shared(mData, x, y) /\ mData'[x] = mData[x] /\ refcnt'[mData[x]] = refcnt[mData[x]]
      BY <2>2, <2>7, <2>8, <1>1
    <3> QED BY <3>1, <3>2 DEF MemoryInv, SharedOK
  <2>10. SoleOK'
    <3> SUFFICES ASSUME NEW x \in Vec, mData'[x] # NULL, Sole(mData', x),
                        \A u \in Thread : call'[u].op = "delete" => call'[u].vec # x
                 PROVE  refcnt'[mData'[x]] = 1
      BY DEF SoleOK
    <3>1. x # v /\ mData'[x] = mData[x]
      BY <2>2
    <3>2. \A u \in Thread : call[u].op = "delete" => call[u].vec # x
      BY <2>2, <2>3
    <3>3. CASE mData[x] = b
      BY <3>1, <3>3, <2>2
    <3>4. CASE mData[x] # b
      <4>1. Sole(mData, x)
        BY <3>1, <3>4, <2>7 DEF Sole, Shared, b
      <4> QED BY <4>1, <3>1, <3>2, <3>4, <1>1 DEF MemoryInv, SoleOK
    <3> QED BY <3>3, <3>4
  <2>11. CallsOK'
    <3> SUFFICES ASSUME NEW u \in Thread, call'[u].op # "none" PROVE CallOK(mData', call', u)
      BY DEF CallsOK
    <3>1. /\ u # t /\ call'[u] = call[u] /\ CallOK(mData, call, u) /\ call[u].vec # v
          /\ \A s \in Thread : call'[s].op # "none" => call'[s] = call[s]
      BY <2>2, <1>2 DEF MemoryInv, CallsOK
    <3>2. mData'[call[u].vec] # NULL /\ call[u].vec \in Vec
      BY <3>1, <2>2 DEF CallOK
    <3>3. \A x \in Vec : Sole(mData, x) => Sole(mData', x)
      BY <2>7 DEF Sole
    <3>4. call[u].op = "inc" => Shared(mData', Local, call[u].vec)
      <4> SUFFICES ASSUME call[u].op = "inc" PROVE Shared(mData', Local, call[u].vec)
        OBVIOUS
      <4>1. v # Local /\ Shared(mData, Local, call[u].vec)
        BY <3>1 DEF CallOK, v
      <4> QED BY <4>1, <3>1, <3>2, <2>7, <1>1
    <3> QED BY <3>1, <3>2, <3>3, <3>4 DEF CallOK
  <2> QED BY <2>5, <2>6, <2>9, <2>10, <2>11 DEF MemoryInv
<1> QED BY <1>2, <1>4, <1>5

LEMMA DeleteKeeps ==
  ASSUME MemoryTypeOK, MemoryInv, NEW t \in Thread, deleteData(t)
  PROVE  MemoryInv'
<1> DEFINE v == call[t].vec
           b == mData[v]
<1>1. /\ heap' = heap \ {b} /\ madeFor' = madeFor /\ refcnt' = refcnt /\ call[t].op = "delete"
      /\ mData' = [mData EXCEPT ![v] = NULL] /\ call' = [call EXCEPT ![t] = NoCall]
      /\ mData \in [Vec -> Block \cup {NULL}] /\ NULL \notin Block
      /\ call \in [Thread -> Call] /\ Local \in Vec
  BY Vectors, ThreadAssumption DEF deleteData, MemoryTypeOK
<1>2. /\ v \in Vec /\ b # NULL /\ Sole(mData, v)
      /\ \A u \in Thread \ {t} : call[u].op # "none" => call[u].vec # v
  BY <1>1 DEF MemoryInv, CallsOK, CallOK
<1>3. /\ call'[t].op = "none" /\ \A u \in Thread \ {t} : call'[u] = call[u]
      /\ mData'[v] = NULL /\ \A x \in Vec \ {v} : mData'[x] = mData[x]
  BY <1>1, <1>2 DEF NoCall
<1>4. \A x \in Vec : mData[x] = b => x = v
  BY <1>2 DEF Sole, Shared
<1> HIDE DEF v, b
<1>5. OwnedOK'
  BY <1>1, <1>3, <1>4 DEF MemoryInv, OwnedOK
<1>6. FoundOK'
  BY <1>1, <1>3 DEF MemoryInv, FoundOK, b
<1>7. \A x, y \in Vec : Shared(mData', x, y) <=> Shared(mData, x, y)
  BY <1>2, <1>3 DEF Shared, Sole
<1>8. \A x \in Vec : Sole(mData', x) <=> Sole(mData, x)
  BY <1>7 DEF Sole
<1>9. SharedOK'
  <2>1. Counting' <=> Counting
    BY <1>1, <1>3 DEF Counting
  <2>2. \A x, y \in Vec : Shared(mData, x, y) => mData'[x] = mData[x]
    BY <1>2, <1>3 DEF Sole
  <2> QED BY <2>1, <2>2, <1>1, <1>7 DEF MemoryInv, SharedOK
<1>10. SoleOK'
  <2>1. \A x : x # v /\ (\A u \in Thread : call'[u].op = "delete" => call'[u].vec # x)
                 => \A u \in Thread : call[u].op = "delete" => call[u].vec # x
    BY <1>3 DEF v
  <2> QED BY <2>1, <1>1, <1>3, <1>8 DEF MemoryInv, SoleOK
<1>11. CallsOK'
  <2> SUFFICES ASSUME NEW u \in Thread, call'[u].op # "none" PROVE CallOK(mData', call', u)
    BY DEF CallsOK
  <2>1. /\ u # t /\ call'[u] = call[u] /\ CallOK(mData, call, u) /\ call[u].vec # v
        /\ \A s \in Thread : call'[s].op # "none" => call'[s] = call[s]
    BY <1>2, <1>3 DEF MemoryInv, CallsOK
  <2>2. mData'[call[u].vec] # NULL /\ call[u].vec \in Vec
    BY <2>1, <1>3 DEF CallOK
  <2> QED BY <2>1, <2>2, <1>1, <1>7, <1>8 DEF CallOK
<1> QED BY <1>5, <1>6, <1>9, <1>10, <1>11 DEF MemoryInv

LEMMA MemoryKeeps ==
  ASSUME MemoryTypeOK, MemoryInv, NEW t \in Thread, Memory(t)
  PROVE  MemoryInv'
BY CountKeeps, ReleaseKeeps, DeleteKeeps DEF Memory, setRefCnt

LEMMA MemoryInvUnchanged ==
  ASSUME MemoryInv, UNCHANGED memory
  PROVE  MemoryInv'
BY DEF memory, MemoryInv, OwnedOK, FoundOK, SharedOK, SoleOK, CallsOK, Counting

-----------------------------------------------------------------------------
(* What the operations on vectors change: what their callers need to know.     *)

LEMMA Threads ==
  /\ RrcTx \in Thread /\ MacTx \in Thread /\ MacRx \in Thread /\ Reader \subseteq Thread
  /\ RrcTx # MacTx /\ RrcTx # MacRx /\ MacTx # MacRx
  /\ RrcTx \notin Reader /\ MacTx \notin Reader /\ MacRx \notin Reader
BY ThreadAssumption DEF Thread, RrcTx, MacTx, MacRx

LEMMA InitEffect ==
  ASSUME MemoryTypeOK, MemoryInv, NEW v \in Vec, init(v)
  PROVE  /\ call' = call /\ \A x \in Vec \ {v} : mData'[x] = mData[x]
         /\ Sole(mData', v) /\ \A x \in Vec : Sole(mData, x) => Sole(mData', x)
<1> DEFINE b == NewBlock
<1>1. /\ b \notin heap /\ b # NULL /\ mData' = [mData EXCEPT ![v] = b] /\ call' = call
      /\ mData \in [Vec -> Block \cup {NULL}]
  BY NewBlockType, ThreadAssumption DEF init, MemoryTypeOK
<1> HIDE DEF b
<1>2. \A x \in Vec : mData[x] # b
  BY <1>1 DEF MemoryInv, OwnedOK
<1>3. mData'[v] = b /\ \A x \in Vec \ {v} : mData'[x] = mData[x]
  BY <1>1
<1> QED BY <1>1, <1>2, <1>3 DEF Sole, Shared

LEMMA DupEffect ==
  ASSUME MemoryTypeOK, NEW t \in Thread, NEW v \in Vec, NEW w \in Vec, dup(t, v, w)
  PROVE  /\ \A u \in Thread \ {t} : call'[u] = call[u]
         /\ \A x \in Vec \ {v} : mData'[x] = mData[x]
         /\ call' = call \/ (call'[t].op = "inc" /\ call'[t].vec = v)
<1>1. mData \in [Vec -> Block \cup {NULL}] /\ call \in [Thread -> Call]
  BY DEF MemoryTypeOK
<1> QED BY <1>1 DEF dup, Loading

LEMMA ClearEffect ==
  ASSUME MemoryTypeOK, NEW t \in Thread, NEW v \in Vec, clear(t, v)
  PROVE  /\ mData' = mData /\ \A u \in Thread \ {t} : call'[u] = call[u]
         /\ \/ mData[v] = NULL /\ call' = call
            \/ call'[t].op = "dec" /\ call'[t].vec = v
<1>1. call \in [Thread -> Call]
  BY DEF MemoryTypeOK
<1> QED BY <1>1 DEF clear, Loading

LEMMA MemoryEffect ==
  ASSUME MemoryTypeOK, MemoryInv, NEW t \in Thread, Memory(t)
  PROVE  /\ call[t].op # "none" /\ \A u \in Thread \ {t} : call'[u] = call[u]
         /\ \A x \in Vec : mData'[x] = mData[x] \/ mData'[x] = NULL
         /\ \A x \in Vec : Sole(mData, x) => Sole(mData', x)
         /\ \/ call'[t].op = "none" /\ call[t].op = "inc"
            \/ call'[t].op = "none" /\ mData'[call[t].vec] = NULL
            \/ call'[t].op = "delete" /\ call[t].op = "dec" /\ call'[t].vec = call[t].vec
<1>1. call[t].op # "none" /\ (setRefCnt(t) \/ deleteData(t))
  BY DEF Memory, setRefCnt, deleteData
<1>2. /\ call[t].vec \in Vec /\ mData \in [Vec -> Block \cup {NULL}] /\ call \in [Thread -> Call]
      /\ call[t] \in Call
  BY <1>1 DEF MemoryInv, CallsOK, CallOK, MemoryTypeOK
<1>3. \A u \in Thread \ {t} : call'[u] = call[u]
  BY <1>1, <1>2 DEF setRefCnt, deleteData
<1>4. mData' = mData \/ mData' = [mData EXCEPT ![call[t].vec] = NULL]
  BY <1>1 DEF setRefCnt, deleteData
<1>5. \A x \in Vec : mData'[x] = mData[x] \/ mData'[x] = NULL
  BY <1>2, <1>4
<1>6. \A x \in Vec : Sole(mData, x) => Sole(mData', x)
  BY <1>5 DEF Sole, Shared
<1>7. \/ call'[t].op = "none" /\ call[t].op = "inc"
      \/ call'[t].op = "none" /\ mData'[call[t].vec] = NULL
      \/ call'[t].op = "delete" /\ call[t].op = "dec" /\ call'[t].vec = call[t].vec
  <2>1. CASE deleteData(t)
    BY <2>1, <1>2 DEF deleteData, NoCall
  <2>2. CASE setRefCnt(t)
    <3>1. CASE call[t].op = "dec" /\ Counted(call[t]) <= 0
      <4>1. call' = [call EXCEPT ![t] = [call[t] EXCEPT !.op = "delete"]]
        BY <2>2, <3>1 DEF setRefCnt
      <4>2. /\ [call[t] EXCEPT !.op = "delete"].op = "delete"
            /\ [call[t] EXCEPT !.op = "delete"].vec = call[t].vec
        BY <1>2 DEF Call
      <4> QED BY <4>1, <4>2, <3>1, <1>2
    <3>2. CASE ~(call[t].op = "dec" /\ Counted(call[t]) <= 0)
      BY <2>2, <3>2, <1>2 DEF setRefCnt, NoCall
    <3> QED BY <3>1, <3>2
  <2> QED BY <2>1, <2>2, <1>1
<1> QED BY <1>1, <1>3, <1>5, <1>6, <1>7

-----------------------------------------------------------------------------
(* Who may be using a vector.                                                  *)

Inv == QueueInv /\ MemoryInv /\ PlaceInv

LEMMA UsersOf ==
  ASSUME PlaceInv, NEW u \in Thread
  PROVE  /\ Busy(u, Local) => u = RrcTx
         /\ Busy(u, Pdu) => u = MacTx
         /\ \A i \in Down : Busy(u, DownSdu(i)) =>
              u = MacTx \/ (u = RrcTx /\ pc[RrcTx] = "push" /\ DownSdu(i) = DownSdu(written))
         /\ \A i \in Up : Busy(u, UpSdu(i)) => u = MacRx \/ u \in Reader
         /\ call[u].op = "inc" => u = RrcTx /\ pc[RrcTx] = "push" /\ Busy(u, DownSdu(written))
<1>1. CASE u = RrcTx
  BY <1>1, Distinct DEF PlaceInv, RrcTxOK, Busy, Idle, DownSdu, UpSdu, Pdu, Local
<1>2. CASE u = MacTx
  BY <1>2, Distinct DEF PlaceInv, MacTxOK, Busy, Idle
<1>3. CASE u = MacRx
  BY <1>3, Distinct DEF PlaceInv, MacRxOK, Busy, Idle
<1>4. CASE u \in Reader
  BY <1>4, Distinct DEF PlaceInv, ReaderOK, Busy, Idle
<1> QED BY <1>1, <1>2, <1>3, <1>4 DEF Thread

LEMMA PrivateSole ==
  ASSUME MemoryInv, NEW v \in Vec, v # Local, v \notin Downs
  PROVE  Sole(mData, v)
<1> SUFFICES ASSUME NEW w \in Vec, Shared(mData, v, w) PROVE FALSE
  BY DEF Sole
<1>1. w = Local /\ mData[w] = mData[v] /\ mData[v] # NULL
  BY DEF Shared, MemoryInv, SharedOK
<1>2. Owner(v) = Owner(w)
  BY <1>1 DEF MemoryInv, OwnedOK
<1> QED BY <1>1, <1>2, Distinct DEF Owner

(* What was pushed is macTX's: rrcTxDCCH is done with counting it.             *)
LEMMA PushedFree ==
  ASSUME Inv, Idle(MacTx), NEW i \in Down, Pushed(i)
  PROVE  /\ \A u \in Thread : ~Busy(u, DownSdu(i))
         /\ ~Sole(mData, DownSdu(i)) => ~Counting
<1>1. /\ written \in 0 .. MaxSdus /\ MaxSdus \in Nat
      /\ pc[RrcTx] = "push" => written \in Down /\ DownSdu(i) # DownSdu(written)
  BY ThreadAssumption, Distinct DEF Inv, QueueInv, TypeOK, PlacesOK, Pushed, Down
<1>2. \A u \in Thread : ~Busy(u, DownSdu(i))
  BY <1>1, UsersOf DEF Inv, Busy, Idle
<1>3. ASSUME ~Sole(mData, DownSdu(i)), Counting PROVE FALSE
  <2>1. PICK u \in Thread : call[u].op = "inc"
    BY <1>3 DEF Counting
  <2>2. pc[RrcTx] = "push" /\ call[u].vec = DownSdu(written)
    BY <2>1, UsersOf DEF Inv, Busy
  <2>3. Shared(mData, Local, DownSdu(written))
    BY <2>1, <2>2 DEF Inv, MemoryInv, CallsOK, CallOK
  <2>4. PICK w \in Vec : Shared(mData, DownSdu(i), w)
    BY <1>3 DEF Sole
  <2>5. DownSdu(i) # Local /\ DownSdu(i) \in Vec /\ Local \in Vec /\ DownSdu(written) \in Vec
    BY <1>1, <2>2, Distinct, Vectors
  <2>6. Shared(mData, Local, DownSdu(i))
    BY <2>4, <2>5 DEF Inv, MemoryInv, SharedOK, Shared
  <2> QED BY <2>2, <2>3, <2>5, <2>6, <1>1, AtMostTwo DEF Inv
<1> QED BY <1>2, <1>3

LEMMA TakenSent ==
  ASSUME QueueInv, NEW k \in 1 .. Len(taken)
  PROVE  k \in 1 .. Len(sent) /\ taken[k] = sent[k] /\ ToReader = sent
<1>1. taken \in Seq(Up) /\ sent \in Seq(Up) /\ Len(taken) <= Len(ToReader)
  BY DEF QueueInv, TypeOK, HandedOver
<1>2. ToReader = sent
  BY <1>1 DEF ToReader
<1> QED BY <1>1, <1>2 DEF QueueInv, HandedOver

-----------------------------------------------------------------------------
(* A thread's own part of the invariant when another thread steps.             *)

LEMMA RrcTxFrame ==
  ASSUME RrcTxOK, UNCHANGED written, pc'[RrcTx] = pc[RrcTx], call'[RrcTx] = call[RrcTx],
         Sole(mData, Local) => Sole(mData', Local),
         \A x \in {Local} \cup Downs : mData'[x] = mData[x] \/ mData'[x] = NULL
  PROVE  RrcTxOK'
BY DEF RrcTxOK, Idle, Busy, Downs

LEMMA MacTxFrame ==
  ASSUME MacTxOK, UNCHANGED <<mSduTxQ, pdu>>, pc'[MacTx] = pc[MacTx], call'[MacTx] = call[MacTx],
         mData'[Pdu] = mData[Pdu] \/ mData'[Pdu] = NULL,
         mSduTxQ \in Seq(Down), \A i \in Down : Pushed(i) => Pushed(i)'
  PROVE  MacTxOK'
<1>1. \A k \in 1 .. Len(mSduTxQ) : mSduTxQ[k] \in Down
  OBVIOUS
<1>2. \A k \in 1 .. Len(mSduTxQ) : Pushed(mSduTxQ[k])'
  BY <1>1 DEF MacTxOK, Pushed
<1>3. \A i \in Down : Holds(i)' <=> Holds(i)
  BY DEF Holds, Busy
<1> QED BY <1>2, <1>3 DEF MacTxOK, Idle, Busy

LEMMA MacRxFrame ==
  ASSUME MacRxOK, UNCHANGED <<received, mUpSdu, sent>>, pc'[MacRx] = pc[MacRx],
         call'[MacRx] = call[MacRx],
         \A i \in Up : mData'[UpSdu(i)] = mData[UpSdu(i)] \/ mData'[UpSdu(i)] = NULL
  PROVE  MacRxOK'
BY DEF MacRxOK, Idle

LEMMA ReaderFrame ==
  ASSUME ReaderOK, UNCHANGED <<retVal, reading, taken>>, \A r \in Reader : call'[r] = call[r]
  PROVE  ReaderOK'
BY DEF ReaderOK, Reading, Idle, Busy

-----------------------------------------------------------------------------
(* The steps.                                                                  *)

LEMMA InvTypes ==
  ASSUME Inv
  PROVE  /\ MemoryTypeOK /\ MemoryInv /\ RrcTxOK /\ MacTxOK /\ MacRxOK /\ ReaderOK
         /\ written \in 0 .. MaxSdus /\ received \in 0 .. MaxSdus /\ MaxSdus \in Nat
         /\ mSduTxQ \in Seq(Down) /\ sent \in Seq(Up) /\ taken \in Seq(Up)
         /\ mUpSdu \in Up \cup {NULL} /\ NULL \notin Up /\ pdu \in Vec \cup {NULL}
         /\ retVal \in [Reader -> Up \cup {NULL}] /\ DOMAIN pc = {RrcTx, MacTx, MacRx}
         /\ reading \in [Reader -> {"out", "waits", "returned"}]
         /\ mData \in [Vec -> Block \cup {NULL}]
BY ThreadAssumption
   DEF Inv, QueueInv, PlaceInv, TypeOK, QueueTypeOK, MemoryTypeOK, Item

LEMMA rrcSendDCCHStep ==
  ASSUME Inv, rrcSendDCCH
  PROVE  MemoryInv' /\ PlaceInv'
<1>1. /\ pc[RrcTx] = "loop" /\ Idle(RrcTx) /\ init(Local) /\ written' = written + 1
      /\ pc' = [pc EXCEPT ![RrcTx] = "write"] /\ written < MaxSdus
      /\ UNCHANGED <<queues, mRlcMode, mSduTxQ, pdu, uplink>>
  BY InvTypes DEF rrcSendDCCH, At, Goes
<1>2. mData[Local] = NULL
  BY <1>1, InvTypes DEF RrcTxOK
<1>3. MemoryInv'
  BY <1>1, <1>2, InvTypes, InitKeeps, Distinct, Vectors
<1>4. /\ call' = call /\ \A x \in Vec \ {Local} : mData'[x] = mData[x]
      /\ Sole(mData', Local)
  BY <1>1, InvTypes, InitEffect, Vectors
<1>5. pc'[RrcTx] = "write" /\ pc'[MacTx] = pc[MacTx] /\ pc'[MacRx] = pc[MacRx]
  BY <1>1, InvTypes, Threads
<1>6. RrcTxOK'
  <2>1. \A i \in Down : i > written => mData'[DownSdu(i)] = NULL
    BY <1>4, InvTypes, Vectors, Distinct DEF RrcTxOK
  <2>2. \A i \in Down : i > written + 1 \/ i = written + 1 => i > written
    BY InvTypes DEF Down
  <2> QED BY <2>1, <2>2, <1>1, <1>4, <1>5 DEF RrcTxOK, Idle
<1>7. MacTxOK'
  <2>1. \A i \in Down : Pushed(i) => Pushed(i)'
    BY <1>1, <1>5, InvTypes DEF Pushed, Down
  <2> QED BY <2>1, <1>1, <1>4, <1>5, InvTypes, Distinct, Vectors, MacTxFrame
<1>8. MacRxOK' /\ ReaderOK'
  BY <1>1, <1>4, <1>5, InvTypes, Distinct, MacRxFrame, ReaderFrame DEF uplink, queues
<1> QED BY <1>3, <1>6, <1>7, <1>8 DEF PlaceInv

LEMMA NewDownSduStep ==
  ASSUME Inv, NewDownSdu
  PROVE  MemoryInv' /\ PlaceInv'
<1> DEFINE v == DownSdu(written)
<1>1. /\ pc[RrcTx] = "write" /\ Idle(RrcTx) /\ dup(RrcTx, v, Local)
      /\ pc' = [pc EXCEPT ![RrcTx] = "push"]
      /\ UNCHANGED <<queues, mRlcMode, downlink, uplink>>
  BY DEF NewDownSdu, At, Goes
<1>2. written \in Down /\ v \in Downs /\ v \in Vec /\ v # Local /\ v # Pdu
  <2>1. written \in Down
    BY <1>1, InvTypes DEF Inv, QueueInv, PlacesOK, Down
  <2> QED BY <2>1, Distinct, Vectors
<1>3. mData[v] = NULL /\ Sole(mData, Local)
  BY <1>1, <1>2, InvTypes DEF RrcTxOK
<1>4. \A u \in Thread : ~Busy(u, Local)
  BY <1>1, UsersOf DEF Inv, Busy, Idle
<1>5. MemoryInv'
  BY <1>1, <1>2, <1>3, <1>4, InvTypes, DupKeeps, Threads
<1>6. /\ \A u \in Thread \ {RrcTx} : call'[u] = call[u]
      /\ \A x \in Vec \ {v} : mData'[x] = mData[x]
      /\ call' = call \/ (call'[RrcTx].op = "inc" /\ call'[RrcTx].vec = v)
  BY <1>1, <1>2, InvTypes, DupEffect, Threads, Vectors
<1>7. pc'[RrcTx] = "push" /\ pc'[MacTx] = pc[MacTx] /\ pc'[MacRx] = pc[MacRx] /\ written' = written
  BY <1>1, InvTypes, Threads DEF downlink
<1> HIDE DEF v
<1>8. RrcTxOK'
  <2>1. \A i \in Down : i > written => i # written /\ mData'[DownSdu(i)] = NULL
    BY <1>2, <1>6, InvTypes, Distinct, Vectors DEF RrcTxOK, v, Down
  <2> QED BY <2>1, <1>1, <1>6, <1>7 DEF RrcTxOK, Idle, Busy, v
<1>9. MacTxOK'
  <2>1. \A i \in Down : Pushed(i) => Pushed(i)'
    BY <1>1, <1>7 DEF Pushed
  <2> QED BY <2>1, <1>1, <1>2, <1>6, <1>7, InvTypes, Distinct, Vectors, Threads, MacTxFrame DEF downlink
<1>10. MacRxOK' /\ ReaderOK'
  BY <1>1, <1>2, <1>6, <1>7, InvTypes, Distinct, Threads, MacRxFrame, ReaderFrame DEF uplink, queues
<1> QED BY <1>5, <1>8, <1>9, <1>10 DEF PlaceInv

LEMMA PushSduStep ==
  ASSUME Inv, PushSdu
  PROVE  MemoryInv' /\ PlaceInv'
<1>1. /\ pc[RrcTx] = "push" /\ Idle(RrcTx) /\ mSduTxQ' = Append(mSduTxQ, written)
      /\ pc' = [pc EXCEPT ![RrcTx] = "return"]
      /\ UNCHANGED <<memory, queues, mRlcMode, written, pdu, uplink>>
  BY DEF PushSdu, At, Goes
<1>2. MemoryInv' /\ mData' = mData /\ call' = call
  BY <1>1, InvTypes, MemoryInvUnchanged DEF memory
<1>3. pc'[RrcTx] = "return" /\ pc'[MacTx] = pc[MacTx] /\ pc'[MacRx] = pc[MacRx]
  BY <1>1, InvTypes, Threads
<1>4. RrcTxOK'
  BY <1>1, <1>2, <1>3, InvTypes DEF RrcTxOK, Idle, Busy
<1>5. MacTxOK'
  <2>1. \A i \in Down : Pushed(i) => Pushed(i)' /\ i < written
    BY <1>1, <1>3 DEF Pushed
  <2>2. /\ Len(mSduTxQ') = Len(mSduTxQ) + 1 /\ mSduTxQ'[Len(mSduTxQ) + 1] = written
        /\ \A k \in 1 .. Len(mSduTxQ) : mSduTxQ'[k] = mSduTxQ[k] /\ mSduTxQ[k] \in Down
        /\ Len(mSduTxQ) \in Nat
    BY <1>1, InvTypes
  <2>3. \A k \in 1 .. Len(mSduTxQ) : Pushed(mSduTxQ[k]) /\ mSduTxQ[k] < written
    BY <2>1, <2>2, InvTypes DEF MacTxOK
  <2>4. \A k \in 1 .. Len(mSduTxQ') :
          mSduTxQ'[k] < written' \/ (mSduTxQ'[k] = written' /\ pc'[RrcTx] \notin {"write", "push"})
    <3> TAKE k \in 1 .. Len(mSduTxQ')
    <3>1. k = Len(mSduTxQ) + 1 \/ k \in 1 .. Len(mSduTxQ)
      BY <2>2
    <3> QED BY <3>1, <2>2, <2>3, <1>1, <1>3
  <2>5. Increasing(mSduTxQ')
    <3> SUFFICES ASSUME NEW j \in 1 .. Len(mSduTxQ'), NEW k \in 1 .. Len(mSduTxQ'), j < k
                 PROVE  mSduTxQ'[j] < mSduTxQ'[k]
      BY DEF Increasing
    <3>1. j \in 1 .. Len(mSduTxQ) /\ (k = Len(mSduTxQ) + 1 \/ k \in 1 .. Len(mSduTxQ))
      BY <2>2
    <3> QED BY <3>1, <2>2, <2>3, InvTypes DEF MacTxOK, Increasing
  <2>6. \A i \in Down : Holds(i)' <=> Holds(i)
    BY <1>1, <1>2 DEF Holds, Busy
  <2>7. \A i \in Down : Holds(i) => Pushed(i)' /\ \A k \in 1 .. Len(mSduTxQ') : mSduTxQ'[k] # i
    <3> SUFFICES ASSUME NEW i \in Down, Holds(i)
                 PROVE  Pushed(i)' /\ \A k \in 1 .. Len(mSduTxQ') : mSduTxQ'[k] # i
      OBVIOUS
    <3>1. Pushed(i)' /\ i < written /\ \A k \in 1 .. Len(mSduTxQ) : mSduTxQ[k] # i
      BY <2>1, InvTypes DEF MacTxOK
    <3>2. \A k \in 1 .. Len(mSduTxQ') : k = Len(mSduTxQ) + 1 \/ k \in 1 .. Len(mSduTxQ)
      BY <2>2
    <3> QED BY <3>1, <3>2, <2>2, InvTypes DEF Down
  <2>8. \A k \in 1 .. Len(mSduTxQ') : Pushed(mSduTxQ[k])'
    BY <2>4 DEF Pushed
  <2> QED BY <2>5, <2>6, <2>7, <2>8, <1>1, <1>2, <1>3, InvTypes DEF MacTxOK, Idle, Busy
<1>6. MacRxOK' /\ ReaderOK'
  BY <1>1, <1>2, <1>3, InvTypes, MacRxFrame, ReaderFrame DEF uplink, queues
<1> QED BY <1>2, <1>4, <1>5, <1>6 DEF PlaceInv

LEMMA DcchReturnsStep ==
  ASSUME Inv, DcchReturns
  PROVE  MemoryInv' /\ PlaceInv'
<1>1. /\ pc[RrcTx] = "return" /\ Idle(RrcTx) /\ clear(RrcTx, Local)
      /\ pc' = [pc EXCEPT ![RrcTx] = "loop"]
      /\ UNCHANGED <<queues, mRlcMode, downlink, uplink>>
  BY DEF DcchReturns, At, Goes
<1>2. (\A u \in Thread : ~Busy(u, Local)) /\ ~Counting
  BY <1>1, UsersOf DEF Inv, Busy, Idle, Counting
<1>3. MemoryInv'
  BY <1>1, <1>2, InvTypes, ClearKeeps, Threads, Vectors
<1>4. /\ mData' = mData /\ \A u \in Thread \ {RrcTx} : call'[u] = call[u]
      /\ \/ mData[Local] = NULL /\ call' = call
         \/ call'[RrcTx].op = "dec" /\ call'[RrcTx].vec = Local
  BY <1>1, InvTypes, ClearEffect, Threads, Vectors
<1>5. pc'[RrcTx] = "loop" /\ pc'[MacTx] = pc[MacTx] /\ pc'[MacRx] = pc[MacRx] /\ written' = written
  BY <1>1, InvTypes, Threads DEF downlink
<1>6. RrcTxOK'
  BY <1>1, <1>4, <1>5, InvTypes DEF RrcTxOK, Idle, Busy
<1>7. MacTxOK'
  <2>1. \A i \in Down : Pushed(i) => Pushed(i)'
    BY <1>5 DEF Pushed
  <2> QED BY <2>1, <1>1, <1>4, <1>5, InvTypes, Threads, MacTxFrame DEF downlink
<1>8. MacRxOK' /\ ReaderOK'
  BY <1>1, <1>4, <1>5, InvTypes, Threads, MacRxFrame, ReaderFrame DEF uplink, queues
<1> QED BY <1>3, <1>6, <1>7, <1>8 DEF PlaceInv

LEMMA ReadTmStep ==
  ASSUME Inv, ReadTm
  PROVE  MemoryInv' /\ PlaceInv'
<1> DEFINE h == Head(mSduTxQ)
<1>1. /\ pc[MacTx] = "loop" /\ Idle(MacTx) /\ mSduTxQ # << >> /\ pdu' = DownSdu(h)
      /\ mSduTxQ' = Tail(mSduTxQ) /\ pc' = [pc EXCEPT ![MacTx] = "send"]
      /\ UNCHANGED <<memory, queues, mRlcMode, written, uplink>>
  BY DEF ReadTm, At, Goes
<1>2. MemoryInv' /\ mData' = mData /\ call' = call
  BY <1>1, InvTypes, MemoryInvUnchanged DEF memory
<1>3. pc'[MacTx] = "send" /\ pc'[RrcTx] = pc[RrcTx] /\ pc'[MacRx] = pc[MacRx]
  BY <1>1, InvTypes, Threads
<1>4. /\ 1 \in 1 .. Len(mSduTxQ) /\ h = mSduTxQ[1] /\ h \in Down
      /\ Len(mSduTxQ') = Len(mSduTxQ) - 1 /\ Len(mSduTxQ) \in Nat
      /\ \A k \in 1 .. Len(mSduTxQ') : k + 1 \in 1 .. Len(mSduTxQ) /\ mSduTxQ'[k] = mSduTxQ[k + 1]
                                       /\ mSduTxQ'[k] \in Down
  BY <1>1, InvTypes
<1> HIDE DEF h
<1>5. MacTxOK'
  <2>1. \A i \in Down : Pushed(i)' <=> Pushed(i)
    BY <1>1, <1>3 DEF Pushed
  <2>2. \A k \in 1 .. Len(mSduTxQ') : Pushed(mSduTxQ[k])'
    <3>1. \A k \in 1 .. Len(mSduTxQ') : mSduTxQ'[k] < written
            \/ (mSduTxQ'[k] = written /\ pc[RrcTx] \notin {"write", "push"})
      BY <1>4, InvTypes DEF MacTxOK, Pushed
    <3> QED BY <3>1, <1>1, <1>3 DEF Pushed
  <2>3. Increasing(mSduTxQ) /\ Increasing(mSduTxQ')
    BY <1>4, InvTypes DEF MacTxOK, Increasing
  <2>4. \A i \in Down : Holds(i)' <=> i = h
    BY <1>1, <1>2, <1>4, Distinct DEF Holds, Busy, Idle
  <2>5. Pushed(h)
    BY <1>4, InvTypes DEF MacTxOK
  <2>6. \A k \in 1 .. Len(mSduTxQ') : h < mSduTxQ'[k]
    BY <2>3, <1>4 DEF Increasing
  <2>7. \A i \in Down : Holds(i)' => Pushed(i)' /\ \A k \in 1 .. Len(mSduTxQ') : mSduTxQ'[k] # i
    BY <2>1, <2>4, <2>5, <2>6, <1>4 DEF Down
  <2>8. pdu' \in Downs /\ mData[Pdu] = NULL
    BY <1>1, <1>4, InvTypes, Distinct, Vectors, ThreadAssumption DEF MacTxOK, Busy, Idle
  <2> QED BY <2>2, <2>3, <2>7, <2>8, <1>1, <1>2, <1>3, InvTypes DEF MacTxOK, Idle, Busy
<1>6. RrcTxOK' /\ MacRxOK' /\ ReaderOK'
  BY <1>1, <1>2, <1>3, InvTypes, RrcTxFrame, MacRxFrame, ReaderFrame DEF uplink, queues
<1> QED BY <1>2, <1>5, <1>6 DEF PlaceInv

LEMMA ReadUmStep ==
  ASSUME Inv, ReadUm
  PROVE  MemoryInv' /\ PlaceInv'
<1>1. /\ pc[MacTx] = "loop" /\ Idle(MacTx) /\ init(Pdu) /\ pdu' = Pdu
      /\ pc' = [pc EXCEPT ![MacTx] = "fill"]
      /\ UNCHANGED <<queues, mRlcMode, written, mSduTxQ, uplink>>
  BY DEF ReadUm, At, Goes
<1>2. mData[Pdu] = NULL
  BY <1>1, InvTypes, Distinct, Vectors DEF MacTxOK, Busy, Idle
<1>3. MemoryInv'
  BY <1>1, <1>2, InvTypes, InitKeeps, Distinct, Vectors
<1>4. /\ call' = call /\ \A x \in Vec \ {Pdu} : mData'[x] = mData[x]
      /\ \A x \in Vec : Sole(mData, x) => Sole(mData', x)
  BY <1>1, InvTypes, InitEffect, Vectors
<1>5. pc'[MacTx] = "fill" /\ pc'[RrcTx] = pc[RrcTx] /\ pc'[MacRx] = pc[MacRx]
  BY <1>1, InvTypes, Threads
<1>6. RrcTxOK'
  BY <1>1, <1>4, <1>5, InvTypes, RrcTxFrame, Distinct, Vectors
<1>7. MacTxOK'
  <2>1. \A k \in 1 .. Len(mSduTxQ) : Pushed(mSduTxQ[k])'
    BY <1>1, <1>5, InvTypes DEF MacTxOK, Pushed
  <2>2. \A i \in Down : ~Holds(i)'
    BY <1>1, <1>4, Distinct DEF Holds, Busy, Idle
  <2> QED BY <2>1, <2>2, <1>1, <1>4, <1>5, InvTypes, Distinct, Vectors DEF MacTxOK, Idle, Busy
<1>8. MacRxOK' /\ ReaderOK'
  BY <1>1, <1>4, <1>5, InvTypes, Distinct, MacRxFrame, ReaderFrame DEF uplink, queues
<1> QED BY <1>3, <1>6, <1>7, <1>8 DEF PlaceInv

LEMMA FillUmStep ==
  ASSUME Inv, FillUm
  PROVE  MemoryInv' /\ PlaceInv'
<1> DEFINE h == Head(mSduTxQ)
           v == DownSdu(h)
<1>1. /\ pc[MacTx] = "fill" /\ Idle(MacTx) /\ mSduTxQ # << >> /\ clear(MacTx, v)
      /\ mSduTxQ' = Tail(mSduTxQ) /\ pc' = [pc EXCEPT ![MacTx] = "send"]
      /\ UNCHANGED <<queues, mRlcMode, written, pdu, uplink>>
  BY DEF FillUm, fillPduData, At, Goes, Inv, QueueInv, PlacesOK
<1>2. /\ 1 \in 1 .. Len(mSduTxQ) /\ h = mSduTxQ[1] /\ h \in Down /\ v \in Downs /\ v \in Vec /\ v # Pdu
      /\ Len(mSduTxQ') = Len(mSduTxQ) - 1 /\ Len(mSduTxQ) \in Nat
      /\ \A k \in 1 .. Len(mSduTxQ') : k + 1 \in 1 .. Len(mSduTxQ) /\ mSduTxQ'[k] = mSduTxQ[k + 1]
                                       /\ mSduTxQ'[k] \in Down
  <2>1. h \in Down
    BY <1>1, InvTypes
  <2> QED BY <2>1, <1>1, InvTypes, Distinct, Vectors
<1>3. Pushed(h) /\ \A k \in 1 .. Len(mSduTxQ') : h < mSduTxQ'[k]
  BY <1>2, InvTypes DEF MacTxOK, Increasing
<1>4. MemoryInv'
  BY <1>1, <1>2, <1>3, InvTypes, PushedFree, ClearKeeps, Threads
<1>5. /\ mData' = mData /\ \A u \in Thread \ {MacTx} : call'[u] = call[u]
      /\ \/ mData[v] = NULL /\ call' = call
         \/ call'[MacTx].op = "dec" /\ call'[MacTx].vec = v
  BY <1>1, <1>2, InvTypes, ClearEffect, Threads
<1>6. pc'[MacTx] = "send" /\ pc'[RrcTx] = pc[RrcTx] /\ pc'[MacRx] = pc[MacRx]
  BY <1>1, InvTypes, Threads
<1>7. MacTxOK'
  <2>1. \A i \in Down : Pushed(i)' <=> Pushed(i)
    BY <1>1, <1>6 DEF Pushed
  <2>2. \A k \in 1 .. Len(mSduTxQ') : Pushed(mSduTxQ[k])'
    <3>1. \A k \in 1 .. Len(mSduTxQ') : mSduTxQ'[k] < written
            \/ (mSduTxQ'[k] = written /\ pc[RrcTx] \notin {"write", "push"})
      BY <1>2, InvTypes DEF MacTxOK, Pushed
    <3> QED BY <3>1, <1>1, <1>6 DEF Pushed
  <2>3. Increasing(mSduTxQ')
    BY <1>2, InvTypes DEF MacTxOK, Increasing
  <2>4. \A i \in Down : Holds(i)' => Holds(i) \/ i = h
    BY <1>1, <1>2, <1>5, Distinct DEF Holds, Busy
  <2>5. \A i \in Down : Holds(i)' => Pushed(i)' /\ \A k \in 1 .. Len(mSduTxQ') : mSduTxQ'[k] # i
    <3> SUFFICES ASSUME NEW i \in Down, Holds(i)'
                 PROVE  Pushed(i) /\ \A k \in 1 .. Len(mSduTxQ') : mSduTxQ'[k] # i
      BY <2>1
    <3>1. CASE Holds(i)
      BY <3>1, <1>2, InvTypes DEF MacTxOK
    <3>2. CASE i = h
      BY <3>2, <1>2, <1>3 DEF Down
    <3> QED BY <3>1, <3>2, <2>4
  <2>6. pdu # v
    BY <1>2, InvTypes DEF MacTxOK, Holds
  <2>7. mData[Pdu] # NULL => pdu = Pdu
    BY <1>1, InvTypes DEF MacTxOK, Busy, Idle
  <2>8. pdu' # NULL => ~Busy(MacTx, pdu)'
    BY <2>6, <1>1, <1>5 DEF Busy, Idle
  <2>9. ~Idle(MacTx)' => call'[MacTx].vec \in Downs
    BY <1>1, <1>2, <1>5 DEF Idle
  <2> QED BY <2>2, <2>3, <2>5, <2>7, <2>8, <2>9, <1>1, <1>5, <1>6, InvTypes DEF MacTxOK, Idle
<1>8. RrcTxOK' /\ MacRxOK' /\ ReaderOK'
  BY <1>1, <1>5, <1>6, InvTypes, Threads, RrcTxFrame, MacRxFrame, ReaderFrame DEF uplink, queues
<1> QED BY <1>4, <1>7, <1>8 DEF PlaceInv

LEMMA SendPduStep ==
  ASSUME Inv, SendPdu
  PROVE  MemoryInv' /\ PlaceInv'
<1>1. /\ pc[MacTx] = "send" /\ Idle(MacTx) /\ clear(MacTx, pdu) /\ pdu' = NULL /\ pdu # NULL
      /\ pc' = [pc EXCEPT ![MacTx] = "loop"]
      /\ UNCHANGED <<queues, mRlcMode, written, mSduTxQ, uplink>>
  BY DEF SendPdu, At, Goes, Inv, QueueInv, PlacesOK
<1>2. pdu \in Vec /\ (pdu = Pdu \/ \E i \in Down : pdu = DownSdu(i) /\ Pushed(i))
  BY <1>1, InvTypes DEF MacTxOK, Holds, Downs
<1>3. (\A u \in Thread : ~Busy(u, pdu)) /\ (~Sole(mData, pdu) => ~Counting)
  <2>1. CASE pdu = Pdu
    BY <2>1, <1>1, UsersOf, PrivateSole, Distinct, Vectors DEF Inv, Busy, Idle
  <2>2. CASE \E i \in Down : pdu = DownSdu(i) /\ Pushed(i)
    BY <2>2, <1>1, PushedFree
  <2> QED BY <2>1, <2>2, <1>2
<1>4. MemoryInv'
  BY <1>1, <1>2, <1>3, InvTypes, ClearKeeps, Threads
<1>5. /\ mData' = mData /\ \A u \in Thread \ {MacTx} : call'[u] = call[u]
      /\ \/ mData[pdu] = NULL /\ call' = call
         \/ call'[MacTx].op = "dec" /\ call'[MacTx].vec = pdu
  BY <1>1, <1>2, InvTypes, ClearEffect, Threads
<1>6. pc'[MacTx] = "loop" /\ pc'[RrcTx] = pc[RrcTx] /\ pc'[MacRx] = pc[MacRx]
  BY <1>1, InvTypes, Threads
<1>7. MacTxOK'
  <2>1. \A i \in Down : Pushed(i)' <=> Pushed(i)
    BY <1>1, <1>6 DEF Pushed
  <2>2. \A k \in 1 .. Len(mSduTxQ) : Pushed(mSduTxQ[k])'
    BY <2>1, InvTypes, <1>1, <1>6 DEF MacTxOK, Pushed
  <2>3. \A i \in Down : Holds(i)' => Holds(i)
    BY <1>1, <1>5, Distinct, Vectors DEF Holds, Busy, Idle
  <2>4. mData[Pdu] # NULL => call'[MacTx].op = "dec" /\ call'[MacTx].vec = Pdu
    BY <1>1, <1>5, InvTypes DEF MacTxOK, Busy, Idle
  <2>5. ~Idle(MacTx)' => call'[MacTx].op = "dec" /\ call'[MacTx].vec \in Downs \cup {Pdu}
    BY <1>1, <1>5, InvTypes DEF MacTxOK, Idle
  <2> QED BY <2>1, <2>2, <2>3, <2>4, <2>5, <1>1, <1>5, <1>6, InvTypes DEF MacTxOK, Idle, Busy
<1>8. RrcTxOK' /\ MacRxOK' /\ ReaderOK'
  BY <1>1, <1>5, <1>6, InvTypes, Threads, RrcTxFrame, MacRxFrame, ReaderFrame DEF uplink, queues
<1> QED BY <1>4, <1>7, <1>8 DEF PlaceInv

LEMMA NewUpSduStep ==
  ASSUME Inv, NewUpSdu
  PROVE  MemoryInv' /\ PlaceInv'
<1> DEFINE v == UpSdu(received + 1)
<1>1. /\ pc[MacRx] = "loop" /\ Idle(MacRx) /\ mUpSdu = NULL /\ received + 1 \in Up /\ init(v)
      /\ received' = received + 1 /\ mUpSdu' = received + 1
      /\ UNCHANGED <<queues, mRlcMode, pc, downlink, sent, taken>>
  BY InvTypes DEF NewUpSdu, At, Up
<1>2. v \in Vec /\ v \notin Downs /\ v # Local /\ v # Pdu /\ mData[v] = NULL
  BY <1>1, InvTypes, Distinct DEF MacRxOK
<1>3. MemoryInv'
  BY <1>1, <1>2, InvTypes, InitKeeps
<1>4. /\ call' = call /\ \A x \in Vec \ {v} : mData'[x] = mData[x]
      /\ \A x \in Vec : Sole(mData, x) => Sole(mData', x)
  BY <1>1, <1>2, InvTypes, InitEffect
<1> HIDE DEF v
<1>5. RrcTxOK'
  BY <1>1, <1>2, <1>4, InvTypes, RrcTxFrame, Distinct, Vectors DEF downlink
<1>6. MacTxOK'
  <2>1. \A i \in Down : Pushed(i) => Pushed(i)'
    BY <1>1 DEF Pushed, downlink
  <2> QED BY <2>1, <1>1, <1>2, <1>4, InvTypes, Vectors, MacTxFrame DEF downlink
<1>7. MacRxOK'
  <2>1. \A i \in Up : i > received + 1 => mData'[UpSdu(i)] = NULL
    <3> SUFFICES ASSUME NEW i \in Up, i > received + 1 PROVE mData'[UpSdu(i)] = NULL
      OBVIOUS
    <3>1. i > received /\ i # received + 1
      BY InvTypes DEF Up
    <3>2. UpSdu(i) \in Vec /\ UpSdu(i) # v
      BY <3>1, <1>1, Distinct DEF v
    <3> QED BY <3>1, <3>2, <1>4, InvTypes DEF MacRxOK
  <2>2. \A k \in 1 .. Len(sent) : sent[k] <= received /\ sent[k] < received + 1
    <3> SUFFICES ASSUME NEW k \in 1 .. Len(sent) PROVE sent[k] <= received /\ sent[k] < received + 1
      OBVIOUS
    <3>1. sent[k] \in Up /\ sent[k] <= received
      BY InvTypes DEF MacRxOK
    <3> QED BY <3>1, InvTypes DEF Up
  <2>3. /\ call'[MacRx].op = "none" /\ sent' = sent /\ pc' = pc
        /\ received' = received + 1 /\ mUpSdu' = received + 1
    BY <1>1, <1>4 DEF Idle
  <2>4. pc[MacRx] \in {"loop", "signal"} /\ Increasing(sent)
    BY InvTypes DEF MacRxOK
  <2>5. \A i \in Up : i > received' => mData'[UpSdu(i)] = NULL
    BY <2>1, <2>3
  <2>6. \A k \in 1 .. Len(sent') : sent'[k] <= received' /\ sent'[k] < received'
    <3> TAKE k \in 1 .. Len(sent')
    <3>1. sent[k] \in Up /\ sent[k] <= received
      BY <2>2, <2>3, InvTypes
    <3> QED BY <3>1, <2>3, InvTypes DEF Up
  <2> QED BY <2>3, <2>4, <2>5, <2>6 DEF MacRxOK, Idle
<1>8. ReaderOK'
  BY <1>1, <1>4, InvTypes, ReaderFrame DEF queues
<1> QED BY <1>3, <1>5, <1>6, <1>7, <1>8 DEF PlaceInv

LEMMA rlcSendHighSideStep ==
  ASSUME Inv, rlcSendHighSide
  PROVE  MemoryInv' /\ PlaceInv'
<1>1. /\ pc[MacRx] = "loop" /\ Idle(MacRx) /\ mUpSdu \in Up /\ mUpSdu' = NULL
      /\ sent' = Append(sent, mUpSdu) \/ sent' = sent
      /\ pc' = [pc EXCEPT ![MacRx] = "signal"]
      /\ UNCHANGED <<waiting, reading, retVal, memory, mRlcMode, downlink, received, taken>>
  BY InvTypes DEF rlcSendHighSide, Write, At, Goes
<1>2. MemoryInv' /\ mData' = mData /\ call' = call
  BY <1>1, InvTypes, MemoryInvUnchanged DEF memory
<1>3. pc'[MacRx] = "signal" /\ pc'[MacTx] = pc[MacTx] /\ pc'[RrcTx] = pc[RrcTx]
  BY <1>1, InvTypes, Threads
<1>4. MacRxOK'
  <2>1. mUpSdu = received /\ Increasing(sent) /\ \A k \in 1 .. Len(sent) : sent[k] < received
    BY <1>1, InvTypes DEF MacRxOK
  <2>2. CASE sent' = sent
    BY <2>1, <2>2, <1>1, <1>2, <1>3, InvTypes DEF MacRxOK, Idle
  <2>3. CASE sent' = Append(sent, mUpSdu)
    <3>1. /\ Len(sent') = Len(sent) + 1 /\ sent'[Len(sent) + 1] = received /\ Len(sent) \in Nat
          /\ \A k \in 1 .. Len(sent) : sent'[k] = sent[k]
          /\ \A k \in 1 .. Len(sent') : k = Len(sent) + 1 \/ k \in 1 .. Len(sent)
      BY <2>1, <2>3, <1>1, InvTypes
    <3>2. Increasing(sent')
      <4> SUFFICES ASSUME NEW j \in 1 .. Len(sent'), NEW k \in 1 .. Len(sent'), j < k
                   PROVE  sent'[j] < sent'[k]
        BY DEF Increasing
      <4>1. j \in 1 .. Len(sent)
        BY <3>1
      <4> QED BY <4>1, <3>1, <2>1 DEF Increasing
    <3>3. ASSUME NEW k \in 1 .. Len(sent') PROVE sent'[k] <= received
      <4>1. received \in Nat
        BY InvTypes DEF Up
      <4>2. CASE k = Len(sent) + 1
        BY <4>1, <4>2, <3>1
      <4>3. CASE k \in 1 .. Len(sent)
        <5>1. sent'[k] = sent[k] /\ sent[k] < received /\ sent[k] \in Up
          BY <4>3, <3>1, <2>1, InvTypes
        <5> QED BY <5>1, <4>1 DEF Up
      <4> QED BY <4>2, <4>3, <3>1
    <3> QED BY <3>2, <3>3, <1>1, <1>2, <1>3, InvTypes DEF MacRxOK, Idle
  <2> QED BY <2>2, <2>3, <1>1
<1>5. MacTxOK'
  <2>1. \A i \in Down : Pushed(i) => Pushed(i)'
    BY <1>1, <1>3 DEF Pushed, downlink
  <2> QED BY <2>1, <1>1, <1>2, <1>3, InvTypes, MacTxFrame DEF downlink
<1>6. RrcTxOK' /\ ReaderOK'
  BY <1>1, <1>2, <1>3, InvTypes, RrcTxFrame, ReaderFrame DEF downlink
<1> QED BY <1>2, <1>4, <1>5, <1>6 DEF PlaceInv

LEMMA SignalsReadStep ==
  ASSUME Inv, SignalsRead
  PROVE  MemoryInv' /\ PlaceInv'
<1>1. /\ pc[MacRx] = "signal" /\ Idle(MacRx) /\ pc' = [pc EXCEPT ![MacRx] = "loop"]
      /\ UNCHANGED <<reading, retVal, memory, mRlcMode, downlink, uplink>>
  BY DEF SignalsRead, Signal, At, Goes
<1>2. MemoryInv' /\ mData' = mData /\ call' = call
  BY <1>1, InvTypes, MemoryInvUnchanged DEF memory
<1>3. pc'[MacRx] = "loop" /\ pc'[MacTx] = pc[MacTx] /\ pc'[RrcTx] = pc[RrcTx]
  BY <1>1, InvTypes, Threads
<1>4. MacRxOK'
  BY <1>1, <1>2, <1>3, InvTypes DEF MacRxOK, Idle, uplink
<1>5. MacTxOK'
  <2>1. \A i \in Down : Pushed(i) => Pushed(i)'
    BY <1>1, <1>3 DEF Pushed, downlink
  <2> QED BY <2>1, <1>1, <1>2, <1>3, InvTypes, MacTxFrame DEF downlink
<1>6. RrcTxOK' /\ ReaderOK'
  BY <1>1, <1>2, <1>3, InvTypes, RrcTxFrame, ReaderFrame DEF downlink, uplink
<1> QED BY <1>2, <1>4, <1>5, <1>6 DEF PlaceInv

LEMMA discardPartialSduStep ==
  ASSUME Inv, discardPartialSdu
  PROVE  MemoryInv' /\ PlaceInv'
<1> DEFINE v == UpSdu(mUpSdu)
<1>1. /\ pc[MacRx] = "loop" /\ Idle(MacRx) /\ mUpSdu \in Up /\ mUpSdu' = NULL /\ clear(MacRx, v)
      /\ UNCHANGED <<queues, mRlcMode, pc, downlink, received, sent, taken>>
  BY InvTypes DEF discardPartialSdu, At
<1>2. v \in Vec /\ v \notin Downs /\ v # Local
  BY <1>1, Distinct
<1>3. mUpSdu = received /\ \A k \in 1 .. Len(sent) : sent[k] < received
  BY <1>1, InvTypes DEF MacRxOK
<1>4. \A u \in Thread : ~Busy(u, v)
  <2> SUFFICES ASSUME NEW u \in Thread, Busy(u, v) PROVE FALSE
    OBVIOUS
  <2>1. u \in Reader
    BY <1>1, UsersOf DEF Inv, Busy, Idle
  <2>2. PICK k \in 1 .. Len(taken) : taken[k] = mUpSdu
    BY <2>1, <1>1, InvTypes DEF ReaderOK, Reading
  <2>3. k \in 1 .. Len(sent) /\ sent[k] = mUpSdu
    BY <2>2, TakenSent DEF Inv
  <2> QED BY <2>3, <1>3, InvTypes
<1>5. MemoryInv'
  BY <1>1, <1>2, <1>4, InvTypes, PrivateSole, ClearKeeps, Threads
<1>6. /\ mData' = mData /\ \A u \in Thread \ {MacRx} : call'[u] = call[u]
      /\ \/ mData[v] = NULL /\ call' = call
         \/ call'[MacRx].op = "dec" /\ call'[MacRx].vec = v
  BY <1>1, <1>2, InvTypes, ClearEffect, Threads
<1>7. MacRxOK'
  <2>1. \A k \in 1 .. Len(sent) : sent[k] # mUpSdu
    BY <1>1, <1>3, InvTypes DEF Up
  <2>2. mUpSdu <= received
    BY <1>1, <1>3, InvTypes
  <2>3. ~Idle(MacRx)' => call'[MacRx].op = "dec" /\ call'[MacRx].vec = UpSdu(mUpSdu)
    BY <1>1, <1>6 DEF Idle
  <2> QED BY <2>1, <2>2, <2>3, <1>1, <1>6, InvTypes DEF MacRxOK, Idle
<1>8. MacTxOK'
  <2>1. \A i \in Down : Pushed(i) => Pushed(i)'
    BY <1>1 DEF Pushed, downlink
  <2> QED BY <2>1, <1>1, <1>6, InvTypes, Threads, MacTxFrame DEF downlink
<1>9. RrcTxOK' /\ ReaderOK'
  BY <1>1, <1>6, InvTypes, Threads, RrcTxFrame, ReaderFrame DEF downlink, queues
<1> QED BY <1>5, <1>7, <1>8, <1>9 DEF PlaceInv

LEMMA ReadsStep ==
  ASSUME Inv, NEW r \in Reader, Reads(r)
  PROVE  MemoryInv' /\ PlaceInv'
<1>1. Idle(r) /\ UNCHANGED <<memory, mRlcMode, pc, downlink, received, mUpSdu, sent>>
  BY DEF Reads
<1>2. MemoryInv' /\ mData' = mData /\ call' = call
  BY <1>1, InvTypes, MemoryInvUnchanged DEF memory
<1>3. RrcTxOK' /\ MacRxOK'
  BY <1>1, <1>2, InvTypes, RrcTxFrame, MacRxFrame DEF downlink
<1>4. MacTxOK'
  <2>1. \A i \in Down : Pushed(i) => Pushed(i)'
    BY <1>1 DEF Pushed, downlink
  <2> QED BY <2>1, <1>1, <1>2, InvTypes, MacTxFrame DEF downlink
<1>5. ReaderOK'
  <2> DEFINE n == Len(taken) + 1
  <2>1. \A u \in Reader : ~Idle(u) => u # r /\ reading'[u] = reading[u]
    BY <1>1, InvTypes, ReadTakes DEF Inv
  <2>2. CASE taken' = taken /\ retVal' = retVal
    BY <2>1, <2>2, <1>2, InvTypes DEF ReaderOK, Reading, Idle, Busy
  <2>3. CASE /\ Len(taken) < Len(ToReader) /\ retVal' = [retVal EXCEPT ![r] = ToReader[n]]
             /\ taken' = Append(taken, ToReader[n])
    <3>1. ToReader = sent /\ Len(taken) \in Nat /\ Len(sent) \in Nat
      BY <2>3, InvTypes DEF ToReader
    <3>2. /\ Len(taken') = n /\ taken'[n] = sent[n]
          /\ \A k \in 1 .. Len(taken) : taken'[k] = taken[k] /\ k \in 1 .. Len(taken')
          /\ n \in 1 .. Len(taken') /\ n \in 1 .. Len(sent)
      BY <2>3, <3>1, InvTypes
    <3>3. \A k \in 1 .. Len(taken) : taken[k] # sent[n]
      <4> SUFFICES ASSUME NEW k \in 1 .. Len(taken) PROVE taken[k] # sent[n]
        OBVIOUS
      <4>1. k \in 1 .. Len(sent) /\ taken[k] = sent[k] /\ k < n
        BY <3>1, TakenSent DEF Inv
      <4>2. sent[k] < sent[n] /\ sent[k] \in Up
        BY <4>1, <3>2, InvTypes DEF MacRxOK, Increasing
      <4> QED BY <4>1, <4>2 DEF Up
    <3>4. \A s \in Reader : \A i \in Up : Reading(s, i) => \E k \in 1 .. Len(taken) : taken[k] = i
      BY InvTypes DEF ReaderOK
    <3>5. \A s \in Reader : \A i \in Up : Reading(s, i)' <=> IF s = r THEN i = sent[n] ELSE Reading(s, i)
      BY <2>3, <3>1, <1>1, <1>2, InvTypes DEF Reading, Busy, Idle
    <3>6. ASSUME NEW s \in Reader, NEW i \in Up, Reading(s, i)'
          PROVE  /\ \E k \in 1 .. Len(taken') : taken'[k] = i
                 /\ \A u \in Reader \ {s} : ~Reading(u, i)'
      <4>1. CASE s = r
        BY <4>1, <3>2, <3>3, <3>4, <3>5, <3>6
      <4>2. CASE s # r
        <5>1. Reading(s, i) /\ i # sent[n] /\ \A u \in Reader \ {s} : ~Reading(u, i)
          BY <4>2, <3>3, <3>4, <3>5, <3>6, InvTypes DEF ReaderOK
        <5>2. \E k \in 1 .. Len(taken') : taken'[k] = i
          BY <5>1, <3>2, <3>4
        <5> QED BY <5>1, <5>2, <3>5
      <4> QED BY <4>1, <4>2
    <3> QED BY <3>6, <2>1, <1>2, InvTypes DEF ReaderOK, Idle
  <2> QED BY <2>2, <2>3, ReadTakes DEF Inv
<1> QED BY <1>2, <1>3, <1>4, <1>5 DEF PlaceInv

LEMMA SpuriousStep ==
  ASSUME Inv, NEW r \in Reader, ReturnsSpuriously(r)
  PROVE  MemoryInv' /\ PlaceInv'
<1>1. UNCHANGED <<reading, retVal, memory, mRlcMode, pc, downlink, uplink>>
  BY DEF ReturnsSpuriously, SpuriousReturn
<1>2. MemoryInv' /\ mData' = mData /\ call' = call
  BY <1>1, InvTypes, MemoryInvUnchanged DEF memory
<1>3. \A i \in Down : Pushed(i) => Pushed(i)'
  BY <1>1 DEF Pushed, downlink
<1> QED BY <1>1, <1>2, <1>3, InvTypes, RrcTxFrame, MacTxFrame, MacRxFrame, ReaderFrame
        DEF PlaceInv, downlink, uplink

LEMMA rrcRecvDCCHStep ==
  ASSUME Inv, NEW r \in Reader, rrcRecvDCCH(r)
  PROVE  MemoryInv' /\ PlaceInv'
<1> DEFINE j == retVal[r]
           v == UpSdu(j)
<1>1. /\ reading[r] = "returned" /\ j \in Up /\ clear(r, v)
      /\ reading' = [reading EXCEPT ![r] = "out"] /\ retVal' = [retVal EXCEPT ![r] = NULL]
      /\ UNCHANGED <<mRlcMode, pc, downlink, uplink>>
  BY InvTypes DEF rrcRecvDCCH, Released, Inv, QueueInv, ReadersOK
<1>2. v \in Vec /\ v \notin Downs /\ v # Local /\ Idle(r) /\ Reading(r, j)
  BY <1>1, InvTypes, Distinct DEF ReaderOK, Reading
<1>3. \A u \in Thread : ~Busy(u, v)
  <2> SUFFICES ASSUME NEW u \in Thread, Busy(u, v) PROVE FALSE
    OBVIOUS
  <2>1. PICK k \in 1 .. Len(taken) : taken[k] = j
    BY <1>1, <1>2, InvTypes DEF ReaderOK
  <2>2. k \in 1 .. Len(sent) /\ sent[k] = j
    BY <2>1, TakenSent DEF Inv
  <2>3. CASE u = MacRx
    BY <2>2, <2>3, <1>1, InvTypes, Distinct DEF MacRxOK, Busy, Idle
  <2>4. CASE u \in Reader
    <3>1. Reading(u, j) /\ u # r
      BY <1>2 DEF Reading, Busy, Idle
    <3> QED BY <3>1, <2>4, <1>1, <1>2, InvTypes DEF ReaderOK
  <2> QED BY <2>3, <2>4, <1>1, UsersOf DEF Inv
<1>4. MemoryInv'
  BY <1>1, <1>2, <1>3, InvTypes, PrivateSole, ClearKeeps, Threads
<1>5. /\ mData' = mData /\ \A u \in Thread \ {r} : call'[u] = call[u]
      /\ \/ mData[v] = NULL /\ call' = call
         \/ call'[r].op = "dec" /\ call'[r].vec = v
  BY <1>1, <1>2, InvTypes, ClearEffect, Threads
<1>6. RrcTxOK' /\ MacRxOK'
  BY <1>1, <1>5, InvTypes, Threads, RrcTxFrame, MacRxFrame DEF downlink, uplink
<1>7. MacTxOK'
  <2>1. \A i \in Down : Pushed(i) => Pushed(i)'
    BY <1>1 DEF Pushed, downlink
  <2> QED BY <2>1, <1>1, <1>5, InvTypes, Threads, MacTxFrame DEF downlink
<1>8. ReaderOK'
  <2>1. taken' = taken
    BY <1>1 DEF uplink
  <2>2. ASSUME NEW s \in Reader, NEW i \in Up, Reading(s, i)' PROVE Reading(s, i)
    <3>1. CASE s = r
      <4>1. retVal'[r] = NULL /\ NULL # i
        BY <1>1, InvTypes
      <4>2. call'[r].op = "dec" /\ UpSdu(i) = UpSdu(j)
        BY <4>1, <3>1, <2>2, <1>2, <1>5 DEF Reading, Busy, Idle
      <4> QED BY <4>2, <3>1, <1>1, <1>2, Distinct
    <3>2. CASE s # r
      <4>1. retVal'[s] = retVal[s] /\ call'[s] = call[s]
        BY <3>2, <1>1, <1>5, InvTypes, Threads
      <4> QED BY <4>1, <2>2 DEF Reading, Busy
    <3> QED BY <3>1, <3>2
  <2>3. ASSUME NEW s \in Reader, ~Idle(s)'
        PROVE  call'[s].op # "inc" /\ reading'[s] = "out" /\ \E i \in Up : call'[s].vec = UpSdu(i)
    <3>1. CASE s = r
      BY <3>1, <2>3, <1>1, <1>2, <1>5, InvTypes DEF Idle
    <3>2. CASE s # r
      <4>1. reading'[s] = reading[s] /\ call'[s] = call[s]
        BY <3>2, <1>1, <1>5, InvTypes, Threads
      <4> QED BY <4>1, <2>3, InvTypes DEF ReaderOK, Idle
    <3> QED BY <3>1, <3>2
  <2> QED BY <2>1, <2>2, <2>3, InvTypes DEF ReaderOK, Idle
<1> QED BY <1>4, <1>6, <1>7, <1>8 DEF PlaceInv

LEMMA MemoryStep ==
  ASSUME Inv, NEW t \in Thread, Memory(t)
  PROVE  MemoryInv' /\ PlaceInv'
<1>1. UNCHANGED <<queues, mRlcMode, pc, downlink, uplink>>
  BY DEF Memory
<1>2. MemoryInv'
  BY InvTypes, MemoryKeeps
<1>3. /\ call[t].op # "none" /\ \A u \in Thread \ {t} : call'[u] = call[u]
      /\ \A x \in Vec : mData'[x] = mData[x] \/ mData'[x] = NULL
      /\ \A x \in Vec : Sole(mData, x) => Sole(mData', x)
      /\ \/ call'[t].op = "none" /\ call[t].op = "inc"
         \/ call'[t].op = "none" /\ mData'[call[t].vec] = NULL
         \/ call'[t].op = "delete" /\ call[t].op = "dec" /\ call'[t].vec = call[t].vec
  BY InvTypes, MemoryEffect
<1>4. RrcTxOK'
  <2>1. CASE t = RrcTx
    BY <2>1, <1>1, <1>3, InvTypes, Vectors DEF RrcTxOK, Idle, Busy, downlink
  <2>2. CASE t # RrcTx
    BY <2>2, <1>1, <1>3, InvTypes, Threads, Distinct, Vectors, RrcTxFrame DEF downlink
  <2> QED BY <2>1, <2>2
<1>5. MacTxOK'
  <2>1. \A i \in Down : Pushed(i)' <=> Pushed(i)
    BY <1>1 DEF Pushed, downlink
  <2>2. CASE t = MacTx
    <3>1. \A i \in Down : Holds(i)' => Holds(i)
      BY <2>2, <1>1, <1>3 DEF Holds, Busy, downlink
    <3>2. \A k \in 1 .. Len(mSduTxQ) : Pushed(mSduTxQ[k])'
      BY <1>1, InvTypes DEF MacTxOK, Pushed, downlink
    <3>3. mData'[Pdu] # NULL => pdu = Pdu \/ Busy(MacTx, Pdu)'
      BY <2>2, <1>3, InvTypes, Vectors DEF MacTxOK, Busy
    <3>4. \A x : Busy(MacTx, x)' => Busy(MacTx, x)
      BY <2>2, <1>3 DEF Busy
    <3>5. call'[MacTx].op # "inc" /\ (~Idle(MacTx)' => call'[MacTx].vec \in Downs \cup {Pdu})
      BY <2>2, <1>3, InvTypes DEF MacTxOK, Idle
    <3>6. pdu # NULL => ~Busy(MacTx, pdu)'
      BY <3>4, <1>1, InvTypes DEF MacTxOK, Busy, downlink
    <3> QED BY <3>1, <3>2, <3>3, <3>5, <3>6, <2>1, <1>1, InvTypes DEF MacTxOK, Idle, downlink
  <2>3. CASE t # MacTx
    BY <2>1, <2>3, <1>1, <1>3, InvTypes, Threads, Vectors, MacTxFrame DEF downlink
  <2> QED BY <2>2, <2>3
<1>6. MacRxOK'
  <2>1. CASE t = MacRx
    BY <2>1, <1>1, <1>3, InvTypes, Distinct DEF MacRxOK, Idle, uplink
  <2>2. CASE t # MacRx
    BY <2>2, <1>1, <1>3, InvTypes, Threads, Distinct, MacRxFrame DEF uplink
  <2> QED BY <2>1, <2>2
<1>7. ReaderOK'
  <2>1. retVal' = retVal /\ reading' = reading /\ taken' = taken
    BY <1>1 DEF queues, uplink
  <2>2. \A s \in Reader : \A i \in Up : Reading(s, i)' => Reading(s, i)
    BY <2>1, <1>3, Threads DEF Reading, Busy
  <2>3. \A s \in Reader : ~Idle(s)' => /\ ~Idle(s) /\ call'[s].vec = call[s].vec
                                       /\ call[s].op # "inc" => call'[s].op # "inc"
    BY <1>3, Threads DEF Idle
  <2> QED BY <2>1, <2>2, <2>3, InvTypes DEF ReaderOK, Idle
<1> QED BY <1>2, <1>4, <1>5, <1>6, <1>7 DEF PlaceInv

-----------------------------------------------------------------------------

LEMMA InvInit ==
  Init => Inv
<1> SUFFICES ASSUME Init PROVE Inv
  OBVIOUS
<1>1. /\ \A v \in Vec : mData[v] = NULL
      /\ \A t \in Thread : call[t].op = "none"
      /\ \A r \in Reader : retVal[r] = NULL
      /\ heap = {}
  BY DEF Init, MemoryInit, QueueInit, NoCall
<1>2. QueueInv
  BY QueueInvInit
<1>3. MemoryInv
  BY <1>1 DEF MemoryInv, OwnedOK, FoundOK, SharedOK, SoleOK, CallsOK, Shared
<1>4. /\ pc[RrcTx] = "loop" /\ pc[MacTx] = "loop" /\ pc[MacRx] = "loop"
      /\ written = 0 /\ Len(mSduTxQ) = 0 /\ pdu = NULL
      /\ received = 0 /\ mUpSdu = NULL /\ Len(sent) = 0 /\ Len(taken) = 0
  BY DEF Init
<1>5. RrcTxOK
  BY <1>1, <1>4, Threads, Vectors DEF RrcTxOK, Idle
<1>6. MacTxOK
  <2>1. \A i \in Down : ~Holds(i)
    BY <1>1, <1>4, Threads, Vectors, ThreadAssumption DEF Holds, Busy
  <2> QED BY <2>1, <1>1, <1>4, Threads, Vectors DEF MacTxOK, Idle, Increasing
<1>7. MacRxOK
  BY <1>1, <1>4, Threads, Vectors DEF MacRxOK, Idle, Increasing
<1>8. ReaderOK
  BY <1>1, Threads, ThreadAssumption DEF ReaderOK, Reading, Idle, Busy, Item
<1> QED BY <1>2, <1>3, <1>5, <1>6, <1>7, <1>8 DEF Inv, PlaceInv

LEMMA InvNext ==
  Inv /\ [Next]_vars => Inv'
<1> SUFFICES ASSUME Inv, [Next]_vars PROVE Inv'
  OBVIOUS
<1>1. QueueInv'
  BY QueueInvNext DEF Inv
<1>2. CASE UNCHANGED vars
  <2>1. \A i \in Down : Pushed(i) => Pushed(i)'
    BY <1>2 DEF Pushed, vars, downlink
  <2>2. /\ UNCHANGED <<memory, pc, downlink, uplink, retVal, reading>>
        /\ mData' = mData /\ call' = call
    BY <1>2 DEF vars, memory, queues
  <2>3. MemoryInv' /\ PlaceInv'
    BY <2>1, <2>2, InvTypes, MemoryInvUnchanged, RrcTxFrame, MacTxFrame, MacRxFrame, ReaderFrame
       DEF PlaceInv, downlink, uplink
  <2> QED BY <2>3, <1>1 DEF Inv
<1>3. CASE Next
  <2>1. MemoryInv' /\ PlaceInv'
    BY <1>3, rrcSendDCCHStep, NewDownSduStep, PushSduStep, DcchReturnsStep, ReadTmStep, ReadUmStep,
       FillUmStep, SendPduStep, NewUpSduStep, rlcSendHighSideStep, SignalsReadStep,
       discardPartialSduStep, ReadsStep, SpuriousStep, rrcRecvDCCHStep, MemoryStep
       DEF Next, RrcTxNext, MacTxNext, MacRxNext, ReaderNext
  <2> QED BY <2>1, <1>1 DEF Inv
<1> QED BY <1>2, <1>3

LEMMA SpecInv ==
  Spec => []Inv
BY InvInit, InvNext, PTL DEF Spec

(* Whatever the interleaving of loads and stores of the counts, no thread      *)
(* deletes memory that a vector points to.                                     *)
THEOREM SpecVectorsOwnMemory ==
  Spec => []VectorsOwnMemory
<1>1. Inv => VectorsOwnMemory
  BY DEF Inv, MemoryInv, OwnedOK, VectorsOwnMemory
<1> QED BY <1>1, SpecInv, PTL

(* The memory of uplink SDUs and of PDUs is always found and deleted: only that*)
(* of downlink SDUs, which two threads count, is ever lost.                    *)
THEOREM SpecOnlyDownSdusLeak ==
  Spec => []OnlyDownSdusLeak
<1>1. Inv => OnlyDownSdusLeak
  BY DEF Inv, MemoryInv, FoundOK, OnlyDownSdusLeak
<1> QED BY <1>1, SpecInv, PTL
=============================================================================
