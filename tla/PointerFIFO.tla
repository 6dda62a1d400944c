------------------------------ MODULE PointerFIFO ------------------------------
(* The queue inside InterthreadQueue (Utilities/LinkedLists.h and .cpp): a      *)
(* linked list with a pointer to either end, and a pool of nodes that were used *)
(* before.  One operator per member function, from list to list.                *)
EXTENDS Integers

CONSTANTS Node,   \* list nodes new ListNode may return
          Item,   \* what the queue holds pointers to
          NULL

Fifo == [mHead : Node \cup {NULL}, mTail : Node \cup {NULL}, mFreeList : Node \cup {NULL},
         mSize : Nat, nodes : SUBSET Node,
         next : [Node -> Node \cup {NULL}], data : [Node -> Item \cup {NULL}]]

EmptyFifo ==
  [mHead |-> NULL, mTail |-> NULL, mFreeList |-> NULL, mSize |-> 0, nodes |-> {},
   next |-> [n \in Node |-> NULL], data |-> [n \in Node |-> NULL]]

(* The node allocate returns: the first of the pool, or a new one.             *)
NodeFor(q) == IF q.mFreeList # NULL THEN q.mFreeList ELSE CHOOSE n \in Node : n \notin q.nodes

(* Not all nodes are in use; how many there are is a bound.                    *)
CanAllocate(q) == q.mFreeList # NULL \/ q.nodes # Node

allocate(q) ==
  [q EXCEPT !.mFreeList = IF q.mFreeList # NULL THEN q.next[q.mFreeList] ELSE NULL,
            !.nodes = @ \cup {NodeFor(q)}]

put(q, val) ==
  LET node == NodeFor(q)
      linked == [allocate(q).next EXCEPT ![node] = NULL]
  IN [allocate(q) EXCEPT
        !.data = [@ EXCEPT ![node] = val],
        !.next = IF q.mTail # NULL THEN [linked EXCEPT ![q.mTail] = node] ELSE linked,
        !.mTail = node,
        !.mHead = IF @ = NULL THEN node ELSE @,
        !.mSize = @ + 1]

(* What get returns: NULL for an empty list.                                   *)
Front(q) == IF q.mHead = NULL THEN NULL ELSE q.data[q.mHead]

release(q, node) == [q EXCEPT !.next = [@ EXCEPT ![node] = q.mFreeList], !.mFreeList = node]

badGet(q) ==      \* mTail is left pointing to the node released
  IF q.mHead = NULL THEN q
  ELSE [release(q, q.mHead) EXCEPT !.mHead = q.next[q.mHead], !.mSize = @ - 1]

badGetEmpty(q) ==      \* mSize is decremented before the list is looked at
  IF q.mHead = NULL THEN [q EXCEPT !.mSize = @ - 1]
  ELSE [release(q, q.mHead) EXCEPT
          !.mHead = q.next[q.mHead],
          !.mTail = IF q.next[q.mHead] = NULL THEN NULL ELSE @,
          !.mSize = @ - 1]

get(q) ==
  IF q.mHead = NULL THEN q
  ELSE [release(q, q.mHead) EXCEPT
          !.mHead = q.next[q.mHead],
          !.mTail = IF q.next[q.mHead] = NULL THEN NULL ELSE @,
          !.mSize = @ - 1]
=============================================================================
