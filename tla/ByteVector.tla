------------------------------ MODULE ByteVector ------------------------------
(* Octet vectors that share memory (Utilities/ByteVector.h and .cpp).  A        *)
(* vector points to a block that begins with a count of the vectors pointing to *)
(* it.  The count is a plain short: incRefCnt and decRefCnt read it and write   *)
(* it back, with no lock, so that each is a load and a later store here, and    *)
(* other threads act in between.                                                *)
EXTENDS Integers

CONSTANTS Thread,   \* the threads that call member functions
          Vec,      \* the vectors (objects of class ByteVector)
          Block,    \* blocks of memory new ByteType[] may return
          NULL

VARIABLES mData,    \* the block of each vector, or NULL
          refcnt,   \* the count at the start of each block
          heap,     \* blocks allocated and not yet deleted
          madeFor,  \* the vector each block was allocated for (history)
          call      \* what each thread has under way in a member function

NoCall == [op |-> "none", vec |-> NULL, loaded |-> 0]

Call == [op : {"none", "inc", "dec", "delete"}, vec : Vec \cup {NULL}, loaded : Int]

MemoryTypeOK ==
  /\ mData \in [Vec -> Block \cup {NULL}]
  /\ refcnt \in [Block -> Int]
  /\ heap \in SUBSET Block
  /\ madeFor \in [Block -> Vec \cup {NULL}]
  /\ call \in [Thread -> Call]

MemoryInit ==
  /\ mData = [v \in Vec |-> NULL]
  /\ refcnt = [b \in Block |-> 0]
  /\ heap = {}
  /\ madeFor = [b \in Block |-> NULL]
  /\ call = [t \in Thread |-> NoCall]

(* Thread t is in no member function.                                          *)
Idle(t) == call[t].op = "none"

(* Which of the free blocks it is makes no difference to a vector.             *)
NewBlock == CHOOSE b \in Block : b \notin heap

(* A constructor that allocates.  Running out of blocks is a bound.            *)
init(v) ==
  /\ heap # Block
  /\ mData' = [mData EXCEPT ![v] = NewBlock]
  /\ refcnt' = [refcnt EXCEPT ![NewBlock] = 1]
  /\ heap' = heap \cup {NewBlock}
  /\ madeFor' = [madeFor EXCEPT ![NewBlock] = v]
  /\ UNCHANGED call

Loading(t, v, op, b) == [call EXCEPT ![t] = [op |-> op, vec |-> v, loaded |-> refcnt[b]]]

badDup(t, v, w) ==      \* the copy is not counted
  /\ mData' = [mData EXCEPT ![v] = mData[w]]
  /\ UNCHANGED <<refcnt, heap, madeFor, call>>

(* Thread t makes v a duplicate of w (copy constructor, dup, segment): the     *)
(* pointer is copied and incRefCnt reads the count.                            *)
dup(t, v, w) ==
  /\ mData' = [mData EXCEPT ![v] = mData[w]]
  /\ call' = IF mData[w] = NULL THEN call ELSE Loading(t, v, "inc", mData[w])
  /\ UNCHANGED <<refcnt, heap, madeFor>>

(* Thread t releases the memory of v (clear, and the destructor): decRefCnt    *)
(* reads the count.                                                            *)
clear(t, v) ==
  /\ call' = IF mData[v] = NULL THEN call ELSE Loading(t, v, "dec", mData[v])
  /\ UNCHANGED <<mData, refcnt, heap, madeFor>>

Counted(c) == IF c.op = "inc" THEN c.loaded + 1 ELSE c.loaded - 1

badSetRefCnt(t) ==      \* delete[] only when the count is below zero
  LET c == call[t]
      last == c.op = "dec" /\ Counted(c) < 0
  IN /\ c.op \in {"inc", "dec"}
     /\ refcnt' = [refcnt EXCEPT ![mData[c.vec]] = Counted(c)]
     /\ call' = [call EXCEPT ![t] = IF last THEN [c EXCEPT !.op = "delete"] ELSE NoCall]
     /\ mData' = IF c.op = "dec" /\ ~last THEN [mData EXCEPT ![c.vec] = NULL] ELSE mData
     /\ UNCHANGED <<heap, madeFor>>

(* The store of incRefCnt or decRefCnt.  clear goes on to delete[] if the      *)
(* value it stored is not positive, else it is done with the memory.           *)
setRefCnt(t) ==
  LET c == call[t]
      last == c.op = "dec" /\ Counted(c) <= 0
  IN /\ c.op \in {"inc", "dec"}
     /\ refcnt' = [refcnt EXCEPT ![mData[c.vec]] = Counted(c)]
     /\ call' = [call EXCEPT ![t] = IF last THEN [c EXCEPT !.op = "delete"] ELSE NoCall]
     /\ mData' = IF c.op = "dec" /\ ~last THEN [mData EXCEPT ![c.vec] = NULL] ELSE mData
     /\ UNCHANGED <<heap, madeFor>>

deleteData(t) ==
  LET c == call[t]
  IN /\ c.op = "delete"
     /\ heap' = heap \ {mData[c.vec]}
     /\ mData' = [mData EXCEPT ![c.vec] = NULL]
     /\ call' = [call EXCEPT ![t] = NoCall]
     /\ UNCHANGED <<refcnt, madeFor>>
=============================================================================
