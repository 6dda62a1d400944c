---------------------------- MODULE InterthreadQueue ----------------------------
(* The queue between threads (Utilities/Interthread.h, with Mutex and Signal of *)
(* Threads.h): a PointerFIFO under mLock, and a condition variable on which     *)
(* readers of an empty queue wait.  What a thread does under mLock is one step; *)
(* a writer signals after it has released the lock, in a step of its own.       *)
EXTENDS PointerFIFO

CONSTANTS Queue,   \* the InterthreadQueue objects of the program
          Reader   \* threads that read

VARIABLES mQ,       \* the list of each queue
          waiting,  \* the readers blocked on the signal of each queue
          reading,  \* where each reader is in read()
          retVal    \* what read() has returned to each reader

QueueTypeOK ==
  /\ mQ \in [Queue -> Fifo]
  /\ waiting \in [Queue -> SUBSET Reader]
  /\ reading \in [Reader -> {"out", "waits", "returned"}]
  /\ retVal \in [Reader -> Item \cup {NULL}]

QueueInit ==
  /\ mQ = [q \in Queue |-> EmptyFifo]
  /\ waiting = [q \in Queue |-> {}]
  /\ reading = [r \in Reader |-> "out"]
  /\ retVal = [r \in Reader |-> NULL]

(* Reader r holds mLock of q: it takes the first item, or waits, which         *)
(* releases the lock.                                                          *)
GetOrWait(r, q) ==
  /\ mQ' = [mQ EXCEPT ![q] = get(@)]
  /\ IF Front(mQ[q]) = NULL
     THEN /\ waiting' = [waiting EXCEPT ![q] = @ \cup {r}]
          /\ reading' = [reading EXCEPT ![r] = "waits"]
          /\ UNCHANGED retVal
     ELSE /\ retVal' = [retVal EXCEPT ![r] = Front(mQ[q])]
          /\ reading' = [reading EXCEPT ![r] = "returned"]
          /\ UNCHANGED waiting

ReadCalled(r, q) == reading[r] = "out" /\ GetOrWait(r, q)

(* After the signal, or a spurious return of pthread_cond_wait, the loop of    *)
(* read() tries again.                                                         *)
ReadWakes(r, q) == reading[r] = "waits" /\ r \notin waiting[q] /\ GetOrWait(r, q)

SpuriousReturn(r, q) ==
  /\ r \in waiting[q]
  /\ waiting' = [waiting EXCEPT ![q] = @ \ {r}]
  /\ UNCHANGED <<mQ, reading, retVal>>

badSignal(q) == UNCHANGED <<mQ, waiting, reading, retVal>>      \* nobody is woken

(* write(): put under mLock ...                                                *)
Write(q, val) ==
  /\ CanAllocate(mQ[q])
  /\ mQ' = [mQ EXCEPT ![q] = put(@, val)]
  /\ UNCHANGED <<waiting, reading, retVal>>

(* ... and signal without it, which wakes one of the readers that wait, if any.*)
Signal(q) ==
  /\ \/ waiting[q] = {} /\ UNCHANGED waiting
     \/ \E r \in waiting[q] : waiting' = [waiting EXCEPT ![q] = @ \ {r}]
  /\ UNCHANGED <<mQ, reading, retVal>>

Released(r) ==
  /\ reading' = [reading EXCEPT ![r] = "out"]
  /\ retVal' = [retVal EXCEPT ![r] = NULL]
  /\ UNCHANGED <<mQ, waiting>>
=============================================================================
