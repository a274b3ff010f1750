---------------------------- MODULE QueueProofs ----------------------------
(***************************************************************************)
(* The invariants of Queue for any number of threads, items and calls, and *)
(* that it implements FifoQueue.                                           *)
(*                                                                         *)
(* None of TypeOK, ListShape and TokenCount is inductive alone.  That a    *)
(* pop finds an item follows from the token count, the token count needs   *)
(* that the list is not touched by two threads at a time, that needs the   *)
(* mutex, and what the list looks like while invalidate_queue() takes it   *)
(* apart has to be said node by node.                                      *)
(***************************************************************************)
EXTENDS Queue, TLAPS, FiniteSetTheorems, SequenceTheorems

Locked == {"enq_link", "enq_post", "deq_pop", "inv_begin", "inv_loop", "unlock"}

\* Only the holder of the mutex is in a critical section.
LockInv == \A t \in Threads : pc[t] \in Locked => lock = t

\* What is to be enqueued is not NULL.
ArgInv == \A t \in Threads : pc[t] \in {"enq_lock", "enq_link"} => arg[t] \in Items

\* The list before, while and after invalidate_queue() destroys it.
Whole == ~invalid /\ ~Destroying => DOMAIN nodes = rear .. front /\ destroyed = <<>>
Partial == \A k \in Closers : pc[k] = "inv_loop" =>
    /\ ~invalid
    /\ curr[k] # NULL => /\ curr[k] \in rear .. front
                         /\ DOMAIN nodes = curr[k] .. front
                         /\ Len(destroyed) = curr[k] - rear
    /\ curr[k] = NULL => /\ DOMAIN nodes = {}
                         /\ Len(destroyed) = front - rear + 1
Destroyed == invalid => DOMAIN nodes = {} /\ Len(destroyed) = front - rear + 1

ShapeInv == /\ rear <= front
            /\ Whole
            /\ Partial
            /\ Destroyed
            /\ Chained
            /\ OnlyFrontEmpty

IInv == /\ TypeOK
        /\ LockInv
        /\ ArgInv
        /\ ShapeInv
        /\ TokenCount
-----------------------------------------------------------------------------
(* Facts the steps share                                                   *)

\* The sets TokenCount counts are finite.
LEMMA CountedAreFinite ==
    /\ IsFiniteSet(Holding) /\ Cardinality(Holding) \in Nat
    /\ IsFiniteSet(Owing) /\ Cardinality(Owing) \in Nat
<1>1. Holding \in SUBSET Threads /\ Owing \in SUBSET Threads
  BY DEF Holding, Owing
<1>2. IsFiniteSet(Holding) /\ IsFiniteSet(Owing)
  BY <1>1, FiniteAssumption, FS_Subset
<1> QED
  BY <1>2, FS_CardinalityType

\* A step that leaves the list and the semaphore alone, and is not at a place that
\* either invariant looks at, preserves both.
LEMMA QuietStep ==
    ASSUME IInv, NEW t \in Threads, NEW to \in PCs,
           pc' = [pc EXCEPT ![t] = to],
           pc[t] # "inv_loop", to # "inv_loop",
           UNCHANGED <<list, items, invalid>>,
           \/ invalid
           \/ /\ pc[t] \in {"deq_lock", "deq_pop"} <=> to \in {"deq_lock", "deq_pop"}
              /\ pc[t] # "enq_post" /\ to # "enq_post"
    PROVE  ShapeInv' /\ TokenCount'
<1> USE DEF IInv, TypeOK
<1>1. \A k \in Closers : pc'[k] = "inv_loop" <=> pc[k] = "inv_loop"
  BY DEF Threads
<1>2. Destroying' <=> Destroying
  BY <1>1 DEF Destroying
<1>3. ShapeInv'
  <2>1. Whole' /\ Destroyed'
    BY <1>2 DEF ShapeInv, Whole, Destroyed, list
  <2>2. Partial'
    BY <1>1 DEF ShapeInv, Partial, list
  <2>3. Chained' /\ OnlyFrontEmpty'
    BY DEF ShapeInv, Chained, OnlyFrontEmpty, list, Node
  <2> QED
    BY <2>1, <2>2, <2>3 DEF ShapeInv, list
<1>4. TokenCount'
  <2>1. CASE invalid
    BY <2>1 DEF TokenCount
  <2>2. CASE ~invalid
    <3>1. Holding' = Holding /\ Owing' = Owing
      BY <2>2 DEF Holding, Owing
    <3> QED
      BY <3>1 DEF TokenCount, list
  <2> QED
    BY <2>1, <2>2
<1> QED
  BY <1>3, <1>4

\* The mutex is free or held by the thread that moves.
LEMMA LockStep ==
    ASSUME IInv, NEW t \in Threads, NEW to \in PCs,
           pc' = [pc EXCEPT ![t] = to],
           \/ pc[t] \in Locked /\ to \in Locked /\ lock' = lock
           \/ to \notin Locked /\ lock' = lock
           \/ pc[t] \in Locked /\ to \notin Locked
           \/ lock = NULL /\ lock' = t
    PROVE  LockInv'
BY NullAssumption DEF IInv, TypeOK, LockInv

\* Taking the mutex: nobody else is in a critical section then.
LEMMA AcquireStep ==
    ASSUME IInv, NEW t \in Threads, NEW from \in PCs, NEW to \in PCs,
           Acquire(t, from, to),
           from # "inv_loop", to # "inv_loop",
           from \in {"deq_lock", "deq_pop"} <=> to \in {"deq_lock", "deq_pop"},
           from # "enq_post", to # "enq_post",
           to = "enq_link" => from = "enq_lock", to # "enq_lock"
    PROVE  IInv'
<1> USE DEF Acquire, Goto
<1>1. ShapeInv' /\ TokenCount'
  BY QuietStep
<1>2. TypeOK'
  BY DEF IInv, TypeOK, list
<1>3. LockInv'
  BY LockStep
<1>4. ArgInv'
  BY DEF IInv, TypeOK, ArgInv
<1> QED
  BY <1>1, <1>2, <1>3, <1>4 DEF IInv
-----------------------------------------------------------------------------
(* Steps that do not touch the list                                        *)

\* The three places where the mutex is taken.
LEMMA AcquireActions ==
    ASSUME IInv, NEW t \in Threads,
           EnqueueLock(t) \/ DequeueLock(t) \/ InvalidateLock(t)
    PROVE  IInv'
<1>1. CASE EnqueueLock(t)
  BY <1>1, AcquireStep DEF EnqueueLock, PCs
<1>2. CASE DequeueLock(t)
  BY <1>2, AcquireStep DEF DequeueLock, PCs
<1>3. CASE InvalidateLock(t)
  BY <1>3, AcquireStep DEF InvalidateLock, PCs
<1> QED
  BY <1>1, <1>2, <1>3

\* Giving it back behind the work on the list.
LEMMA UnlockStep ==
    ASSUME IInv, NEW t \in Threads, Unlock(t)
    PROVE  IInv'
<1> USE DEF Unlock, Goto
<1>1. ShapeInv' /\ TokenCount'
  BY QuietStep DEF PCs
<1>2. TypeOK'
  BY DEF IInv, TypeOK, list, PCs
<1>3. LockInv'
  BY LockStep DEF PCs, Locked
<1>4. ArgInv'
  BY DEF IInv, TypeOK, ArgInv
<1> QED
  BY <1>1, <1>2, <1>3, <1>4 DEF IInv

\* The early return on an invalid queue gives it back too.
LEMMA RejectStep ==
    ASSUME IInv, NEW t \in Threads, Reject(t)
    PROVE  IInv'
<1> USE DEF Reject, Return
<1>1. ShapeInv' /\ TokenCount'
  BY QuietStep DEF PCs
<1>2. TypeOK'
  BY DEF IInv, TypeOK, list, PCs, Results
<1>3. LockInv'
  BY LockStep DEF PCs, Locked
<1>4. ArgInv'
  BY DEF IInv, TypeOK, ArgInv
<1> QED
  BY <1>1, <1>2, <1>3, <1>4 DEF IInv

\* A call of enqueue() brings an item along,
LEMMA EnqueueCallStep ==
    ASSUME IInv, NEW p \in Producers, EnqueueCall(p)
    PROVE  IInv'
<1> USE DEF EnqueueCall, Goto
<1>0. p \in Threads
  BY DEF Threads
<1>1. ShapeInv' /\ TokenCount'
  BY <1>0, QuietStep DEF PCs
<1>2. TypeOK'
  BY <1>0 DEF IInv, TypeOK, list, PCs
<1>3. LockInv'
  BY <1>0, LockStep DEF PCs, Locked
<1>4. ArgInv'
  BY <1>0 DEF IInv, TypeOK, ArgInv
<1> QED
  BY <1>1, <1>2, <1>3, <1>4 DEF IInv

\* the other calls bring nothing.
LEMMA CallStep ==
    ASSUME IInv, NEW t \in Threads, DequeueCall(t) \/ InvalidateCall(t)
    PROVE  IInv'
<1> USE DEF DequeueCall, InvalidateCall, Goto
<1>1. ShapeInv' /\ TokenCount'
  BY QuietStep DEF PCs
<1>2. TypeOK'
  BY DEF IInv, TypeOK, list, PCs
<1>3. LockInv'
  BY LockStep DEF PCs, Locked
<1>4. ArgInv'
  BY DEF IInv, TypeOK, ArgInv
<1> QED
  BY <1>1, <1>2, <1>3, <1>4 DEF IInv
-----------------------------------------------------------------------------
(* enqueue() and dequeue()                                                 *)

\* While a producer or a consumer holds the mutex nobody destroys the list.
LEMMA HolderAlone ==
    ASSUME IInv, NEW t \in Threads, pc[t] \in Locked, pc[t] # "inv_loop"
    PROVE  ~Destroying
BY DEF IInv, LockInv, Locked, Destroying, Threads

\* enqueue() fills the empty node and hangs a new one behind it; it owes a token from
\* then on,
LEMMA EnqueueLinkStep ==
    ASSUME IInv, NEW p \in Producers, EnqueueLink(p)
    PROVE  IInv'
<1> USE DEF EnqueueLink, Goto, Return
<1>0. p \in Threads /\ pc[p] = "enq_link"
  BY DEF Threads
<1>1. ~Destroying /\ ~Destroying' /\ (\A k \in Closers : pc'[k] # "inv_loop")
  <2>1. ~Destroying
    BY <1>0, HolderAlone DEF Locked
  <2> QED
    BY <1>0, <2>1 DEF IInv, TypeOK, Destroying, Threads
<1>2. DOMAIN nodes = rear .. front /\ destroyed = <<>> /\ rear <= front
  BY <1>1 DEF IInv, ShapeInv, Whole
<1>3. front \in Nat /\ rear \in Nat /\ arg[p] \in Items
  BY <1>0 DEF IInv, TypeOK, ArgInv
<1>4. TypeOK'
  <2>1. DOMAIN nodes' \subseteq Nat
    BY <1>2, <1>3
  <2>2. nodes' \in [DOMAIN nodes' -> [item : Items \cup {NULL}, next : Nat \cup {NULL}]]
    BY <1>2, <1>3 DEF IInv, TypeOK, Node
  <2> QED
    BY <1>0, <1>3, <2>1, <2>2 DEF IInv, TypeOK, PCs, Results
<1>5. LockInv'
  BY <1>0, LockStep DEF PCs, Locked
<1>6. ArgInv'
  BY <1>0 DEF IInv, TypeOK, ArgInv
<1>7. ShapeInv'
  <2>1. DOMAIN nodes' = rear' .. front'
    BY <1>2, <1>3
  <2>2. Chained'
    BY <1>2, <1>3, NullAssumption DEF IInv, ShapeInv, Chained, Node
  <2>3. OnlyFrontEmpty'
    BY <1>2, <1>3, NullAssumption DEF IInv, ShapeInv, OnlyFrontEmpty, Node
  <2> QED
    BY <1>1, <1>2, <1>3, <2>1, <2>2, <2>3
       DEF ShapeInv, Whole, Partial, Destroyed
<1>8. TokenCount'
  <2>1. Owing' = Owing \cup {p} /\ p \notin Owing /\ Holding' = Holding
    BY <1>0 DEF IInv, TypeOK, Owing, Holding
  <2>2. Cardinality(Owing') = Cardinality(Owing) + 1
    BY <2>1, CountedAreFinite, FS_AddElement
  <2> QED
    BY <1>3, <2>1, <2>2, CountedAreFinite DEF IInv, TypeOK, TokenCount
<1> QED
  BY <1>4, <1>5, <1>6, <1>7, <1>8 DEF IInv

\* which it pays when it posts the semaphore.
LEMMA EnqueuePostStep ==
    ASSUME IInv, NEW p \in Producers, EnqueuePost(p)
    PROVE  IInv'
<1> USE DEF EnqueuePost, Goto, list
<1>0. p \in Threads /\ pc[p] = "enq_post"
  BY DEF Threads
<1>1. \A k \in Closers : pc'[k] = "inv_loop" <=> pc[k] = "inv_loop"
  BY <1>0 DEF IInv, TypeOK, Threads
<1>2. TypeOK'
  BY <1>0 DEF IInv, TypeOK, PCs
<1>3. LockInv'
  BY <1>0, LockStep DEF PCs, Locked
<1>4. ArgInv'
  BY <1>0 DEF IInv, TypeOK, ArgInv
<1>5. ShapeInv'
  <2>1. Whole' /\ Partial' /\ Destroyed'
    BY <1>1 DEF IInv, ShapeInv, Whole, Partial, Destroyed, Destroying
  <2>2. Chained' /\ OnlyFrontEmpty'
    BY DEF IInv, ShapeInv, Chained, OnlyFrontEmpty, Node
  <2> QED
    BY <2>1, <2>2 DEF IInv, ShapeInv
<1>6. TokenCount'
  <2>1. Owing' = Owing \ {p} /\ p \in Owing /\ Holding' = Holding
    BY <1>0 DEF IInv, TypeOK, Owing, Holding
  <2>2. Cardinality(Owing') = Cardinality(Owing) - 1
    BY <2>1, CountedAreFinite, FS_RemoveElement
  <2>3. front' = front /\ rear' = rear /\ items' = items + 1 /\ invalid' = invalid
    OBVIOUS
  <2>4. items \in Nat /\ front \in Nat /\ rear \in Nat /\ TokenCount
    BY DEF IInv, TypeOK
  <2>5. Cardinality(Holding) \in Nat /\ Cardinality(Owing) \in Nat
    BY CountedAreFinite
  <2>6. Cardinality(Holding') = Cardinality(Holding)
    BY <2>1
  <2> HIDE DEF EnqueuePost
  <2> QED
    BY <2>2, <2>3, <2>4, <2>5, <2>6 DEF TokenCount
<1> QED
  BY <1>2, <1>3, <1>4, <1>5, <1>6 DEF IInv

\* A consumer let past the semaphore holds a token.
LEMMA DequeueWaitStep ==
    ASSUME IInv, NEW c \in Consumers, DequeueWait(c)
    PROVE  IInv'
<1> USE DEF DequeueWait, Goto, list
<1>0. c \in Threads /\ pc[c] = "deq_wait"
  BY DEF Threads
<1>1. \A k \in Closers : pc'[k] = "inv_loop" <=> pc[k] = "inv_loop"
  BY <1>0 DEF IInv, TypeOK, Threads
<1>2. TypeOK'
  BY <1>0 DEF IInv, TypeOK, PCs
<1>3. LockInv'
  BY <1>0, LockStep DEF PCs, Locked
<1>4. ArgInv'
  BY <1>0 DEF IInv, TypeOK, ArgInv
<1>5. ShapeInv'
  <2>1. Whole' /\ Partial' /\ Destroyed'
    BY <1>1 DEF IInv, ShapeInv, Whole, Partial, Destroyed, Destroying
  <2>2. Chained' /\ OnlyFrontEmpty'
    BY DEF IInv, ShapeInv, Chained, OnlyFrontEmpty, Node
  <2> QED
    BY <2>1, <2>2 DEF IInv, ShapeInv
<1>6. TokenCount'
  <2>1. Holding' = Holding \cup {c} /\ c \notin Holding /\ Owing' = Owing
    BY <1>0 DEF IInv, TypeOK, Owing, Holding
  <2>2. Cardinality(Holding') = Cardinality(Holding) + 1
    BY <2>1, CountedAreFinite, FS_AddElement
  <2>3. front' = front /\ rear' = rear /\ items' = items - 1 /\ invalid' = invalid
    OBVIOUS
  <2>4. items \in Nat /\ front \in Nat /\ rear \in Nat /\ TokenCount
    BY DEF IInv, TypeOK
  <2>5. Cardinality(Holding) \in Nat /\ Cardinality(Owing) \in Nat
    BY CountedAreFinite
  <2>6. Cardinality(Owing') = Cardinality(Owing)
    BY <2>1
  <2> HIDE DEF DequeueWait
  <2> QED
    BY <2>2, <2>3, <2>4, <2>5, <2>6 DEF TokenCount
<1> QED
  BY <1>2, <1>3, <1>4, <1>5, <1>6 DEF IInv

\* Behind the semaphore and the mutex the list has an item: the token the consumer
\* took is counted.
LEMMA ItemAtRear ==
    ASSUME IInv, NEW t \in Threads, pc[t] = "deq_pop", ~invalid
    PROVE  /\ DOMAIN nodes = rear .. front
           /\ destroyed = <<>>
           /\ rear < front
           /\ nodes[rear].item \in Items
           /\ nodes[rear].next = rear + 1
<1>1. ~Destroying
  BY HolderAlone DEF Locked
<1>2. DOMAIN nodes = rear .. front /\ destroyed = <<>>
  BY <1>1 DEF IInv, ShapeInv, Whole
<1>3. front \in Nat /\ rear \in Nat /\ items \in Nat
  BY DEF IInv, TypeOK
<1>4. rear < front
  <2>1. Holding # {}
    BY DEF Holding
  <2>2. Cardinality(Holding) # 0
    BY <2>1, CountedAreFinite, FS_EmptySet
  <2>3. items + Cardinality(Holding) = (front - rear) - Cardinality(Owing)
    BY DEF IInv, TokenCount
  <2>4. Cardinality(Holding) \in Nat /\ Cardinality(Owing) \in Nat
    BY CountedAreFinite
  <2> QED
    BY <1>3, <2>2, <2>3, <2>4
<1>5. rear \in DOMAIN nodes /\ rear # front
  BY <1>2, <1>3, <1>4
<1>6. nodes[rear].item \in Items
  <2>1. nodes[rear].item \in Items \cup {NULL}
    BY <1>5 DEF IInv, TypeOK
  <2> QED
    BY <1>5, <2>1 DEF IInv, ShapeInv, OnlyFrontEmpty
<1>7. nodes[rear].next = rear + 1
  BY <1>5 DEF IInv, ShapeInv, Chained, Node
<1> QED
  BY <1>2, <1>4, <1>6, <1>7

\* It takes the node at the rear, where its token has its item.
LEMMA DequeuePopStep ==
    ASSUME IInv, NEW c \in Consumers, DequeuePop(c)
    PROVE  IInv'
<1> USE DEF DequeuePop, Goto, Return
<1>0. c \in Threads /\ pc[c] = "deq_pop"
  BY DEF Threads
<1>1. ~Destroying' /\ (\A k \in Closers : pc'[k] # "inv_loop")
  <2>1. ~Destroying
    BY <1>0, HolderAlone DEF Locked
  <2> QED
    BY <1>0, <2>1 DEF IInv, TypeOK, Destroying, Threads
<1>2. /\ DOMAIN nodes = rear .. front /\ destroyed = <<>> /\ rear < front
      /\ nodes[rear].item \in Items /\ nodes[rear].next = rear + 1
  BY <1>0, ItemAtRear
<1>3. front \in Nat /\ rear \in Nat /\ items \in Nat
  BY DEF IInv, TypeOK
<1>4. TypeOK'
  <2>1. nodes' \in [DOMAIN nodes' -> [item : Items \cup {NULL}, next : Nat \cup {NULL}]]
    BY DEF IInv, TypeOK
  <2> QED
    BY <1>0, <1>2, <1>3, <2>1 DEF IInv, TypeOK, PCs, Results
<1>5. LockInv'
  BY <1>0, LockStep DEF PCs, Locked
<1>6. ArgInv'
  BY <1>0 DEF IInv, TypeOK, ArgInv
<1>7. ShapeInv'
  <2>1. DOMAIN nodes' = rear' .. front'
    BY <1>2, <1>3
  <2>2. Chained' /\ OnlyFrontEmpty'
    BY DEF IInv, ShapeInv, Chained, OnlyFrontEmpty, Node
  <2> QED
    BY <1>1, <1>2, <1>3, <2>1, <2>2 DEF ShapeInv, Whole, Partial, Destroyed
<1>8. TokenCount'
  <2>1. Holding' = Holding \ {c} /\ c \in Holding /\ Owing' = Owing
    BY <1>0 DEF IInv, TypeOK, Owing, Holding
  <2>2. Cardinality(Holding') = Cardinality(Holding) - 1
    BY <2>1, CountedAreFinite, FS_RemoveElement
  <2>3. front' = front /\ rear' = rear + 1 /\ items' = items /\ invalid' = invalid
    BY <1>2
  <2>4. TokenCount
    BY DEF IInv
  <2>5. Cardinality(Holding) \in Nat /\ Cardinality(Owing) \in Nat
    BY CountedAreFinite
  <2>6. Cardinality(Owing') = Cardinality(Owing)
    BY <2>1
  <2> HIDE DEF DequeuePop
  <2> QED
    BY <1>3, <2>2, <2>3, <2>4, <2>5, <2>6 DEF TokenCount
<1> QED
  BY <1>4, <1>5, <1>6, <1>7, <1>8 DEF IInv
-----------------------------------------------------------------------------
(* invalidate_queue()                                                      *)

\* The sets TokenCount counts do not change while a closer moves.
LEMMA CloserCounts ==
    ASSUME IInv, NEW k \in Closers, NEW to \in PCs,
           pc' = [pc EXCEPT ![k] = to],
           pc[k] \in {"inv_begin", "inv_loop"}, to \in {"inv_loop", "unlock"}
    PROVE  Holding' = Holding /\ Owing' = Owing
BY DEF IInv, TypeOK, Holding, Owing, Threads

\* invalidate_queue() starts at the rear,
LEMMA InvalidateBeginStep ==
    ASSUME IInv, NEW k \in Closers, InvalidateBegin(k)
    PROVE  IInv'
<1> USE DEF InvalidateBegin, Goto
<1>0. k \in Threads /\ pc[k] = "inv_begin" /\ pc'[k] = "inv_loop"
  BY DEF IInv, TypeOK, Threads
<1>1. ~Destroying
  BY <1>0, HolderAlone DEF Locked
<1>2. \A j \in Closers : pc'[j] = "inv_loop" => j = k
  BY <1>1 DEF IInv, TypeOK, Destroying, Threads
<1>3. Destroying'
  BY <1>0 DEF Destroying
<1>4. TypeOK'
  BY <1>0 DEF IInv, TypeOK, PCs
<1>5. LockInv'
  BY <1>0, LockStep DEF PCs, Locked
<1>6. ArgInv'
  BY <1>0 DEF IInv, TypeOK, ArgInv
<1>7. ShapeInv'
  <2>1. /\ DOMAIN nodes = rear .. front /\ destroyed = <<>> /\ rear <= front
        /\ rear \in Nat /\ front \in Nat /\ curr'[k] = rear
    BY <1>1 DEF IInv, TypeOK, ShapeInv, Whole
  <2>2. Partial'
    BY <1>2, <2>1, NullAssumption DEF Partial
  <2>3. Chained' /\ OnlyFrontEmpty'
    BY DEF IInv, ShapeInv, Chained, OnlyFrontEmpty, Node
  <2> QED
    BY <1>3, <2>1, <2>2, <2>3 DEF IInv, ShapeInv, Whole, Destroyed
<1>8. TokenCount'
  BY CloserCounts DEF IInv, TokenCount, PCs
<1> QED
  BY <1>4, <1>5, <1>6, <1>7, <1>8 DEF IInv

\* frees a node a turn, and its item,
LEMMA InvalidateNodeStep ==
    ASSUME IInv, NEW k \in Closers, InvalidateNode(k)
    PROVE  IInv'
<1> USE DEF InvalidateNode
<1>0. k \in Threads /\ pc[k] = "inv_loop" /\ curr[k] # NULL
  BY DEF Threads
<1>1. \A j \in Closers : pc[j] = "inv_loop" => j = k
  BY <1>0 DEF IInv, LockInv, Locked, Threads
<1>2. /\ ~invalid /\ curr[k] \in rear .. front /\ DOMAIN nodes = curr[k] .. front
      /\ Len(destroyed) = curr[k] - rear
  BY <1>0 DEF IInv, ShapeInv, Partial
<1>3. rear \in Nat /\ front \in Nat /\ curr[k] \in Nat /\ curr[k] \in DOMAIN nodes
  BY <1>2 DEF IInv, TypeOK
<1>4. /\ nodes[curr[k]].next = IF curr[k] = front THEN NULL ELSE curr[k] + 1
      /\ nodes[curr[k]].item \in Items \cup {NULL}
  BY <1>3 DEF IInv, TypeOK, ShapeInv, Chained, Node
<1>5. /\ destroyed' \in Seq(Items \cup {NULL})
      /\ Len(destroyed') = Len(destroyed) + 1
  BY <1>4 DEF IInv, TypeOK
<1>6. TypeOK'
  <2>1. nodes' \in [DOMAIN nodes' -> [item : Items \cup {NULL}, next : Nat \cup {NULL}]]
    BY DEF IInv, TypeOK
  <2> QED
    BY <1>3, <1>4, <1>5, <2>1 DEF IInv, TypeOK
<1>7. LockInv' /\ ArgInv'
  BY DEF IInv, LockInv, ArgInv
<1>8. ShapeInv'
  <2>1. Destroying'
    BY <1>0 DEF Destroying
  <2>2. curr'[k] = IF curr[k] = front THEN NULL ELSE curr[k] + 1
    BY <1>4 DEF IInv, TypeOK
  <2>3. Partial'
    <3>1. CASE curr[k] = front
      BY <1>1, <1>2, <1>3, <1>5, <2>2, <3>1 DEF Partial
    <3>2. CASE curr[k] # front
      BY <1>1, <1>2, <1>3, <1>5, <2>2, <3>2, NullAssumption DEF Partial
    <3> QED
      BY <3>1, <3>2
  <2>4. Chained' /\ OnlyFrontEmpty'
    BY DEF IInv, ShapeInv, Chained, OnlyFrontEmpty, Node
  <2> QED
    BY <1>2, <2>1, <2>3, <2>4 DEF IInv, ShapeInv, Whole, Destroyed
<1>9. TokenCount'
  BY DEF IInv, TokenCount, Holding, Owing
<1> QED
  BY <1>6, <1>7, <1>8, <1>9 DEF IInv

\* and sets invalid when none is left.
LEMMA InvalidateDoneStep ==
    ASSUME IInv, NEW k \in Closers, InvalidateDone(k)
    PROVE  IInv'
<1> USE DEF InvalidateDone, Goto, Return, list
<1>0. k \in Threads /\ pc[k] = "inv_loop" /\ curr[k] = NULL
  BY DEF Threads
<1>1. \A j \in Closers : pc'[j] # "inv_loop"
  BY <1>0 DEF IInv, TypeOK, LockInv, Locked, Threads
<1>2. DOMAIN nodes = {} /\ Len(destroyed) = front - rear + 1
  BY <1>0 DEF IInv, ShapeInv, Partial
<1>3. TypeOK'
  BY <1>0 DEF IInv, TypeOK, PCs, Results
<1>4. LockInv'
  BY <1>0, LockStep DEF PCs, Locked
<1>5. ArgInv'
  BY <1>0 DEF IInv, TypeOK, ArgInv
<1>6. ShapeInv'
  BY <1>1, <1>2 DEF IInv, ShapeInv, Whole, Partial, Destroyed, Chained, OnlyFrontEmpty
<1>7. TokenCount'
  BY DEF TokenCount
<1> QED
  BY <1>3, <1>4, <1>5, <1>6, <1>7 DEF IInv
-----------------------------------------------------------------------------
(* The invariant, and what follows from it                                 *)

\* The queue starts with one empty node.
LEMMA InitIInv == Init => IInv
<1> SUFFICES ASSUME Init PROVE IInv
  OBVIOUS
<1> USE DEF Init
<1>1. \A k \in Closers : pc[k] = "idle"
  BY DEF Threads
<1>2. TypeOK
  <2>1. /\ DOMAIN nodes = {0}
        /\ nodes \in [{0} -> [item : Items \cup {NULL}, next : Nat \cup {NULL}]]
    BY DEF Node
  <2>2. destroyed \in Seq(Items \cup {NULL})
    OBVIOUS
  <2>3. pc \in [Threads -> PCs] /\ ret \in [Threads -> Results]
    BY DEF PCs, Results
  <2>4. curr \in [Closers -> Nat \cup {NULL}] /\ arg \in [Threads -> Items \cup {NULL}]
    OBVIOUS
  <2>5. front \in Nat /\ rear \in Nat /\ items \in Nat /\ invalid \in BOOLEAN
    OBVIOUS
  <2>6. lock \in Threads \cup {NULL}
    OBVIOUS
  <2>7. DOMAIN nodes \subseteq Nat
    BY <2>1
  <2> HIDE DEF Init
  <2> QED
    BY <2>1, <2>2, <2>3, <2>4, <2>5, <2>6, <2>7 DEF TypeOK
<1>3. LockInv /\ ArgInv
  BY DEF LockInv, ArgInv, Locked
<1>4. ShapeInv
  BY <1>1 DEF ShapeInv, Whole, Partial, Destroyed, Destroying, Chained, OnlyFrontEmpty, Node
<1>5. TokenCount
  <2>1. Holding = {} /\ Owing = {}
    BY DEF Holding, Owing
  <2>2. Cardinality(Holding) = 0 /\ Cardinality(Owing) = 0
    BY <2>1, FS_EmptySet
  <2> QED
    BY <2>2 DEF TokenCount
<1> QED
  BY <1>2, <1>3, <1>4, <1>5 DEF IInv

\* A step that changes nothing keeps the invariant,
LEMMA StutterStep ==
    ASSUME IInv, UNCHANGED vars
    PROVE  IInv'
<1> USE DEF vars
<1>1. TypeOK' /\ LockInv' /\ ArgInv'
  BY DEF IInv, TypeOK, LockInv, ArgInv
<1>2. Whole' /\ Partial' /\ Destroyed'
  BY DEF IInv, ShapeInv, Whole, Partial, Destroyed, Destroying
<1>3. Chained' /\ OnlyFrontEmpty' /\ rear' <= front'
  BY DEF IInv, ShapeInv, Chained, OnlyFrontEmpty, Node
<1>4. TokenCount'
  BY DEF IInv, TokenCount, Holding, Owing
<1> QED
  BY <1>1, <1>2, <1>3, <1>4 DEF IInv, ShapeInv

\* and so does every other step.
LEMMA NextIInv == IInv /\ [Next]_vars => IInv'
<1> SUFFICES ASSUME IInv, [Next]_vars PROVE IInv'
  OBVIOUS
<1>0. Producers \cup Consumers \cup Closers = Threads
  BY DEF Threads
<1>1. ASSUME NEW p \in Producers, Producer(p) PROVE IInv'
  BY <1>0, <1>1, EnqueueCallStep, AcquireActions, EnqueueLinkStep, EnqueuePostStep
     DEF Producer
<1>2. ASSUME NEW c \in Consumers, Consumer(c) PROVE IInv'
  BY <1>0, <1>2, CallStep, DequeueWaitStep, AcquireActions, DequeuePopStep DEF Consumer
<1>3. ASSUME NEW k \in Closers, Closer(k) PROVE IInv'
  BY <1>0, <1>3, CallStep, AcquireActions, InvalidateBeginStep, InvalidateNodeStep,
     InvalidateDoneStep DEF Closer
<1>4. ASSUME NEW t \in Threads, Finish(t) PROVE IInv'
  BY <1>4, RejectStep, UnlockStep DEF Finish
<1>5. CASE UNCHANGED vars
  BY <1>5, StutterStep
<1> QED
  BY <1>1, <1>2, <1>3, <1>4, <1>5 DEF Next

\* The inductive invariant holds in every reachable state.
THEOREM Invariance == Spec => []IInv
<1> QED
  BY InitIInv, NextIInv, PTL DEF Spec

\* Every variable keeps its type, for any threads and items: no step of queue.c
\* takes the semaphore below zero or writes a node that was freed.
THEOREM TypeCorrect == Spec => []TypeOK
<1>1. IInv => TypeOK
  BY DEF IInv
<1> QED
  BY <1>1, Invariance, PTL

\* The allocated nodes are the chain from rear to front until invalidate_queue()
\* begins, and none afterwards (queue.c:22-82).
THEOREM ListIsWhole == Spec => []ListShape
<1>1. IInv => ListShape
  BY DEF IInv, ShapeInv, Whole, Destroyed, ListShape
<1> QED
  BY <1>1, Invariance, PTL

\* The semaphore counts the items no consumer is on its way to (queue.c:59, 69).
THEOREM TokensAreCounted == Spec => []TokenCount
<1>1. IInv => TokenCount
  BY DEF IInv
<1> QED
  BY <1>1, Invariance, PTL

\* A consumer past the semaphore and the mutex finds an item at the head, a
\* producer the empty node at the tail (queue.c:56, 76).
THEOREM PopsFindItems == Spec => []PopFindsItem
<1>1. IInv => PopFindsItem
  <2> SUFFICES ASSUME IInv, ~invalid PROVE PopFindsItem
    BY DEF PopFindsItem
  <2>1. ASSUME NEW c \in Consumers, pc[c] = "deq_pop"
        PROVE  rear \in DOMAIN nodes /\ nodes[rear].item # NULL
    <3>1. DOMAIN nodes = rear .. front /\ rear < front /\ nodes[rear].item \in Items
      BY <2>1, ItemAtRear DEF Threads
    <3>2. rear \in Nat /\ front \in Nat
      BY DEF IInv, TypeOK
    <3> QED
      BY <3>1, <3>2, NullAssumption
  <2>2. ASSUME NEW p \in Producers, pc[p] = "enq_link"
        PROVE  front \in DOMAIN nodes
    <3>1. ~Destroying
      BY <2>2, HolderAlone DEF Threads, Locked
    <3> QED
      BY <3>1 DEF IInv, TypeOK, ShapeInv, Whole
  <2> QED
    BY <2>1, <2>2 DEF PopFindsItem
<1> QED
  BY <1>1, Invariance, PTL

\* After invalidate_queue() the list is never touched again (queue.c:51, 71).
THEOREM InvalidStaysFinal == Spec => InvalidIsFinal
<1>1. IInv /\ [Next]_vars => (invalid => invalid' /\ UNCHANGED list)
  <2> SUFFICES ASSUME IInv, [Next]_vars, invalid PROVE invalid' /\ UNCHANGED list
    OBVIOUS
  <2>1. \A k \in Closers : pc[k] # "inv_loop"
    BY DEF IInv, ShapeInv, Partial
  <2>2. ASSUME NEW p \in Producers, Producer(p) PROVE invalid' /\ UNCHANGED list
    BY <2>2 DEF Producer, EnqueueCall, EnqueueLock, Acquire, EnqueueLink, EnqueuePost
  <2>3. ASSUME NEW c \in Consumers, Consumer(c) PROVE invalid' /\ UNCHANGED list
    BY <2>3 DEF Consumer, DequeueCall, DequeueWait, DequeueLock, Acquire, DequeuePop
  <2>4. ASSUME NEW k \in Closers, Closer(k) PROVE invalid' /\ UNCHANGED list
    BY <2>1, <2>4 DEF Closer, InvalidateCall, InvalidateLock, Acquire, InvalidateBegin,
                      InvalidateNode, InvalidateDone, Goto
  <2>5. ASSUME NEW t \in Threads, Finish(t) PROVE invalid' /\ UNCHANGED list
    BY <2>5 DEF Finish, Reject, Unlock
  <2>6. CASE UNCHANGED vars
    BY <2>6 DEF vars, list
  <2> QED
    BY <2>2, <2>3, <2>4, <2>5, <2>6 DEF Next
<1> QED
  BY <1>1, Invariance, PTL DEF Spec, InvalidIsFinal
-----------------------------------------------------------------------------
(* Queue implements FifoQueue: the linked list with its semaphore and its  *)
(* mutex is an atomic queue.  enqueue() takes effect when it links the new *)
(* node, dequeue() when it unlinks one, invalidate_queue() when it sets    *)
(* invalid; every other step stutters.                                     *)

Values == Items \cup {NULL}

\* What Pending and Discarded are, as sequences.
PendingShape ==
    /\ Pending \in Seq(Values)
    /\ Len(Pending) = IF invalid THEN 0 ELSE front - rear
    /\ \A k \in 1 .. Len(Pending) :
           Pending[k] = IF k <= Len(destroyed) THEN destroyed[k]
                                               ELSE nodes[rear + k - 1].item
DiscardedShape ==
    /\ Discarded \in Seq(Values)
    /\ Len(Discarded) = IF invalid THEN front - rear ELSE 0
    /\ \A k \in 1 .. Len(Discarded) : Discarded[k] = destroyed[k]

\* Whatever is not destroyed yet is still in the list.
LEMMA EntryIsValue ==
    ASSUME IInv, ~invalid, NEW k \in 1 .. front - rear
    PROVE  (IF k <= Len(destroyed) THEN destroyed[k]
                                   ELSE nodes[rear + k - 1].item) \in Values
<1>0. front \in Nat /\ rear \in Nat /\ k \in Nat
  BY DEF IInv, TypeOK
<1>1. destroyed \in Seq(Values) /\ Len(destroyed) \in Nat
  BY DEF IInv, TypeOK, Values
<1>2. CASE k <= Len(destroyed)
  BY <1>0, <1>1, <1>2, ElementOfSeq
<1>3. CASE ~(k <= Len(destroyed))
  <2>1. rear + k - 1 \in DOMAIN nodes
    <3>1. CASE ~Destroying
      BY <1>0, <3>1 DEF IInv, ShapeInv, Whole
    <3>2. CASE Destroying
      <4>1. PICK c \in Closers : pc[c] = "inv_loop"
        BY <3>2 DEF Destroying
      <4>2. CASE curr[c] = NULL
        BY <1>0, <1>1, <1>3, <4>1, <4>2 DEF IInv, ShapeInv, Partial
      <4>3. CASE curr[c] # NULL
        <5>1. curr[c] \in rear .. front /\ DOMAIN nodes = curr[c] .. front
          BY <4>1, <4>3 DEF IInv, ShapeInv, Partial
        <5>2. Len(destroyed) = curr[c] - rear
          BY <4>1, <4>3 DEF IInv, ShapeInv, Partial
        <5> QED
          BY <1>0, <1>3, <5>1, <5>2
      <4> QED
        BY <4>2, <4>3
    <3> QED
      BY <3>1, <3>2
  <2> QED
    BY <1>3, <2>1 DEF IInv, TypeOK, Values
<1> QED
  BY <1>2, <1>3

\* The mapped queue is a sequence: the items in the list from the rear on.
LEMMA PendingIsSeq == IInv => PendingShape
<1> SUFFICES ASSUME IInv PROVE PendingShape
  OBVIOUS
<1> DEFINE n == IF invalid THEN 0 ELSE front - rear
           e(k) == IF k <= Len(destroyed) THEN destroyed[k] ELSE nodes[rear + k - 1].item
<1>1. n \in Nat
  BY DEF IInv, TypeOK, ShapeInv
<1>2. \A k \in 1 .. n : e(k) \in Values
  BY EntryIsValue
<1>3. Pending = [k \in 1 .. n |-> e(k)]
  BY DEF Pending
<1> HIDE DEF n, e
<1>4. Pending \in Seq(Values) /\ Len(Pending) = n /\ \A k \in 1 .. n : Pending[k] = e(k)
  BY <1>1, <1>2, <1>3
<1> QED
  BY <1>4 DEF n, e, PendingShape

\* So are the items that were destroyed, with those a freed list still had.
LEMMA DiscardedIsSeq == IInv => DiscardedShape
<1> SUFFICES ASSUME IInv PROVE DiscardedShape
  OBVIOUS
<1> DEFINE n == IF invalid THEN front - rear ELSE 0
           e(k) == destroyed[k]
<1>1. n \in Nat
  BY DEF IInv, TypeOK, ShapeInv
<1>2. \A k \in 1 .. n : e(k) \in Values
  <2>1. destroyed \in Seq(Values)
    BY DEF IInv, TypeOK, Values
  <2>2. invalid => n + 1 = Len(destroyed)
    BY DEF IInv, ShapeInv, Destroyed
  <2> QED
    BY <1>1, <2>1, <2>2, ElementOfSeq
<1>3. Discarded = [k \in 1 .. n |-> e(k)]
  BY DEF Discarded
<1> HIDE DEF n, e
<1>4. Discarded \in Seq(Values) /\ Len(Discarded) = n /\ \A k \in 1 .. n : Discarded[k] = e(k)
  BY <1>1, <1>2, <1>3
<1> QED
  BY <1>4 DEF n, e, DiscardedShape
-----------------------------------------------------------------------------
(* The steps that take effect                                              *)

\* A step that leaves the list alone leaves the mapped queue alone.
LEMMA SameList ==
    ASSUME UNCHANGED <<nodes, front, rear, destroyed, invalid>>
    PROVE  Pending' = Pending /\ Discarded' = Discarded
BY DEF Pending, Discarded

\* Nothing is discarded before the queue is invalid.
LEMMA NothingDiscarded == DiscardedShape /\ ~invalid => Discarded = <<>>
BY EmptySeq DEF DiscardedShape

\* Linking a node is a put at the end of the mapped queue,
LEMMA LinkPuts ==
    ASSUME IInv, PendingShape, PendingShape', DiscardedShape, DiscardedShape',
           NEW p \in Producers, EnqueueLink(p)
    PROVE  Fifo!Put(p, arg[p]) /\ arg[p] \in Items
<1>0. p \in Threads /\ pc[p] = "enq_link" /\ ~invalid /\ invalid' = invalid
  BY DEF EnqueueLink, Goto, Threads
<1>1. ~Destroying
  BY <1>0, HolderAlone DEF Locked
<1>2. /\ DOMAIN nodes = rear .. front /\ destroyed = <<>> /\ rear <= front
      /\ front \in Nat /\ rear \in Nat
  BY <1>0, <1>1 DEF IInv, TypeOK, ShapeInv, Whole
<1>3. arg[p] \in Items
  BY <1>0 DEF IInv, ArgInv
<1>4. /\ front' = front + 1 /\ rear' = rear /\ destroyed' = destroyed
      /\ nodes'[front].item = arg[p]
      /\ \A a \in rear .. front - 1 : nodes'[a] = nodes[a]
  BY <1>2 DEF EnqueueLink, Node
<1>5. Pending' = Append(Pending, arg[p])
  <2>1. Len(Pending) = front - rear /\ Len(Pending') = front - rear + 1
    BY <1>0, <1>2, <1>4 DEF PendingShape
  <2>2. /\ Append(Pending, arg[p]) \in Seq(Values)
        /\ Len(Append(Pending, arg[p])) = front - rear + 1
        /\ \A k \in 1 .. front - rear : Append(Pending, arg[p])[k] = Pending[k]
        /\ Append(Pending, arg[p])[front - rear + 1] = arg[p]
    BY <1>3, <2>1, AppendProperties DEF PendingShape, Values
  <2>3. Len(destroyed) = 0
    BY <1>2
  <2>4. ASSUME NEW k \in 1 .. front - rear + 1
        PROVE  Pending'[k] = Append(Pending, arg[p])[k]
    <3>1. k \in Nat /\ ~(k <= Len(destroyed)) /\ ~(k <= Len(destroyed'))
      BY <1>2, <1>4, <2>3
    <3>2. Pending'[k] = nodes'[rear + k - 1].item
      BY <1>4, <2>1, <3>1 DEF PendingShape
    <3>3. CASE k = front - rear + 1
      BY <1>2, <1>4, <2>2, <3>2, <3>3
    <3>4. CASE k # front - rear + 1
      <4>1. k \in 1 .. front - rear /\ rear + k - 1 \in rear .. front - 1
        BY <1>2, <3>4
      <4>2. Pending[k] = nodes[rear + k - 1].item
        BY <2>1, <3>1, <4>1 DEF PendingShape
      <4> QED
        BY <1>4, <2>2, <3>2, <4>1, <4>2
    <3> QED
      BY <3>3, <3>4
  <2>5. Pending' \in Seq(Values)
    BY DEF PendingShape
  <2> QED
    BY <2>1, <2>2, <2>4, <2>5, SeqEqual
<1>6. Discarded' = Discarded
  BY <1>0, NothingDiscarded, EmptySeq DEF DiscardedShape
<1>7. ret' = [ret EXCEPT ![p] = OK]
  BY DEF EnqueueLink, Return
<1> QED
  BY <1>0, <1>3, <1>5, <1>6, <1>7 DEF Fifo!Put

\* unlinking one takes its head,
LEMMA PopTakes ==
    ASSUME IInv, PendingShape, PendingShape', DiscardedShape, DiscardedShape',
           NEW c \in Consumers, DequeuePop(c)
    PROVE  Fifo!Take(c)
<1>0. c \in Threads /\ pc[c] = "deq_pop" /\ ~invalid /\ invalid' = invalid
  BY DEF DequeuePop, Goto, Threads
<1>1. /\ DOMAIN nodes = rear .. front /\ destroyed = <<>> /\ rear < front
      /\ nodes[rear].next = rear + 1 /\ front \in Nat /\ rear \in Nat
  BY <1>0, ItemAtRear DEF IInv, TypeOK
<1>2. /\ front' = front /\ rear' = rear + 1 /\ destroyed' = destroyed
      /\ \A a \in rear + 1 .. front : nodes'[a] = nodes[a]
  BY <1>1 DEF DequeuePop
<1>3. Len(Pending) = front - rear /\ Len(Pending') = front - rear - 1
  BY <1>0, <1>1, <1>2 DEF PendingShape
<1>4. \A k \in 1 .. front - rear : Pending[k] = nodes[rear + k - 1].item
  <2>1. Len(destroyed) = 0
    BY <1>1
  <2>2. \A k \in 1 .. front - rear : ~(k <= Len(destroyed))
    BY <1>1, <2>1
  <2> QED
    BY <1>3, <2>2 DEF PendingShape
<1>5. Pending # <<>>
  BY <1>1, <1>3
<1>6. Head(Pending) = nodes[rear].item
  BY <1>1, <1>3, <1>4, <1>5 DEF PendingShape
<1>7. Pending' = Tail(Pending)
  <2>1. /\ Tail(Pending) \in Seq(Values)
        /\ Len(Tail(Pending)) = front - rear - 1
        /\ \A k \in 1 .. front - rear - 1 : Tail(Pending)[k] = Pending[k + 1]
    BY <1>3, <1>5, HeadTailProperties DEF PendingShape
  <2>2. ASSUME NEW k \in 1 .. front - rear - 1
        PROVE  Pending'[k] = Tail(Pending)[k]
    <3>1. ~(k <= Len(destroyed'))
      BY <1>1, <1>2
    <3>2. Pending'[k] = nodes'[rear + 1 + k - 1].item
      BY <1>2, <1>3, <3>1 DEF PendingShape
    <3>3. rear + k \in rear + 1 .. front /\ rear + 1 + k - 1 = rear + k
      BY <1>1
    <3>4. Pending[k + 1] = nodes[rear + (k + 1) - 1].item
      BY <1>1, <1>4
    <3> QED
      BY <1>1, <1>2, <2>1, <3>2, <3>3, <3>4
  <2>3. Pending' \in Seq(Values)
    BY DEF PendingShape
  <2> QED
    BY <1>3, <2>1, <2>2, <2>3, SeqEqual
<1>8. Discarded' = Discarded
  BY <1>0, NothingDiscarded, EmptySeq DEF DiscardedShape
<1>9. ret' = [ret EXCEPT ![c] = nodes[rear].item]
  BY DEF DequeuePop, Return
<1> QED
  BY <1>0, <1>5, <1>6, <1>7, <1>8, <1>9 DEF Fifo!Take

\* The loop of invalidate_queue() moves an entry from the list to "destroyed".
LEMMA NodeStutters ==
    ASSUME IInv, PendingShape, PendingShape', DiscardedShape, DiscardedShape',
           NEW k \in Closers, InvalidateNode(k)
    PROVE  UNCHANGED Fifo!vars
<1>0. /\ pc[k] = "inv_loop" /\ curr[k] # NULL
      /\ invalid' = invalid /\ ret' = ret /\ front' = front /\ rear' = rear
  BY DEF InvalidateNode
<1>1. /\ ~invalid /\ curr[k] \in rear .. front /\ DOMAIN nodes = curr[k] .. front
      /\ Len(destroyed) = curr[k] - rear /\ front \in Nat /\ rear \in Nat
      /\ curr[k] \in Nat
  BY <1>0 DEF IInv, TypeOK, ShapeInv, Partial
<1>2. /\ destroyed \in Seq(Values)
      /\ nodes[curr[k]].item \in Values
  BY <1>1 DEF IInv, TypeOK, Values
<1>3. destroyed' = Append(destroyed, nodes[curr[k]].item)
  BY DEF InvalidateNode
<1>4. /\ Len(destroyed') = Len(destroyed) + 1
      /\ \A j \in 1 .. Len(destroyed) : destroyed'[j] = destroyed[j]
      /\ destroyed'[Len(destroyed) + 1] = nodes[curr[k]].item
  BY <1>2, <1>3, AppendProperties
<1>5. \A a \in curr[k] + 1 .. front : nodes'[a] = nodes[a]
  BY <1>1 DEF InvalidateNode
<1>6. Len(Pending) = front - rear /\ Len(Pending') = front - rear
  BY <1>0, <1>1 DEF PendingShape
<1>7. ASSUME NEW j \in 1 .. front - rear
      PROVE  Pending'[j] = Pending[j]
  <2>1. Pending[j] = IF j <= Len(destroyed) THEN destroyed[j] ELSE nodes[rear + j - 1].item
    BY <1>6 DEF PendingShape
  <2>2. Pending'[j] = IF j <= Len(destroyed') THEN destroyed'[j]
                                              ELSE nodes'[rear + j - 1].item
    BY <1>0, <1>6 DEF PendingShape
  <2>3. CASE j <= Len(destroyed)
    <3>1. j \in 1 .. Len(destroyed) /\ j <= Len(destroyed')
      BY <1>1, <1>4, <2>3
    <3> QED
      BY <1>4, <2>1, <2>2, <2>3, <3>1
  <2>4. CASE j = Len(destroyed) + 1
    <3>1. ~(j <= Len(destroyed)) /\ j <= Len(destroyed') /\ rear + j - 1 = curr[k]
      BY <1>1, <1>4, <2>4
    <3> QED
      BY <1>4, <2>1, <2>2, <2>4, <3>1
  <2>5. CASE j > Len(destroyed) + 1
    <3>1. /\ ~(j <= Len(destroyed)) /\ ~(j <= Len(destroyed'))
          /\ rear + j - 1 \in curr[k] + 1 .. front
      <4>1. /\ Len(destroyed) = curr[k] - rear /\ front \in Nat /\ rear \in Nat
            /\ curr[k] \in Nat /\ j \in 1 .. front - rear
        BY <1>1
      <4>2. Len(destroyed') = Len(destroyed) + 1
        BY <1>4
      <4> QED
        BY <2>5, <4>1, <4>2
    <3> QED
      BY <1>5, <2>1, <2>2, <3>1
  <2> QED
    BY <1>1, <2>3, <2>4, <2>5
<1>8. Pending' = Pending
  BY <1>6, <1>7, SeqEqual DEF PendingShape
<1>9. Discarded' = Discarded
  BY <1>0, <1>1, NothingDiscarded, EmptySeq DEF DiscardedShape
<1> QED
  BY <1>0, <1>8, <1>9 DEF Fifo!vars

\* setting invalid closes it, with everything in it discarded,
LEMMA DoneCloses ==
    ASSUME IInv, PendingShape, PendingShape', DiscardedShape, DiscardedShape',
           NEW k \in Closers, InvalidateDone(k)
    PROVE  Fifo!Close(k)
<1>0. /\ pc[k] = "inv_loop" /\ curr[k] = NULL /\ invalid'
      /\ ret' = [ret EXCEPT ![k] = OK]
      /\ front' = front /\ rear' = rear /\ destroyed' = destroyed
  BY DEF InvalidateDone, Goto, Return, list
<1>1. /\ ~invalid /\ Len(destroyed) = front - rear + 1 /\ rear <= front
      /\ front \in Nat /\ rear \in Nat
  BY <1>0 DEF IInv, TypeOK, ShapeInv, Partial
<1>2. Len(Pending) = front - rear /\ Len(Discarded') = front - rear
  BY <1>0, <1>1 DEF PendingShape, DiscardedShape
<1>3. \A j \in 1 .. front - rear : Discarded'[j] = Pending[j]
  BY <1>0, <1>1, <1>2 DEF PendingShape, DiscardedShape
<1>4. Discarded' = Pending
  BY <1>2, <1>3, SeqEqual DEF PendingShape, DiscardedShape
<1>5. Pending' = <<>>
  BY <1>0, EmptySeq DEF PendingShape
<1> QED
  BY <1>0, <1>1, <1>4, <1>5 DEF Fifo!Close

\* and an early return refuses the call.
LEMMA RejectRefuses ==
    ASSUME NEW t \in Threads, Reject(t)
    PROVE  Fifo!Refuse(t)
BY SameList DEF Reject, Return, list, Fifo!Refuse
-----------------------------------------------------------------------------
(* The refinement                                                          *)

\* A step that moves neither the list nor a result stutters.
LEMMA QuietStutters ==
    ASSUME UNCHANGED <<nodes, front, rear, destroyed, invalid, ret>>
    PROVE  UNCHANGED Fifo!vars
BY SameList DEF Fifo!vars

\* The initial states map to the initial states,
LEMMA InitMaps == Init => Fifo!Init
<1> SUFFICES ASSUME Init PROVE Fifo!Init
  OBVIOUS
<1>1. PendingShape /\ DiscardedShape
  BY InitIInv, PendingIsSeq, DiscardedIsSeq
<1>2. ~invalid /\ front = 0 /\ rear = 0 /\ ret = [t \in Threads |-> NULL]
  BY DEF Init
<1>3. Pending = <<>> /\ Discarded = <<>>
  BY <1>1, <1>2, EmptySeq DEF PendingShape, DiscardedShape
<1> QED
  BY <1>2, <1>3 DEF Fifo!Init

\* and every step to a step or to none.
LEMMA NextMaps ==
    IInv /\ IInv' /\ [Next]_vars => [Fifo!Next]_(Fifo!vars)
<1> SUFFICES ASSUME IInv, IInv', [Next]_vars PROVE [Fifo!Next]_(Fifo!vars)
  OBVIOUS
<1>0. PendingShape /\ DiscardedShape
  BY PendingIsSeq, DiscardedIsSeq
<1>1. PendingShape' /\ DiscardedShape'
  BY PendingIsSeq, DiscardedIsSeq, PTL
<1>2. ASSUME NEW p \in Producers, Producer(p) PROVE [Fifo!Next]_(Fifo!vars)
  <2>1. CASE EnqueueLink(p)
    BY <1>0, <1>1, <2>1, LinkPuts DEF Fifo!Next, Threads
  <2>2. CASE EnqueueCall(p) \/ EnqueueLock(p) \/ EnqueuePost(p)
    BY <2>2, QuietStutters DEF EnqueueCall, EnqueueLock, Acquire, EnqueuePost, list
  <2> QED
    BY <1>2, <2>1, <2>2 DEF Producer
<1>3. ASSUME NEW c \in Consumers, Consumer(c) PROVE [Fifo!Next]_(Fifo!vars)
  <2>1. CASE DequeuePop(c)
    BY <1>0, <1>1, <2>1, PopTakes DEF Fifo!Next, Threads
  <2>2. CASE DequeueCall(c) \/ DequeueWait(c) \/ DequeueLock(c)
    BY <2>2, QuietStutters DEF DequeueCall, DequeueWait, DequeueLock, Acquire, list
  <2> QED
    BY <1>3, <2>1, <2>2 DEF Consumer
<1>4. ASSUME NEW k \in Closers, Closer(k) PROVE [Fifo!Next]_(Fifo!vars)
  <2>1. CASE InvalidateNode(k)
    BY <1>0, <1>1, <2>1, NodeStutters
  <2>2. CASE InvalidateDone(k)
    BY <1>0, <1>1, <2>2, DoneCloses DEF Fifo!Next, Threads
  <2>3. CASE InvalidateCall(k) \/ InvalidateLock(k) \/ InvalidateBegin(k)
    BY <2>3, QuietStutters
       DEF InvalidateCall, InvalidateLock, Acquire, InvalidateBegin, list
  <2> QED
    BY <1>4, <2>1, <2>2, <2>3 DEF Closer
<1>5. ASSUME NEW t \in Threads, Finish(t) PROVE [Fifo!Next]_(Fifo!vars)
  <2>1. CASE Reject(t)
    BY <2>1, RejectRefuses DEF Fifo!Next
  <2>2. CASE Unlock(t)
    BY <2>2, QuietStutters DEF Unlock, list
  <2> QED
    BY <1>5, <2>1, <2>2 DEF Finish
<1>6. CASE UNCHANGED vars
  BY <1>6, QuietStutters DEF vars
<1> QED
  BY <1>2, <1>3, <1>4, <1>5, <1>6 DEF Next

\* queue.c is an atomic first-in first-out queue, for any number of threads:
\* every item is taken once, in the order of the enqueues, or destroyed once.
THEOREM Refinement == Spec => ImplementsFifo
<1>1. Spec => []IInv
  BY Invariance
<1> QED
  BY <1>1, InitMaps, NextMaps, PTL DEF Spec, ImplementsFifo, Fifo!Spec
=============================================================================
