------------------------------- MODULE Queue -------------------------------
(***************************************************************************)
(* hw5/src/queue.c, the linked list that hands accepted connections to the *)
(* worker threads.  "rear" is the node dequeue() frees, "front" the empty  *)
(* node the next enqueue() fills; a counting semaphore says how many items *)
(* a consumer may go for and a mutex guards the list.                      *)
(*                                                                         *)
(* Addresses are handed out in the order of the callocs and never reused,  *)
(* so an access to a freed node shows as an address outside DOMAIN nodes.  *)
(* A step is what a thread does between two synchronisation operations.    *)
(***************************************************************************)
EXTENDS Integers, Sequences, FiniteSets

CONSTANTS Producers,   \* threads that call enqueue()
          Consumers,   \* threads that call dequeue() in a loop
          Closers,     \* threads that call invalidate_queue()
          Items,       \* the non-NULL item pointers
          NULL,        \* the NULL pointer, "false", nobody holding the lock
          OK,          \* "true"
          MaxEnqueues  \* bound on the calls of enqueue() that are started

Threads == Producers \cup Consumers \cup Closers

ASSUME RolesAssumption ==
    /\ Producers \cap Consumers = {}
    /\ Producers \cap Closers = {}
    /\ Consumers \cap Closers = {}
ASSUME FiniteAssumption == IsFiniteSet(Threads)
ASSUME NullAssumption == NULL \notin Items \cup Threads \cup Nat
ASSUME OkAssumption == OK \notin Items \cup {NULL}
ASSUME BoundAssumption == MaxEnqueues \in Nat

VARIABLES nodes,     \* address -> [item, next] of every allocated node
          front,     \* self->front: the empty node at the tail
          rear,      \* self->rear: the node at the head
          items,     \* self->items, the semaphore
          lock,      \* self->lock: its holder, or NULL
          invalid,   \* self->invalid
          destroyed, \* the arguments destroy_function was called with
          pc,        \* thread -> where it is in its operation
          curr,      \* closer -> curr_node, the node it destroys next
          arg,       \* thread -> the item it enqueues
          ret        \* thread -> what its last operation returned

list == <<nodes, front, rear, destroyed, curr>>
vars == <<nodes, front, rear, items, lock, invalid, destroyed, pc, curr, arg,
          ret>>

Node(i, n) == [item |-> i, next |-> n]

\* create_queue(): one empty node, reached by both ends.
Init == /\ nodes = [a \in {0} |-> Node(NULL, NULL)]
        /\ front = 0
        /\ rear = 0
        /\ items = 0
        /\ lock = NULL
        /\ invalid = FALSE
        /\ destroyed = <<>>
        /\ pc = [t \in Threads |-> "idle"]
        /\ curr = [k \in Closers |-> NULL]
        /\ arg = [t \in Threads |-> NULL]
        /\ ret = [t \in Threads |-> NULL]

Goto(t, from, to) == pc[t] = from /\ pc' = [pc EXCEPT ![t] = to]

Return(t, r) == ret' = [ret EXCEPT ![t] = r]

\* Faulty variant: no mutex.
AcquireNothing(t, from, to) == /\ Goto(t, from, to)
                               /\ lock' = t
                               /\ UNCHANGED <<list, items, invalid, arg, ret>>

\* Pthread_mutex_lock(&self->lock)
Acquire(t, from, to) == /\ Goto(t, from, to)
                        /\ lock = NULL
                        /\ lock' = t
                        /\ UNCHANGED <<list, items, invalid, arg, ret>>

\* Pthread_mutex_unlock(&self->lock) and the return to the caller
Unlock(t) == /\ Goto(t, "unlock", "idle")
             /\ lock' = NULL
             /\ UNCHANGED <<list, items, invalid, arg, ret>>

\* The check of self->invalid that every operation makes under the lock.
Reject(t) == /\ pc[t] \in {"enq_link", "deq_pop", "inv_begin"}
             /\ invalid
             /\ pc' = [pc EXCEPT ![t] = "unlock"]
             /\ Return(t, NULL)
             /\ UNCHANGED <<list, items, lock, invalid, arg>>
-----------------------------------------------------------------------------
(* enqueue(self, item)                                                     *)

Enqueueing == {p \in Producers : pc[p] \in {"enq_lock", "enq_link"}}

EnqueueCall(p) == /\ front + Cardinality(Enqueueing) < MaxEnqueues
                  /\ Goto(p, "idle", "enq_lock")
                  /\ \E i \in Items : arg' = [arg EXCEPT ![p] = i]
                  /\ UNCHANGED <<list, items, lock, invalid, ret>>

EnqueueLock(p) == Acquire(p, "enq_lock", "enq_link")

\* Faulty variant: the item goes into the new node.
EnqueueLinkAfterMove(p) ==
    /\ ~invalid
    /\ Goto(p, "enq_link", "enq_post")
    /\ nodes' = [a \in DOMAIN nodes \cup {front + 1} |->
                    CASE a = front     -> Node(NULL, front + 1)
                      [] a = front + 1 -> Node(arg[p], NULL)
                      [] OTHER         -> nodes[a]]
    /\ front' = front + 1
    /\ Return(p, OK)
    /\ UNCHANGED <<rear, items, lock, invalid, destroyed, curr, arg>>

\* Fill the empty node and hang a new empty one behind it.
EnqueueLink(p) ==
    /\ ~invalid
    /\ Goto(p, "enq_link", "enq_post")
    /\ nodes' = [a \in DOMAIN nodes \cup {front + 1} |->
                    CASE a = front     -> Node(arg[p], front + 1)
                      [] a = front + 1 -> Node(NULL, NULL)
                      [] OTHER         -> nodes[a]]
    /\ front' = front + 1
    /\ Return(p, OK)
    /\ UNCHANGED <<rear, items, lock, invalid, destroyed, curr, arg>>

\* Faulty variant: Sem_post is forgotten.
EnqueueNoPost(p) == /\ Goto(p, "enq_post", "unlock")
                    /\ UNCHANGED <<list, items, lock, invalid, arg, ret>>

EnqueuePost(p) == /\ Goto(p, "enq_post", "unlock")
                  /\ items' = items + 1
                  /\ UNCHANGED <<list, lock, invalid, arg, ret>>
-----------------------------------------------------------------------------
(* dequeue(self)                                                           *)

\* Faulty variant: the semaphore is not waited for.
DequeueNoWait(c) == /\ Goto(c, "deq_wait", "deq_lock")
                    /\ items' = items - 1
                    /\ UNCHANGED <<list, lock, invalid, arg, ret>>

DequeueCall(c) == /\ Goto(c, "idle", "deq_wait")
                  /\ UNCHANGED <<list, items, lock, invalid, arg, ret>>

\* Sem_wait(&self->items), outside the lock
DequeueWait(c) == /\ items > 0
                  /\ Goto(c, "deq_wait", "deq_lock")
                  /\ items' = items - 1
                  /\ UNCHANGED <<list, lock, invalid, arg, ret>>

DequeueLock(c) == Acquire(c, "deq_lock", "deq_pop")

\* Read and free the node at the head.
DequeuePop(c) == /\ ~invalid
                 /\ Goto(c, "deq_pop", "unlock")
                 /\ Return(c, nodes[rear].item)
                 /\ rear' = nodes[rear].next
                 /\ nodes' = [a \in DOMAIN nodes \ {rear} |-> nodes[a]]
                 /\ UNCHANGED <<front, items, lock, invalid, destroyed, curr, arg>>
-----------------------------------------------------------------------------
(* invalidate_queue(self, destroy_function)                                *)

InvalidateCall(k) == /\ Goto(k, "idle", "inv_lock")
                     /\ UNCHANGED <<list, items, lock, invalid, arg, ret>>

InvalidateLock(k) == Acquire(k, "inv_lock", "inv_begin")

InvalidateBegin(k) ==
    /\ ~invalid
    /\ Goto(k, "inv_begin", "inv_loop")
    /\ curr' = [curr EXCEPT ![k] = rear]
    /\ UNCHANGED <<nodes, front, rear, items, lock, invalid, destroyed, arg, ret>>

\* One turn of the loop: destroy the item of the node, free the node.
InvalidateNode(k) ==
    /\ pc[k] = "inv_loop"
    /\ curr[k] # NULL
    /\ curr' = [curr EXCEPT ![k] = nodes[curr[k]].next]
    /\ destroyed' = Append(destroyed, nodes[curr[k]].item)
    /\ nodes' = [a \in DOMAIN nodes \ {curr[k]} |-> nodes[a]]
    /\ UNCHANGED <<front, rear, items, lock, invalid, pc, arg, ret>>

\* The semaphore is left as it is: no waiting consumer is woken.
InvalidateDone(k) ==
    /\ curr[k] = NULL
    /\ Goto(k, "inv_loop", "unlock")
    /\ invalid' = TRUE
    /\ Return(k, OK)
    /\ UNCHANGED <<list, items, lock, arg>>
-----------------------------------------------------------------------------
Finish(t) == Reject(t) \/ Unlock(t)

Producer(p) == \/ EnqueueCall(p)
               \/ EnqueueLock(p)
               \/ EnqueueLink(p)
               \/ EnqueuePost(p)

Consumer(c) == \/ DequeueCall(c)
               \/ DequeueWait(c)
               \/ DequeueLock(c)
               \/ DequeuePop(c)

Closer(k) == \/ InvalidateCall(k)
             \/ InvalidateLock(k)
             \/ InvalidateBegin(k)
             \/ InvalidateNode(k)
             \/ InvalidateDone(k)

Next == \/ \E p \in Producers : Producer(p)
        \/ \E c \in Consumers : Consumer(c)
        \/ \E k \in Closers : Closer(k)
        \/ \E t \in Threads : Finish(t)

Spec == Init /\ [][Next]_vars

\* A thread inside an operation is scheduled until the operation is over, and
\* a consumer calls again: cream.c's worker_thread() is a loop around dequeue().
\* Nothing makes a producer or a closer start a call.
Fairness == /\ \A p \in Producers : WF_vars(pc[p] # "idle" /\ Producer(p))
            /\ \A c \in Consumers : WF_vars(Consumer(c))
            /\ \A k \in Closers : WF_vars(pc[k] # "idle" /\ Closer(k))
            /\ \A t \in Threads : WF_vars(Finish(t))

FairSpec == Spec /\ Fairness
-----------------------------------------------------------------------------
PCs == {"idle", "enq_lock", "enq_link", "enq_post", "deq_wait", "deq_lock",
        "deq_pop", "inv_lock", "inv_begin", "inv_loop", "unlock"}
Results == Items \cup {NULL, OK}

\* The type of every variable.
TypeOK == /\ DOMAIN nodes \subseteq Nat
          /\ nodes \in [DOMAIN nodes -> [item : Items \cup {NULL},
                                         next : Nat \cup {NULL}]]
          /\ front \in Nat
          /\ rear \in Nat
          /\ items \in Nat
          /\ lock \in Threads \cup {NULL}
          /\ invalid \in BOOLEAN
          /\ destroyed \in Seq(Items \cup {NULL})
          /\ pc \in [Threads -> PCs]
          /\ curr \in [Closers -> Nat \cup {NULL}]
          /\ arg \in [Threads -> Items \cup {NULL}]
          /\ ret \in [Threads -> Results]

Destroying == \E k \in Closers : pc[k] = "inv_loop"

Chained == \A a \in DOMAIN nodes :
              nodes[a] = Node(nodes[a].item, IF a = front THEN NULL ELSE a + 1)
Filled(a) == a \in DOMAIN nodes /\ a # front
OnlyFrontEmpty == \A a \in DOMAIN nodes : nodes[a].item = NULL <=> a = front

\* Whatever the threads do, the allocated nodes are exactly the chain from rear
\* to front, every one but the last holding an item, until invalidate_queue()
\* starts to free them; once it has finished not a node is left (queue.c:33-40,
\* 56-58, 76-79: nothing is lost, leaked or reachable after its free).
ListShape == /\ rear <= front
             /\ ~invalid /\ ~Destroying => DOMAIN nodes = rear .. front
             /\ Chained
             /\ OnlyFrontEmpty
             /\ invalid => DOMAIN nodes = {}

Holding == {t \in Threads : pc[t] \in {"deq_lock", "deq_pop"}}
Owing == {t \in Threads : pc[t] = "enq_post"}

\* The semaphore counts what is really there: the tokens not yet taken and the
\* consumers that have taken one but not yet a node are as many as the nodes
\* whose token was posted (queue.c:59, 69: no wake-up is lost or invented).
TokenCount == ~invalid => items + Cardinality(Holding)
                              = (front - rear) - Cardinality(Owing)

\* A consumer that has got past the semaphore and the lock finds an item, never
\* the empty node at the tail, and a producer finds the node it fills
\* (queue.c:56, 76: the list is dereferenced without a check for NULL).
PopFindsItem == ~invalid =>
    /\ \A c \in Consumers : pc[c] = "deq_pop" =>
           rear \in DOMAIN nodes /\ nodes[rear].item # NULL
    /\ \A p \in Producers : pc[p] = "enq_link" => front \in DOMAIN nodes

\* After invalidate_queue() the dangling front and rear are never followed nor
\* moved again, although tokens are left in the semaphore, consumers are past it
\* and producers keep arriving (queue.c:51, 71).
InvalidIsFinal == [][invalid => invalid' /\ UNCHANGED list]_vars

\* The items in the queue: those the loop of invalidate_queue() has destroyed
\* count until it sets invalid, which is when the operation takes effect.
Pending ==
    [k \in 1 .. (IF invalid THEN 0 ELSE front - rear) |->
        IF k <= Len(destroyed) THEN destroyed[k] ELSE nodes[rear + k - 1].item]

\* The empty node's NULL is handed to destroy_function too; it is no item.
Discarded == [k \in 1 .. (IF invalid THEN front - rear ELSE 0) |-> destroyed[k]]

Fifo == INSTANCE FifoQueue WITH pending <- Pending, destroyed <- Discarded,
                                closed <- invalid, result <- ret

\* The linked list, its semaphore and its mutex are one atomic FIFO queue: every
\* item is taken once, in the order of the enqueues, or destroyed once.
ImplementsFifo == Fifo!Spec

\* A node that was filled is popped or destroyed: no item is left behind while
\* workers loop around dequeue().
EveryItemLeaves == \A a \in 0 .. MaxEnqueues : Filled(a) ~> ~Filled(a)
=============================================================================
