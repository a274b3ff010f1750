----------------------------- MODULE FifoQueue -----------------------------
(***************************************************************************)
(* What hw5/include/queue.h promises: a first-in first-out queue shared by *)
(* any number of threads, which can be invalidated once.  Every operation  *)
(* takes effect in one step; "result" is what the last operation of each   *)
(* thread returned.  Queue.tla is shown to implement this module, and      *)
(* Cream.tla is built on it.                                               *)
(***************************************************************************)
EXTENDS Sequences

CONSTANTS Threads,  \* the threads that use the queue
          Items,    \* the non-NULL item pointers
          NULL,     \* the NULL pointer, also "false"
          OK        \* "true"

VARIABLES pending,   \* the items in the queue, the head first
          destroyed, \* the items handed to destroy_function, in order
          closed,    \* has the queue been invalidated?
          result     \* thread -> what its last operation returned

vars == <<pending, destroyed, closed, result>>

Init == /\ pending = <<>>
        /\ destroyed = <<>>
        /\ closed = FALSE
        /\ result = [t \in Threads |-> NULL]

Put(t, i) == /\ ~closed
             /\ pending' = Append(pending, i)
             /\ result' = [result EXCEPT ![t] = OK]
             /\ UNCHANGED <<destroyed, closed>>

Take(t) == /\ ~closed
           /\ pending # <<>>
           /\ pending' = Tail(pending)
           /\ result' = [result EXCEPT ![t] = Head(pending)]
           /\ UNCHANGED <<destroyed, closed>>

Close(t) == /\ ~closed
            /\ closed' = TRUE
            /\ destroyed' = pending
            /\ pending' = <<>>
            /\ result' = [result EXCEPT ![t] = OK]

Refuse(t) == /\ closed
             /\ result' = [result EXCEPT ![t] = NULL]
             /\ UNCHANGED <<pending, destroyed, closed>>

Next == \E t \in Threads : \/ \E i \in Items : Put(t, i)
                           \/ Take(t)
                           \/ Close(t)
                           \/ Refuse(t)

Spec == Init /\ [][Next]_vars
=============================================================================
