------------------------------ MODULE HashMap ------------------------------
(***************************************************************************)
(* hw5/src/hashmap.c as several threads run it: write_lock keeps writers   *)
(* apart, num_readers and fields_lock are meant to keep them and readers   *)
(* apart.  put(), delete(), clear_map() and invalidate_map() are run by    *)
(* "Writers", get() by "Getters"; a thread keeps nothing from one call to  *)
(* the next, so one that calls both kinds behaves as one of each.          *)
(*                                                                         *)
(* A step is one access to what other threads may access at the same time: *)
(* a lock taken or released, a read of num_readers, a word of a node       *)
(* written by a writer or read by a reader.  What a writer alone reads or  *)
(* writes under both locks goes with the next such step.                   *)
(***************************************************************************)
EXTENDS Probing, FiniteSets

CONSTANTS Writers, Getters,
          OK,          \* "true"
          SizeModulus, \* self->size counts modulo this (2^32 in the code)
          MaxCalls     \* bound on the calls that are started

Threads == Writers \cup Getters

ASSUME RolesAssumption == Writers \cap Getters = {}
ASSUME FiniteAssumption == IsFiniteSet(Getters)
ASSUME NoThreadAssumption == NULL \notin Threads
ASSUME ModulusAssumption == SizeModulus \in Nat /\ SizeModulus > Capacity
ASSUME CallsAssumption == MaxCalls \in Nat

VARIABLES nodes,       \* self->nodes
          size,        \* self->size
          num_readers, \* self->num_readers
          write_lock,  \* self->write_lock: its holder, or NULL
          fields_lock, \* self->fields_lock: its holder, or NULL
          invalid,     \* self->invalid (and nodes freed, capacity 0)
          fault,       \* "none", or what ended the program
          pc,          \* thread -> where it is in its operation
          call,        \* thread -> the operation and its arguments
          at,          \* writer -> the slot, getter -> the offset it is at
          ret,         \* thread -> what its last operation returned
          before,      \* history: the table as a writer found it
          raced,       \* history: the getters a writer overtook
          calls        \* the calls started so far

table == <<nodes, size>>
locks == <<num_readers, write_lock, fields_lock>>
locals == <<call, at, ret>>
history == <<before, raced>>
vars == <<nodes, size, num_readers, write_lock, fields_lock, invalid, fault, pc,
          call, at, ret, before, raced, calls>>

Call(op, k, v, force) == [op |-> op, key |-> k, val |-> v, force |-> force]
NoCall == Call("none", NULL, NULL, FALSE)

\* create_map()
Init == /\ nodes = [s \in Slots |-> EmptyNode]
        /\ size = 0
        /\ num_readers = 0
        /\ write_lock = NULL
        /\ fields_lock = NULL
        /\ invalid = FALSE
        /\ fault = "none"
        /\ pc = [t \in Threads |-> "idle"]
        /\ call = [t \in Threads |-> NoCall]
        /\ at = [t \in Threads |-> 0]
        /\ ret = [t \in Threads |-> NULL]
        /\ before = <<>>
        /\ raced = {}
        /\ calls = 0

Goto(t, from, to) == pc[t] = from /\ pc' = [pc EXCEPT ![t] = to]
Return(t, r) == ret' = [ret EXCEPT ![t] = r]
Forget(t) == /\ call' = [call EXCEPT ![t] = NoCall]
             /\ at' = [at EXCEPT ![t] = 0]
Move(t, n) == at' = [at EXCEPT ![t] = n]
Start(t, to, c) == /\ calls < MaxCalls
                   /\ calls' = calls + 1
                   /\ Goto(t, "idle", to)
                   /\ call' = [call EXCEPT ![t] = c]
Full == size = Capacity
-----------------------------------------------------------------------------
(* Writers: the entry and the exit that put, delete, clear and invalidate  *)
(* share                                                                   *)

WriterCalls ==
    (UNION {{Call("put", k, v, force) : v \in ValuesOf[k], force \in BOOLEAN} :
            k \in Keys})
    \cup {Call("delete", k, NULL, FALSE) : k \in Keys}
    \cup {Call(op, NULL, NULL, FALSE) : op \in {"clear", "invalidate"}}

\* The checks made without a lock: self->invalid and, in put(), a full map.
Turned(c) == invalid \/ (c.op = "put" /\ Full /\ ~c.force)

WriterCall(w) ==
    /\ \E c \in WriterCalls : ~Turned(c) /\ Start(w, "write_lock", c)
    /\ UNCHANGED <<table, locks, invalid, fault, at, ret, history>>

WriterTurnedAway(w) ==
    /\ pc[w] = "idle"
    /\ calls < MaxCalls
    /\ calls' = calls + 1
    /\ \E c \in WriterCalls : Turned(c)
    /\ Return(w, NULL)
    /\ UNCHANGED <<table, locks, invalid, fault, pc, call, at, history>>

TakeWriteLock(w) ==
    /\ Goto(w, "write_lock", "spin")
    /\ write_lock = NULL
    /\ write_lock' = w
    /\ UNCHANGED <<table, num_readers, fields_lock, invalid, fault, locals,
                   history, calls>>

\* while(self->num_readers > 0);
WriterSpin(w) ==
    /\ num_readers <= 0
    /\ Goto(w, "spin", "fields_lock")
    /\ UNCHANGED <<table, locks, invalid, fault, locals, history, calls>>

Reading == {g \in Getters : pc[g] \in {"home", "match", "stop", "confirm",
                                       "value", "exit"}}

\* Faulty variant: a map invalidated since the call began is not noticed.
WriterEnterUnchecked(w) ==
    /\ Goto(w, "fields_lock", "body")
    /\ fields_lock = NULL
    /\ fields_lock' = w
    /\ num_readers' = -1
    /\ before' = [nodes |-> nodes, size |-> size]
    /\ raced' = raced \cup Reading
    /\ UNCHANGED <<table, write_lock, invalid, fault, locals, calls>>

\* Take the second lock, shut out the readers.
WriterEnter(w) ==
    /\ ~invalid
    /\ Goto(w, "fields_lock", "body")
    /\ fields_lock = NULL
    /\ fields_lock' = w
    /\ num_readers' = -1
    /\ before' = [nodes |-> nodes, size |-> size]
    /\ raced' = raced \cup Reading
    /\ UNCHANGED <<table, write_lock, invalid, fault, locals, calls>>

\* put() and invalidate_map() leave num_readers at -1 in a map found invalid.
WriterFindsInvalid(w) ==
    /\ invalid
    /\ fields_lock = NULL
    /\ Goto(w, "fields_lock", "release")
    /\ num_readers' = IF call[w].op \in {"put", "invalidate"} THEN -1 ELSE 0
    /\ Return(w, NULL)
    /\ UNCHANGED <<table, write_lock, fields_lock, invalid, fault, call, at,
                   history, calls>>

\* Let the readers in again, release fields_lock.
Leave(w, from, r) == /\ Goto(w, from, "release")
                     /\ num_readers' = 0
                     /\ fields_lock' = NULL
                     /\ before' = <<>>
                     /\ Return(w, r)

ReleaseWriteLock(w) ==
    /\ Goto(w, "release", "idle")
    /\ write_lock' = NULL
    /\ Forget(w)
    /\ UNCHANGED <<table, num_readers, fields_lock, invalid, fault, ret, history,
                   calls>>
-----------------------------------------------------------------------------
(* put(), behind both locks: the key, the value and the tombstone flag of  *)
(* the node are written one after the other                                *)

Overwrites(w) == Full /\ call[w].force

PutKey(w) ==
    LET k == call[w].key
    IN  /\ call[w].op = "put"
        /\ Goto(w, "body", "put_val")
        /\ \E s \in Targets(nodes, k, Overwrites(w)) :
              /\ nodes' = [nodes EXCEPT ![s].key = k]
              /\ Move(w, s)
        /\ UNCHANGED <<size, locks, invalid, fault, call, ret, history, calls>>

\* first_tombstone is NULL.
PutCrash(w) ==
    /\ call[w].op = "put"
    /\ pc[w] = "body"
    /\ Targets(nodes, call[w].key, Overwrites(w)) = {}
    /\ fault' = "put"
    /\ UNCHANGED <<table, locks, invalid, pc, locals, history, calls>>

PutVal(w) ==
    /\ Goto(w, "put_val", "put_tombstone")
    /\ nodes' = [nodes EXCEPT ![at[w]].val = call[w].val]
    /\ UNCHANGED <<size, locks, invalid, fault, locals, history, calls>>

\* An overwriting put() also takes one off the size it is about to raise.
PutTombstone(w) ==
    /\ Goto(w, "put_tombstone", "put_size")
    /\ nodes' = [nodes EXCEPT ![at[w]].tombstone = FALSE]
    /\ size' = IF Overwrites(w) THEN size - 1 ELSE size
    /\ UNCHANGED <<locks, invalid, fault, locals, history, calls>>

PutSize(w) ==
    /\ size' = (size + 1) % SizeModulus
    /\ Leave(w, "put_size", OK)
    /\ UNCHANGED <<nodes, write_lock, invalid, fault, call, at, raced, calls>>
-----------------------------------------------------------------------------
(* delete(), clear_map() and invalidate_map(), behind both locks           *)

Delete(w) ==
    LET k == call[w].key
    IN  /\ call[w].op = "delete"
        /\ nodes' = IF Found(nodes, k) = {} THEN nodes
                    ELSE [nodes EXCEPT ![Home[k]].tombstone = TRUE]
        /\ size' = (size - 1) % SizeModulus
        /\ Leave(w, "body", Lookup(nodes, k))
        /\ UNCHANGED <<write_lock, invalid, fault, call, at, raced, calls>>

WipeBegin(w) ==
    /\ call[w].op \in {"clear", "invalidate"}
    /\ Goto(w, "body", "wipe")
    /\ Move(w, 0)
    /\ UNCHANGED <<table, locks, invalid, fault, call, ret, history, calls>>

\* One turn of the loop: destroy the entry of the slot, empty the slot.
WipeSlot(w) ==
    /\ pc[w] = "wipe"
    /\ at[w] < Capacity
    /\ nodes' = [nodes EXCEPT ![at[w]] = EmptyNode]
    /\ Move(w, at[w] + 1)
    /\ UNCHANGED <<size, locks, invalid, fault, pc, call, ret, history, calls>>

WipeEnd(w) ==
    /\ at[w] = Capacity
    /\ size' = 0
    /\ invalid' = (call[w].op = "invalidate")
    /\ Leave(w, "wipe", OK)
    /\ UNCHANGED <<nodes, write_lock, fault, call, at, raced, calls>>
-----------------------------------------------------------------------------
(* get()                                                                   *)

GetCall(g) ==
    /\ ~invalid
    /\ \E k \in Keys : Start(g, "get_spin", Call("get", k, NULL, FALSE))
    /\ Return(g, NULL)
    /\ UNCHANGED <<table, locks, invalid, fault, at, history>>

GetTurnedAway(g) ==
    /\ invalid
    /\ pc[g] = "idle"
    /\ calls < MaxCalls
    /\ calls' = calls + 1
    /\ Return(g, NULL)
    /\ UNCHANGED <<table, locks, invalid, fault, pc, call, at, history>>

\* while(self->num_readers < 0);
GetSpin(g) ==
    /\ num_readers >= 0
    /\ Goto(g, "get_spin", "get_enter")
    /\ UNCHANGED <<table, locks, invalid, fault, locals, history, calls>>

\* Under fields_lock, which is released in the same step: count one reader.
GetEnter(g) ==
    /\ ~invalid
    /\ fields_lock = NULL
    /\ Goto(g, "get_enter", "home")
    /\ num_readers' = num_readers + 1
    /\ UNCHANGED <<table, write_lock, fields_lock, invalid, fault, locals,
                   history, calls>>

GetFindsInvalid(g) ==
    /\ invalid
    /\ fields_lock = NULL
    /\ Goto(g, "get_enter", "idle")
    /\ Forget(g)
    /\ UNCHANGED <<table, locks, invalid, fault, ret, history, calls>>

Seen(g) == nodes[Index(call[g].key, at[g])]

\* A step of the search; the nodes are gone once the map is invalid.
Reads(g) == ~invalid /\ UNCHANGED <<table, locks, invalid, fault, call, ret, history,
                                    calls>>

\* Is the home slot empty?
GetHome(g) == /\ Goto(g, "home", IF node_is_empty(Seen(g)) THEN "exit" ELSE "match")
              /\ Reads(g)
              /\ UNCHANGED at

\* Has the slot the key?  The loop goes round the table back to the home slot.
Onward(g) == (at[g] + 1) % Capacity
GetMatch(g) == /\ Goto(g, "match",
                       CASE node_has_key(Seen(g), call[g].key) ->
                               IF at[g] = 0 THEN "value" ELSE "confirm"
                         [] ~node_has_key(Seen(g), call[g].key) ->
                               IF Onward(g) = 0 THEN "confirm" ELSE "stop")
               /\ Move(g, IF node_has_key(Seen(g), call[g].key) THEN at[g]
                                                                ELSE Onward(g))
               /\ Reads(g)

\* Is the slot after the home slot empty?
GetStop(g) == /\ Goto(g, "stop", IF node_is_empty(Seen(g)) THEN "confirm" ELSE "match")
              /\ Reads(g)
              /\ UNCHANGED at

\* Faulty variant: the slot the loop ended at is taken to have the key.
GetConfirmNothing(g) == /\ Goto(g, "confirm", "value")
                        /\ Reads(g)
                        /\ UNCHANGED at

\* The loop is over: has the slot it ended at the key?
GetConfirm(g) == /\ Goto(g, "confirm",
                         IF node_has_key(Seen(g), call[g].key) THEN "value" ELSE "exit")
                 /\ Reads(g)
                 /\ UNCHANGED at

GetValue(g) == /\ Goto(g, "value", "exit")
               /\ ~invalid
               /\ Return(g, Seen(g).val)
               /\ UNCHANGED <<table, locks, invalid, fault, call, at, history, calls>>

\* The search goes on in a map that was invalidated under it: the home slot is
\* computed modulo a capacity of 0, a node is read after its free.  The model
\* ends where the C program has no defined behaviour.
GetFault(g) ==
    /\ invalid
    /\ pc[g] \in {"home", "match", "stop", "confirm", "value"}
    /\ fault' = IF pc[g] = "home" THEN "division by zero" ELSE "use after free"
    /\ UNCHANGED <<table, locks, invalid, pc, locals, history, calls>>

\* Faulty variant: the reader stays counted.
GetExitCounted(g) ==
    /\ fields_lock = NULL
    /\ Goto(g, "exit", "idle")
    /\ Forget(g)
    /\ raced' = raced \ {g}
    /\ UNCHANGED <<table, locks, invalid, fault, ret, before, calls>>

\* Under fields_lock, which is released in the same step: one reader less.
GetExit(g) ==
    /\ fields_lock = NULL
    /\ Goto(g, "exit", "idle")
    /\ num_readers' = IF invalid THEN 0 ELSE num_readers - 1
    /\ Return(g, IF invalid THEN NULL ELSE ret[g])
    /\ Forget(g)
    /\ raced' = raced \ {g}
    /\ UNCHANGED <<table, write_lock, fields_lock, invalid, fault, before, calls>>
-----------------------------------------------------------------------------
WriterWork(w) == \/ TakeWriteLock(w) \/ WriterSpin(w) \/ WriterEnter(w)
                 \/ WriterFindsInvalid(w) \/ ReleaseWriteLock(w)
                 \/ PutKey(w) \/ PutCrash(w) \/ PutVal(w) \/ PutTombstone(w)
                 \/ PutSize(w) \/ Delete(w)
                 \/ WipeBegin(w) \/ WipeSlot(w) \/ WipeEnd(w)

GetterWork(g) == \/ GetSpin(g) \/ GetEnter(g) \/ GetFindsInvalid(g) \/ GetHome(g)
                 \/ GetMatch(g) \/ GetStop(g) \/ GetConfirm(g) \/ GetValue(g)
                 \/ GetFault(g) \/ GetExit(g)

WriterStep(w) == WriterCall(w) \/ WriterTurnedAway(w) \/ WriterWork(w)
GetterStep(g) == GetCall(g) \/ GetTurnedAway(g) \/ GetterWork(g)

Next == /\ fault = "none"
        /\ \/ \E w \in Writers : WriterStep(w)
           \/ \E g \in Getters : GetterStep(g)

Spec == Init /\ [][Next]_vars

\* A thread inside a call is scheduled until the call is over; nothing makes a
\* thread start one.
Fairness == /\ \A w \in Writers : WF_vars(fault = "none" /\ WriterWork(w))
            /\ \A g \in Getters : WF_vars(fault = "none" /\ GetterWork(g))

FairSpec == Spec /\ Fairness
-----------------------------------------------------------------------------
Body == {"body", "put_val", "put_tombstone", "put_size", "wipe"}
Writing == {w \in Writers : pc[w] \in Body}

\* num_readers never counts more readers than there are, so a writer that spins
\* on it waits for somebody; while a writer is at work it is -1 and keeps new
\* readers out, whatever readers that were overtaken before did to it
\* (hashmap.c:51-53, 104, 124, 148, 153).
ReadersCounted == /\ num_readers <= Cardinality(Reading)
                  /\ Writing # {} => num_readers = -1

\* A get() that no writer overtook never reads a freed table, and what it is about
\* to return is what the table has for the key (hashmap.c:125-145).
QuietGet == \A g \in Reading \ raced :
               /\ ~invalid
               /\ pc[g] = "exit" => ret[g] = Lookup(nodes, call[g].key)

Table == INSTANCE HashTable WITH
            Threads <- Writers,
            nodes <- IF before = <<>> THEN nodes ELSE before.nodes,
            size <- IF before = <<>> THEN size ELSE before.size,
            crashed <- fault = "put",
            ret <- [w \in Writers |-> ret[w]]

\* The calls that write take effect one at a time, each at one moment between its
\* start and its end, whatever other writers and the readers do meanwhile; only
\* the check for a full map may be out of date by then.
WritersAreAtomic == Table!OverlappingSpec

\* A writer waits for other writers and for readers, but not for ever: its call
\* is over some time after the others stop calling (hashmap.c:50-52).
WritersFinish == \A w \in Writers :
                    pc[w] = "write_lock" ~> (pc[w] = "idle" \/ fault # "none")

\* What hashmap.h:60 says of put(): on a full map without force it inserts
\* nothing; it does not dereference NULL.
PutNeverCrashes == fault # "put"
=============================================================================
