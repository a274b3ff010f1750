----------------------------- MODULE HashTable -----------------------------
(***************************************************************************)
(* hw5/src/hashmap.c with every operation in one step: what the table does *)
(* when calls do not overlap.  HashMap.tla is shown to implement it (for   *)
(* the operations that write); Cream.tla is built on it.                   *)
(***************************************************************************)
EXTENDS Probing, FiniteSets

CONSTANTS Threads,     \* the threads that call the operations
          OK,          \* "true"
          SizeModulus  \* self->size counts modulo this (2^32 in the code)

ASSUME ModulusAssumption == SizeModulus \in Nat /\ SizeModulus > Capacity

VARIABLES nodes,    \* self->nodes
          size,     \* self->size
          invalid,  \* self->invalid
          crashed,  \* put() has dereferenced NULL
          ret       \* thread -> what its last operation returned

vars == <<nodes, size, invalid, crashed, ret>>

Init == /\ nodes = [s \in Slots |-> EmptyNode]
        /\ size = 0
        /\ invalid = FALSE
        /\ crashed = FALSE
        /\ ret = [t \in Threads |-> NULL]

Return(t, r) == ret' = [ret EXCEPT ![t] = r]

Full == size = Capacity

Refuse(t) == /\ invalid
             /\ Return(t, NULL)
             /\ UNCHANGED <<nodes, size, invalid, crashed>>

\* put(..., force = false) on a full map
PutRefused(t) == /\ ~invalid
                 /\ Full
                 /\ Return(t, NULL)
                 /\ UNCHANGED <<nodes, size, invalid, crashed>>

\* Faulty variant: the entry moves a slot on when its home is full.
StoreNext(t, k, v, force) ==
    LET slot == {Index(k, 1)}
    IN  /\ ~invalid
        /\ nodes' = [s \in Slots |-> IF s \in slot THEN Node(k, v, FALSE)
                                                   ELSE nodes[s]]
        /\ crashed' = FALSE
        /\ size' = IF Full /\ force THEN size ELSE (size + 1) % SizeModulus
        /\ Return(t, OK)
        /\ UNCHANGED invalid

\* The part of put() behind the check for a full map.  size goes up whether or
\* not a slot was empty, except when the home slot of a full map is overwritten.
Store(t, k, v, force) ==
    LET slot == Targets(nodes, k, Full /\ force)
    IN  /\ ~invalid
        /\ nodes' = [s \in Slots |-> IF s \in slot THEN Node(k, v, FALSE)
                                                   ELSE nodes[s]]
        /\ crashed' = (slot = {})
        /\ IF slot = {} THEN UNCHANGED <<size, ret>>
           ELSE /\ size' = IF Full /\ force THEN size
                                            ELSE (size + 1) % SizeModulus
                /\ Return(t, OK)
        /\ UNCHANGED invalid

Put(t, k, v, force) == (Full => force) /\ Store(t, k, v, force)

\* Between the check for a full map and the lock other calls may fill the map.
PutUnchecked(t, k, v, force) == Store(t, k, v, force)

Get(t, k) == /\ ~invalid
             /\ Return(t, Lookup(nodes, k))
             /\ UNCHANGED <<nodes, size, invalid, crashed>>

\* Faulty variant: the home slot is emptied.
DeleteEmpties(t, k) ==
    /\ ~invalid
    /\ nodes' = IF Found(nodes, k) = {} THEN nodes
                ELSE [nodes EXCEPT ![Home[k]] = EmptyNode]
    /\ size' = (size - 1) % SizeModulus
    /\ Return(t, Lookup(nodes, k))
    /\ UNCHANGED <<invalid, crashed>>

\* The entry is looked for along the probe sequence, but the slot that becomes a
\* tombstone is always the home slot; size goes down even when nothing is found.
Delete(t, k) ==
    /\ ~invalid
    /\ nodes' = IF Found(nodes, k) = {} THEN nodes
                ELSE [nodes EXCEPT ![Home[k]].tombstone = TRUE]
    /\ size' = (size - 1) % SizeModulus
    /\ Return(t, Lookup(nodes, k))
    /\ UNCHANGED <<invalid, crashed>>

\* Faulty variant: the entries stay.
ClearSizeOnly(t) == /\ ~invalid
                    /\ size' = 0
                    /\ Return(t, OK)
                    /\ UNCHANGED <<nodes, invalid, crashed>>

ClearMap(t) == /\ ~invalid
               /\ nodes' = [s \in Slots |-> EmptyNode]
               /\ size' = 0
               /\ Return(t, OK)
               /\ UNCHANGED <<invalid, crashed>>

\* capacity is 0 and nodes freed from here on; nothing reads either.
InvalidateMap(t) == /\ ~invalid
                    /\ nodes' = [s \in Slots |-> EmptyNode]
                    /\ size' = 0
                    /\ invalid' = TRUE
                    /\ Return(t, OK)
                    /\ UNCHANGED crashed
-----------------------------------------------------------------------------
PutStep == \E t \in Threads, k \in Keys, force \in BOOLEAN :
              \E v \in ValuesOf[k] : Put(t, k, v, force)

OtherStep == \E t \in Threads : \/ Refuse(t)
                                \/ PutRefused(t)
                                \/ \E k \in Keys : Get(t, k) \/ Delete(t, k)
                                \/ ClearMap(t)
                                \/ InvalidateMap(t)

Next == ~crashed /\ (PutStep \/ OtherStep)

Spec == Init /\ [][Next]_vars

\* What calls of several threads do: put() may find the map fuller than it was
\* at its check.
OverlappingPutStep == \E t \in Threads, k \in Keys, force \in BOOLEAN :
                         \E v \in ValuesOf[k] : PutUnchecked(t, k, v, force)

OverlappingSpec == Init /\ [][~crashed /\ (OverlappingPutStep \/ OtherStep)]_vars
-----------------------------------------------------------------------------
\* The type of every variable.
TypeOK == /\ nodes \in [Slots -> Nodes]
          /\ size \in 0 .. SizeModulus - 1
          /\ invalid \in BOOLEAN
          /\ crashed \in BOOLEAN
          /\ ret \in [Threads -> Values \cup {NULL, OK}]

\* Whatever was stored, overwritten, deleted and cleared before: an entry that is
\* in the table and not a tombstone is found, whichever slot the insertion probe
\* took it to (hashmap.c:76-83 against 137-145).
LiveIsFound == \A k \in Keys : LiveSlots(nodes, k) # {} => Found(nodes, k) # {}

\* After a put() that returned, get() of the key returns the new value: no older
\* entry of the key lies before the slot put() chose (hashmap.c:61-102).
ReadYourWrite ==
    [][\A t \in Threads, k \in Keys, force \in BOOLEAN :
          \A v \in ValuesOf[k] :
              Put(t, k, v, force) /\ ~crashed' => Lookup(nodes', k) = v]_vars

\* put() and delete() of a key change what get() returns for no other key, but
\* for the one in the key's home slot, and put() for that one only in a full map
\* (hashmap.c:62-66, 181, 190: a search for a third key is never cut short).
OthersKept ==
    [][\A o \in Keys : Lookup(nodes', o) # Lookup(nodes, o) =>
          \A t \in Threads, k \in Keys \ {o} :
              /\ \A force \in BOOLEAN : \A v \in ValuesOf[k] :
                    Put(t, k, v, force) => Full /\ o = nodes[Home[k]].key
              /\ Delete(t, k) => o = nodes[Home[k]].key]_vars

\* size is no less than the entries in the table and no more than the capacity.
Counted == Cardinality(Live(nodes)) <= size /\ size <= Capacity

\* size counts every put(), also one that adds no entry; still it is only
\* delete() that can make it less than the number of entries, or wrap, and while
\* it is not put() finds a slot and does not crash (hashmap.c:62-67, 92-94, 103,
\* 193).
OnlyDeleteMiscounts ==
    [][Counted => \/ Counted' /\ ~crashed'
                  \/ \E t \in Threads, k \in Keys : Delete(t, k)]_vars

\* What hashmap.h:83 says of delete(): it removes the entry of the key.
DeleteRemoves ==
    [][\A t \in Threads, k \in Keys :
          Delete(t, k) => Lookup(nodes', k) = NULL]_vars
=============================================================================
