------------------------------ MODULE Probing ------------------------------
(***************************************************************************)
(* The open-addressing table of hw5/src/hashmap.c as operators on an array *)
(* of nodes: which slots a key may be in and which slot a search or an     *)
(* insertion ends at.  A search loop of the code goes round the table from *)
(* the slot after the key's home; here it is the smallest offset at which  *)
(* the loop's exit condition holds.                                        *)
(***************************************************************************)
EXTENDS Integers

CONSTANTS Keys,     \* the keys, equal when get_keys_equal() says so
          ValuesOf, \* key -> the values stored under it
          Capacity, \* self->capacity, as given to create_map()
          Home,     \* key -> get_index(self, key)
          NULL      \* no key, no value, "false"

ASSUME CapacityAssumption == Capacity \in Nat \ {0}

Slots == 0 .. Capacity - 1
Values == UNION {ValuesOf[k] : k \in Keys}

ASSUME HomeAssumption == Home \in [Keys -> Slots]
ASSUME NoKeyAssumption == NULL \notin Keys \cup Values

Node(k, v, t) == [key |-> k, val |-> v, tombstone |-> t]
Nodes == [key : Keys \cup {NULL}, val : Values \cup {NULL}, tombstone : BOOLEAN]
EmptyNode == Node(NULL, NULL, FALSE)

\* Faulty variant: a tombstone over nothing is empty too, and hides what follows.
empty_or_deleted(n) == n.key = NULL \/ n.tombstone

node_is_empty(n) == n.key = NULL /\ ~n.tombstone
node_has_key(n, k) == ~n.tombstone /\ n.key = k
can_put_key(n, k) == node_is_empty(n) \/ node_has_key(n, k)

\* The d-th slot looked at on a search for k.
Index(k, d) == (Home[k] + d) % Capacity

First(S) == CHOOSE d \in S : \A e \in S : d <= e

\* Where get() and delete() stop: at an empty slot or at the key.
SearchStops(nodes, k) ==
    {d \in Slots : \/ node_is_empty(nodes[Index(k, d)])
                   \/ node_has_key(nodes[Index(k, d)], k)}

\* The slots a search for k ends at with success: one, or none.
Found(nodes, k) ==
    LET stops == SearchStops(nodes, k)
    IN  IF stops = {} THEN {}
        ELSE {s \in {Index(k, First(stops))} : node_has_key(nodes[s], k)}

\* What get() returns.
Lookup(nodes, k) ==
    LET found == Found(nodes, k)
    IN  IF found = {} THEN NULL ELSE nodes[CHOOSE s \in found : TRUE].val

PutStops(nodes, k) == {d \in Slots : can_put_key(nodes[Index(k, d)], k)}
Tombstones(nodes, k) == {d \in Slots : nodes[Index(k, d)].tombstone}

\* The slot at the smallest of some offsets from the home of k, if there are any.
FirstSlot(k, offsets) == IF offsets = {} THEN {} ELSE {Index(k, First(offsets))}

\* The slot put() writes: the home slot of a full table, else the first slot
\* that is empty or has the key, else the first tombstone.  No slot at all is
\* the first_tombstone == NULL that the code dereferences.
Targets(nodes, k, overwrite) ==
    CASE overwrite -> {Home[k]}
      [] ~overwrite /\ PutStops(nodes, k) # {} -> FirstSlot(k, PutStops(nodes, k))
      [] OTHER -> FirstSlot(k, Tombstones(nodes, k))

\* The slots that hold an entry of k that was not deleted.
LiveSlots(nodes, k) == {s \in Slots : node_has_key(nodes[s], k)}
Live(nodes) == {s \in Slots : nodes[s].key # NULL /\ ~nodes[s].tombstone}
=============================================================================
