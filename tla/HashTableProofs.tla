-------------------------- MODULE HashTableProofs --------------------------
(***************************************************************************)
(* What HashTable promises for any keys, values and capacity.              *)
(*                                                                         *)
(* LiveIsFound is not inductive: what keeps an entry in reach is that no   *)
(* slot on the way to it was ever emptied.  Reached says so of every live  *)
(* entry, and the lookups are compared through the first live entry.       *)
(*                                                                         *)
(* What the search and the insertion loops find, for every array of nodes, *)
(* is stated first: HashMapProofs and CreamProofs rest on it too.          *)
(***************************************************************************)
EXTENDS HashTable, TLAPS, FiniteSetTheorems

-----------------------------------------------------------------------------
(* Offsets and counts                                                      *)

\* A nonempty set of natural numbers has a smallest element.
LEMMA SmallestExists ==
    ASSUME NEW S \in SUBSET Nat, S # {}
    PROVE  \E d \in S : \A e \in S : d <= e
<1> DEFINE Less == {ss \in Nat \X Nat : ss[1] < ss[2]}
<1>1. IsWellFoundedOn(Less, Nat)
  BY NatLessThanWellFounded DEF OpToRel
<1>2. PICK d \in S : \A e \in S : <<e, d>> \notin Less
  <2> HIDE DEF Less
  <2> QED
    BY <1>1, WFMin
<1>3. \A e \in S : d <= e
  <2> TAKE e \in S
  <2>1. e \in Nat /\ d \in Nat /\ ~(e < d)
    BY <1>2
  <2> QED
    BY <2>1
<1> QED
  BY <1>3

\* The smallest of a nonempty set of offsets is one of them.
LEMMA FirstIsSmallest ==
    ASSUME NEW S \in SUBSET Slots, S # {}
    PROVE  First(S) \in S /\ \A e \in S : First(S) <= e
<1>1. \E d \in S : \A e \in S : d <= e
  <2>1. S \in SUBSET Nat
    BY CapacityAssumption DEF Slots
  <2> QED
    BY <2>1, SmallestExists
<1> QED
  BY <1>1, Zenon DEF First

\* A set that has grown by one element at most counts one more at most.
LEMMA OneMore ==
    ASSUME NEW S, IsFiniteSet(S), NEW x, NEW T, T \subseteq S \cup {x}
    PROVE  /\ IsFiniteSet(T)
           /\ Cardinality(S) \in Nat /\ Cardinality(T) \in Nat
           /\ Cardinality(T) <= Cardinality(S) + 1
<1>1. /\ IsFiniteSet(S \cup {x})
      /\ Cardinality(S \cup {x}) \in {Cardinality(S), Cardinality(S) + 1}
  BY FS_AddElement
<1>2. IsFiniteSet(T) /\ Cardinality(T) <= Cardinality(S \cup {x})
  BY <1>1, FS_Subset
<1>3. Cardinality(S) \in Nat /\ Cardinality(T) \in Nat
  BY <1>2, FS_CardinalityType
<1> QED
  BY <1>1, <1>2, <1>3
-----------------------------------------------------------------------------
(* The slots of a search                                                   *)

\* The search goes on behind the home slot, and at the end of the table from its
\* start.
LEMMA IndexWraps ==
    ASSUME NEW k \in Keys, NEW d \in Slots
    PROVE  /\ Home[k] \in Slots
           /\ Index(k, d) = IF Home[k] + d < Capacity THEN Home[k] + d
                                                      ELSE Home[k] + d - Capacity
<1>1. /\ Capacity \in Nat /\ Capacity > 0
      /\ Home[k] \in Nat /\ Home[k] < Capacity
      /\ d \in Nat /\ d < Capacity
  BY CapacityAssumption, HomeAssumption DEF Slots
<1>2. CASE Home[k] + d < Capacity
  BY <1>1, <1>2 DEF Index, Slots
<1>3. CASE Home[k] + d >= Capacity
  BY <1>1, <1>3 DEF Index, Slots
<1> QED
  BY <1>1, <1>2, <1>3

\* A search begins at the home slot, looks at slots only, never twice at one, and
\* would look at all of them.
LEMMA IndexVisits ==
    ASSUME NEW k \in Keys
    PROVE  /\ Index(k, 0) = Home[k]
           /\ \A d \in Slots : Index(k, d) \in Slots
           /\ \A d, e \in Slots : Index(k, d) = Index(k, e) => d = e
           /\ \A s \in Slots : \E d \in Slots : Index(k, d) = s
<1>1. Capacity \in Nat /\ Capacity > 0 /\ 0 \in Slots /\ Home[k] \in Slots
  BY CapacityAssumption, HomeAssumption DEF Slots
<1>2. Index(k, 0) = Home[k]
  BY <1>1, IndexWraps DEF Slots
<1>3. \A d \in Slots : Index(k, d) \in Slots
  BY <1>1, IndexWraps DEF Slots
<1>4. \A d, e \in Slots : Index(k, d) = Index(k, e) => d = e
  BY <1>1, IndexWraps DEF Slots
<1>5. ASSUME NEW s \in Slots
      PROVE  \E d \in Slots : Index(k, d) = s
  <2> DEFINE d == IF s >= Home[k] THEN s - Home[k] ELSE s + Capacity - Home[k]
  <2>1. d \in Slots /\ Index(k, d) = s
    BY <1>1, IndexWraps DEF Slots
  <2> QED
    BY <2>1
<1> QED
  BY <1>2, <1>3, <1>4, <1>5
-----------------------------------------------------------------------------
(* Where a search ends                                                     *)

\* The search for k comes to an end at offset d.
EndsAt(tab, k, d) == /\ d \in SearchStops(tab, k)
                       /\ \A e \in Slots : e < d => e \notin SearchStops(tab, k)

\* A search ends at its first empty slot or entry of the key, or goes round.
LEMMA SearchEnds ==
    ASSUME NEW k \in Keys, NEW tab, SearchStops(tab, k) # {}
    PROVE  /\ First(SearchStops(tab, k)) \in Slots
           /\ EndsAt(tab, k, First(SearchStops(tab, k)))
<1> DEFINE stops == SearchStops(tab, k)
<1>1. stops \in SUBSET Slots /\ stops # {}
  BY DEF SearchStops
<1>2. \A d, e \in Slots : d <= e => ~(e < d)
  BY CapacityAssumption DEF Slots
<1>3. First(stops) \in stops /\ \A e \in stops : First(stops) <= e
  <2> HIDE DEF stops
  <2> QED
    BY <1>1, FirstIsSmallest
<1> QED
  BY <1>1, <1>2, <1>3, Zenon DEF EndsAt

\* It ends at one offset only.
LEMMA EndIsFirst ==
    ASSUME NEW k \in Keys, NEW tab, NEW d, EndsAt(tab, k, d)
    PROVE  /\ SearchStops(tab, k) # {}
           /\ First(SearchStops(tab, k)) = d
           /\ d \in Slots
<1>1. d \in Slots /\ SearchStops(tab, k) # {}
  BY DEF EndsAt, SearchStops
<1> DEFINE f == First(SearchStops(tab, k))
<1>2. f \in Slots /\ EndsAt(tab, k, f)
  BY <1>1, SearchEnds
<1> HIDE DEF f
<1>3. ~(f < d) /\ ~(d < f)
  BY <1>1, <1>2 DEF EndsAt
<1>4. f = d
  BY <1>1, <1>2, <1>3, CapacityAssumption DEF Slots
<1> QED
  BY <1>1, <1>4 DEF f

\* Found and Lookup say what is at the end of the search.
LEMMA FoundAtEnd ==
    ASSUME NEW k \in Keys, NEW tab, NEW d, EndsAt(tab, k, d)
    PROVE  /\ node_has_key(tab[Index(k, d)], k) =>
                 /\ Found(tab, k) = {Index(k, d)}
                 /\ Lookup(tab, k) = tab[Index(k, d)].val
           /\ ~node_has_key(tab[Index(k, d)], k) =>
                 Found(tab, k) = {} /\ Lookup(tab, k) = NULL
<1>1. Found(tab, k) = {s \in {Index(k, d)} : node_has_key(tab[s], k)}
  BY EndIsFirst DEF Found
<1>2. CASE node_has_key(tab[Index(k, d)], k)
  <2>1. Found(tab, k) = {Index(k, d)}
    BY <1>1, <1>2
  <2>2. (CHOOSE s \in {Index(k, d)} : TRUE) = Index(k, d)
    OBVIOUS
  <2> QED
    BY <1>2, <2>1, <2>2 DEF Lookup
<1>3. CASE ~node_has_key(tab[Index(k, d)], k)
  BY <1>1, <1>3 DEF Lookup
<1> QED
  BY <1>2, <1>3

\* A search that goes round finds nothing.
LEMMA NothingFound ==
    ASSUME NEW k \in Keys, NEW tab, SearchStops(tab, k) = {}
    PROVE  Found(tab, k) = {} /\ Lookup(tab, k) = NULL
BY DEF Found, Lookup

\* What is found is in a slot of the table.
LEMMA FoundIsSlot ==
    ASSUME NEW k \in Keys, NEW tab
    PROVE  Found(tab, k) \subseteq {s \in Slots : node_has_key(tab[s], k)}
<1>1. CASE SearchStops(tab, k) = {}
  BY <1>1, NothingFound
<1>2. CASE SearchStops(tab, k) # {}
  BY <1>2, SearchEnds, FoundAtEnd, IndexVisits
<1> QED
  BY <1>1, <1>2

\* get() returns a value or NULL.
LEMMA LookupType ==
    ASSUME NEW k \in Keys, NEW tab \in [Slots -> Nodes]
    PROVE  Lookup(tab, k) \in Values \cup {NULL}
<1>1. CASE Found(tab, k) = {}
  BY <1>1 DEF Lookup
<1>2. CASE Found(tab, k) # {}
  <2>1. PICK s \in Slots : Lookup(tab, k) = tab[s].val
    BY <1>2, FoundIsSlot DEF Lookup
  <2> QED
    BY <2>1 DEF Nodes
<1> QED
  BY <1>1, <1>2
-----------------------------------------------------------------------------
(* Where an insertion ends                                                 *)

\* An insertion stops where a search does: at a slot that is empty or has the key.
LEMMA PutStopsAreSearchStops ==
    ASSUME NEW k \in Keys, NEW tab
    PROVE  PutStops(tab, k) = SearchStops(tab, k)
BY DEF PutStops, SearchStops, can_put_key

\* The slot put() writes, if there is one, is the home slot when it overwrites,
\* else where the search for the key ends; only when that goes round it is a
\* tombstone.
LEMMA TargetIs ==
    ASSUME NEW k \in Keys, NEW tab, NEW overwrite \in BOOLEAN
    PROVE  \/ overwrite /\ Targets(tab, k, overwrite) = {Home[k]}
           \/ /\ ~overwrite
              /\ \E d \in Slots : /\ EndsAt(tab, k, d)
                                  /\ Targets(tab, k, overwrite) = {Index(k, d)}
           \/ /\ ~overwrite
              /\ SearchStops(tab, k) = {}
              /\ \/ Targets(tab, k, overwrite) = {}
                 \/ \E s \in Slots : /\ Targets(tab, k, overwrite) = {s}
                                     /\ tab[s].tombstone
<1>1. CASE overwrite
  BY <1>1 DEF Targets
<1>2. CASE ~overwrite /\ SearchStops(tab, k) # {}
  BY <1>2, PutStopsAreSearchStops, SearchEnds DEF Targets, FirstSlot
<1>3. CASE ~overwrite /\ SearchStops(tab, k) = {}
  <2> DEFINE over == Tombstones(tab, k)
  <2>1. Targets(tab, k, overwrite) = FirstSlot(k, over)
    BY <1>3, PutStopsAreSearchStops DEF Targets
  <2>2. CASE over = {}
    BY <1>3, <2>1, <2>2 DEF FirstSlot
  <2>3. CASE over # {}
    <3>1. over \in SUBSET Slots
      BY DEF Tombstones
    <3>2. First(over) \in over
      <4> HIDE DEF over
      <4> QED
        BY <2>3, <3>1, FirstIsSmallest
    <3>3. /\ Index(k, First(over)) \in Slots
          /\ tab[Index(k, First(over))].tombstone
      BY <3>1, <3>2, IndexVisits DEF Tombstones
    <3>4. Targets(tab, k, overwrite) = {Index(k, First(over))}
      BY <2>1, <2>3 DEF FirstSlot
    <3> QED
      BY <1>3, <3>3, <3>4
  <2> QED
    BY <2>2, <2>3
<1> QED
  BY <1>1, <1>2, <1>3

\* put() writes one slot at most.
LEMMA OneTarget ==
    ASSUME NEW k \in Keys, NEW tab, NEW overwrite \in BOOLEAN
    PROVE  \/ Targets(tab, k, overwrite) = {}
           \/ \E s \in Slots : Targets(tab, k, overwrite) = {s}
<1>1. Home[k] \in Slots /\ \A d \in Slots : Index(k, d) \in Slots
  BY HomeAssumption, IndexVisits
<1> QED
  BY <1>1, TargetIs, ZenonT(40)
-----------------------------------------------------------------------------
(* The inductive invariant                                                 *)

\* No slot before a live entry on the search for its key is empty.
Reached(tab) ==
    \A k \in Keys, d \in Slots :
        node_has_key(tab[Index(k, d)], k) =>
            \A e \in Slots : e < d => ~node_is_empty(tab[Index(k, e)])

IInv == TypeOK /\ Reached(nodes)

\* The sizes and the slots are what arithmetic takes them for.
LEMMA Numbers ==
    /\ Capacity \in Nat /\ Capacity > 0
    /\ SizeModulus \in Nat /\ SizeModulus > Capacity
    /\ \A s \in Slots : s \in Nat /\ s < Capacity
    /\ 0 \in Slots
BY CapacityAssumption, ModulusAssumption DEF Slots

\* size stays in its range whatever is added to it or taken off.
LEMMA SizeWraps ==
    ASSUME NEW n \in Int
    PROVE  n % SizeModulus \in 0 .. SizeModulus - 1
BY Numbers

\* What a slot is filled with is a node.
LEMMA NodeType ==
    ASSUME NEW k \in Keys, NEW v \in ValuesOf[k]
    PROVE  /\ Node(k, v, FALSE) \in Nodes
           /\ v \in Values
           /\ node_has_key(Node(k, v, FALSE), k)
           /\ ~node_is_empty(Node(k, v, FALSE))
           /\ EmptyNode \in Nodes
BY NoKeyAssumption DEF Node, Nodes, Values, EmptyNode, node_has_key, node_is_empty
-----------------------------------------------------------------------------
(* The type invariant                                                      *)

\* An insertion keeps the types, whichever slot it writes.
LEMMA StoreType ==
    ASSUME TypeOK, NEW t \in Threads, NEW k \in Keys, NEW v \in ValuesOf[k],
           NEW force \in BOOLEAN, Store(t, k, v, force)
    PROVE  TypeOK'
<1> DEFINE slot == Targets(nodes, k, Full /\ force)
<1>1. nodes' = [s \in Slots |-> IF s \in slot THEN Node(k, v, FALSE) ELSE nodes[s]]
  BY DEF Store
<1>2. nodes' \in [Slots -> Nodes]
  BY <1>1, NodeType DEF TypeOK
<1>3. size' \in 0 .. SizeModulus - 1
  BY SizeWraps DEF Store, TypeOK
<1>4. ret' \in [Threads -> Values \cup {NULL, OK}]
  BY DEF Store, TypeOK, Return
<1> QED
  BY <1>2, <1>3, <1>4 DEF Store, TypeOK

\* A deletion turns the home slot into a tombstone, which is a node.
LEMMA DeleteType ==
    ASSUME TypeOK, NEW t \in Threads, NEW k \in Keys, Delete(t, k)
    PROVE  TypeOK'
<1>1. Home[k] \in Slots
  BY HomeAssumption
<1>2. nodes' \in [Slots -> Nodes]
  BY <1>1 DEF Delete, TypeOK, Nodes
<1>3. size' \in 0 .. SizeModulus - 1
  BY SizeWraps, Numbers DEF Delete, TypeOK
<1>4. ret' \in [Threads -> Values \cup {NULL, OK}]
  BY LookupType DEF Delete, TypeOK, Return
<1> QED
  BY <1>2, <1>3, <1>4 DEF Delete, TypeOK

\* The remaining operations keep the table or empty it.
LEMMA OtherType ==
    ASSUME TypeOK, NEW t \in Threads,
           \/ Refuse(t) \/ PutRefused(t) \/ ClearMap(t) \/ InvalidateMap(t)
           \/ \E k \in Keys : Get(t, k)
    PROVE  TypeOK'
<1>1. [s \in Slots |-> EmptyNode] \in [Slots -> Nodes] /\ 0 \in 0 .. SizeModulus - 1
  BY Numbers DEF EmptyNode, Node, Nodes
<1>2. CASE Refuse(t) \/ PutRefused(t) \/ ClearMap(t) \/ InvalidateMap(t)
  BY <1>1, <1>2 DEF Refuse, PutRefused, ClearMap, InvalidateMap, TypeOK, Return
<1>3. ASSUME NEW k \in Keys, Get(t, k)
      PROVE  TypeOK'
  BY <1>3, LookupType DEF Get, TypeOK, Return
<1> QED
  BY <1>2, <1>3
-----------------------------------------------------------------------------
(* Entries stay in reach                                                   *)

\* A table in which no slot became empty and which has no new live entry keeps its
\* entries in reach.
LEMMA ReachedKept ==
    ASSUME NEW old, NEW new, Reached(old),
           \A s \in Slots : node_is_empty(new[s]) => node_is_empty(old[s]),
           \A s \in Slots, k \in Keys : node_has_key(new[s], k)
                                           => node_has_key(old[s], k)
    PROVE  Reached(new)
BY IndexVisits DEF Reached

\* An insertion lets no gap in front of the new entry, nor of any other.
LEMMA StoreReaches ==
    ASSUME TypeOK, Reached(nodes), NEW t \in Threads, NEW k \in Keys,
           NEW v \in ValuesOf[k], NEW force \in BOOLEAN, Store(t, k, v, force)
    PROVE  Reached(nodes')
<1> DEFINE slot == Targets(nodes, k, Full /\ force)
<1>1. nodes' = [s \in Slots |-> IF s \in slot THEN Node(k, v, FALSE) ELSE nodes[s]]
  BY DEF Store
<1>2. \/ slot = {Home[k]}
      \/ \E f \in Slots : EndsAt(nodes, k, f) /\ slot = {Index(k, f)}
      \/ SearchStops(nodes, k) = {}
  <2>1. (Full /\ force) \in BOOLEAN
    BY DEF Full
  <2> QED
    BY <2>1, TargetIs, Zenon
<1>3. ASSUME NEW j \in Keys, NEW d \in Slots,
             node_has_key(nodes'[Index(j, d)], j),
             NEW e \in Slots, e < d
      PROVE  ~node_is_empty(nodes'[Index(j, e)])
  <2>1. Index(j, d) \in Slots /\ Index(j, e) \in Slots
    BY IndexVisits
  <2>2. CASE Index(j, e) \in slot
    BY <1>1, <2>1, <2>2, NodeType
  <2>3. CASE Index(j, e) \notin slot /\ Index(j, d) \notin slot
    BY <1>1, <1>3, <2>1, <2>3 DEF Reached
  <2>4. CASE Index(j, e) \notin slot /\ Index(j, d) \in slot
    <3>1. j = k
      BY <1>1, <1>3, <2>1, <2>4 DEF Node, node_has_key
    <3>2. CASE slot = {Home[k]}
      <4>1. Index(k, d) = Index(k, 0)
        BY <2>4, <3>1, <3>2, IndexVisits
      <4> QED
        BY <1>3, <4>1, IndexVisits, Numbers
    <3>3. ASSUME NEW f \in Slots, EndsAt(nodes, k, f), slot = {Index(k, f)}
          PROVE  ~node_is_empty(nodes'[Index(j, e)])
      <4>1. f = d
        BY <2>4, <3>1, <3>3, IndexVisits
      <4>2. ~node_is_empty(nodes[Index(k, e)])
        BY <1>3, <3>3, <4>1 DEF EndsAt, SearchStops
      <4> QED
        BY <1>1, <2>1, <2>4, <3>1, <4>2
    <3>4. CASE SearchStops(nodes, k) = {}
      BY <1>1, <2>1, <2>4, <3>1, <3>4 DEF SearchStops
    <3> HIDE DEF slot
    <3> QED
      BY <1>2, <3>2, <3>3, <3>4
  <2> QED
    BY <2>2, <2>3, <2>4
<1> QED
  BY <1>3 DEF Reached

\* A deletion empties no slot.
LEMMA DeleteReaches ==
    ASSUME TypeOK, Reached(nodes), NEW t \in Threads, NEW k \in Keys, Delete(t, k)
    PROVE  Reached(nodes')
<1>1. CASE Found(nodes, k) = {}
  BY <1>1 DEF Delete
<1>2. CASE Found(nodes, k) # {}
  <2>1. /\ DOMAIN nodes' = Slots
        /\ Home[k] \in Slots
        /\ nodes'[Home[k]].tombstone = TRUE
        /\ \A s \in Slots \ {Home[k]} : nodes'[s] = nodes[s]
    <3>1. nodes' = [nodes EXCEPT ![Home[k]] = [nodes[Home[k]] EXCEPT !.tombstone = TRUE]]
      BY <1>2 DEF Delete
    <3>2. Home[k] \in Slots /\ nodes[Home[k]] \in Nodes /\ DOMAIN nodes = Slots
      BY HomeAssumption DEF TypeOK
    <3>3. [nodes[Home[k]] EXCEPT !.tombstone = TRUE].tombstone = TRUE
      BY <3>2 DEF Nodes
    <3> QED
      BY <3>1, <3>2, <3>3
  <2>2. /\ \A s \in Slots : node_is_empty(nodes'[s]) => node_is_empty(nodes[s])
        /\ \A s \in Slots, j \in Keys :
              node_has_key(nodes'[s], j) => node_has_key(nodes[s], j)
    BY <2>1 DEF node_is_empty, node_has_key
  <2> QED
    BY <2>2, ReachedKept
<1> QED
  BY <1>1, <1>2

\* A table without entries has all of them in reach.
LEMMA EmptyReaches ==
    Reached([s \in Slots |-> EmptyNode])
BY IndexVisits, NoKeyAssumption DEF Reached, EmptyNode, Node, node_has_key

\* Every step keeps the invariant.
LEMMA NextInv ==
    ASSUME IInv, [Next]_vars
    PROVE  IInv'
<1> USE DEF IInv
<1>1. ASSUME NEW t \in Threads, NEW k \in Keys, NEW force \in BOOLEAN,
             NEW v \in ValuesOf[k], Put(t, k, v, force)
      PROVE  IInv'
  BY <1>1, StoreType, StoreReaches DEF Put
<1>2. ASSUME NEW t \in Threads, NEW k \in Keys, Delete(t, k)
      PROVE  IInv'
  BY <1>2, DeleteType, DeleteReaches
<1>3. ASSUME NEW t \in Threads,
             \/ Refuse(t) \/ PutRefused(t) \/ ClearMap(t) \/ InvalidateMap(t)
             \/ \E k \in Keys : Get(t, k)
      PROVE  IInv'
  <2>1. nodes' \in {nodes, [s \in Slots |-> EmptyNode]}
    BY <1>3 DEF Refuse, PutRefused, ClearMap, InvalidateMap, Get
  <2> QED
    BY <1>3, <2>1, OtherType, EmptyReaches
<1>4. CASE UNCHANGED vars
  BY <1>4 DEF vars, TypeOK
<1> QED
  BY <1>1, <1>2, <1>3, <1>4 DEF Next, PutStep, OtherStep

\* The invariant holds in every reachable state.
LEMMA Invariant == Spec => []IInv
<1>1. Init => IInv
  <2>1. [s \in Slots |-> EmptyNode] \in [Slots -> Nodes]
    BY DEF EmptyNode, Node, Nodes
  <2>2. Init => TypeOK
    <3>1. 0 \in 0 .. SizeModulus - 1
      BY Numbers
    <3> QED
      BY <2>1, <3>1 DEF Init, TypeOK
  <2>3. Init => Reached(nodes)
    BY EmptyReaches DEF Init
  <2> QED
    BY <2>2, <2>3 DEF IInv
<1>2. IInv /\ [Next]_vars => IInv'
  BY NextInv
<1> QED
  BY <1>1, <1>2, PTL DEF Spec

\* The table, its size and the results keep their types: no operation leaves a slot
\* that is no node or a size outside its counter (hashmap.c:50-228).
THEOREM TypeCorrect == Spec => []TypeOK
<1>1. IInv => TypeOK
  BY DEF IInv
<1> QED
  BY <1>1, Invariant, PTL

\* A table whose entries are in reach finds each of them.
LEMMA ReachedIsFound ==
    ASSUME NEW tab, Reached(tab), NEW k \in Keys, LiveSlots(tab, k) # {}
    PROVE  Found(tab, k) # {}
<1>1. PICK d \in Slots : node_has_key(tab[Index(k, d)], k)
  BY IndexVisits DEF LiveSlots
<1>2. d \in SearchStops(tab, k)
  BY <1>1 DEF SearchStops
<1>3. PICK f \in Slots : EndsAt(tab, k, f)
  BY <1>2, SearchEnds
<1>4. f < d \/ f = d
  BY <1>2, <1>3, Numbers DEF EndsAt
<1>5. node_has_key(tab[Index(k, f)], k)
  BY <1>1, <1>3, <1>4 DEF Reached, EndsAt, SearchStops
<1> QED
  BY <1>3, <1>5, FoundAtEnd

\* Whatever was stored, overwritten, deleted and cleared before, an entry that is in
\* the table and no tombstone is found (hashmap.c:76-83 against 137-145).
THEOREM LiveFound == Spec => []LiveIsFound
<1>1. IInv => LiveIsFound
  BY ReachedIsFound DEF IInv, LiveIsFound
<1> QED
  BY <1>1, Invariant, PTL
-----------------------------------------------------------------------------
(* What a step does to the lookups                                         *)

\* The offsets at which the search for k would see a live entry of k.
Seen(tab, k) == {d \in Slots : node_has_key(tab[Index(k, d)], k)}

\* With its entries in reach, a table finds the first live entry of a key.
LEMMA LookupIsFirstSeen ==
    ASSUME NEW tab, Reached(tab), NEW k \in Keys
    PROVE  Lookup(tab, k) = IF Seen(tab, k) = {} THEN NULL
                            ELSE tab[Index(k, First(Seen(tab, k)))].val
<1>1. CASE SearchStops(tab, k) = {}
  <2>1. Seen(tab, k) = {}
    BY <1>1 DEF Seen, SearchStops
  <2> QED
    BY <1>1, <2>1, NothingFound
<1>2. CASE SearchStops(tab, k) # {}
  <2>1. PICK d \in Slots : EndsAt(tab, k, d)
    BY <1>2, SearchEnds
  <2>2. CASE node_has_key(tab[Index(k, d)], k)
    <3> DEFINE seen == Seen(tab, k)
    <3>1. d \in seen /\ seen \in SUBSET Slots /\ \A e \in seen : ~(e < d)
      BY <2>1, <2>2 DEF Seen, EndsAt, SearchStops
    <3>2. First(seen) \in seen /\ First(seen) <= d
      <4> HIDE DEF seen
      <4> QED
        BY <3>1, FirstIsSmallest
    <3>3. First(seen) = d
      <4> HIDE DEF seen
      <4> QED
        BY <3>1, <3>2, Numbers
    <3> QED
      BY <2>1, <2>2, <3>1, <3>3, FoundAtEnd
  <2>3. CASE ~node_has_key(tab[Index(k, d)], k)
    <3>1. node_is_empty(tab[Index(k, d)])
      BY <2>1, <2>3 DEF EndsAt, SearchStops
    <3>2. ASSUME NEW e \in Slots, node_has_key(tab[Index(k, e)], k)
          PROVE  FALSE
      <4>1. e < d \/ d < e
        BY <2>1, <2>3, <3>2, Numbers
      <4> QED
        BY <2>1, <3>1, <3>2, <4>1 DEF Reached, EndsAt, SearchStops
    <3> QED
      BY <2>1, <2>3, <3>2, FoundAtEnd DEF Seen
  <2> QED
    BY <2>2, <2>3
<1> QED
  BY <1>1, <1>2

\* So two tables with the same live entries of a key give the same answer for it.
LEMMA SameLookup ==
    ASSUME NEW old, NEW new, Reached(old), Reached(new), NEW k \in Keys,
           \A s \in Slots : /\ node_has_key(new[s], k) <=> node_has_key(old[s], k)
                            /\ node_has_key(old[s], k) => new[s] = old[s]
    PROVE  Lookup(new, k) = Lookup(old, k)
<1>1. Seen(new, k) = Seen(old, k)
  BY IndexVisits DEF Seen
<1>2. CASE Seen(old, k) = {}
  BY <1>1, <1>2, LookupIsFirstSeen
<1>3. CASE Seen(old, k) # {}
  <2> DEFINE seen == Seen(old, k)
  <2>1. seen \in SUBSET Slots
    BY DEF Seen
  <2>2. First(seen) \in seen
    <3> HIDE DEF seen
    <3> QED
      BY <1>3, <2>1, FirstIsSmallest DEF seen
  <2>3. new[Index(k, First(seen))] = old[Index(k, First(seen))]
    BY <2>2, IndexVisits DEF Seen
  <2> QED
    BY <1>1, <1>3, <2>3, LookupIsFirstSeen
<1> QED
  BY <1>2, <1>3

\* The search for a key that was just stored ends at the new entry.
LEMMA StoreIsRead ==
    ASSUME TypeOK, NEW t \in Threads, NEW k \in Keys, NEW v \in ValuesOf[k],
           NEW force \in BOOLEAN, Store(t, k, v, force), ~crashed'
    PROVE  Lookup(nodes', k) = v
<1> DEFINE slot == Targets(nodes, k, Full /\ force)
<1>1. /\ nodes' = [s \in Slots |-> IF s \in slot THEN Node(k, v, FALSE) ELSE nodes[s]]
      /\ slot # {}
  BY DEF Store
<1>2. \/ slot = {Index(k, 0)}
      \/ \E f \in Slots : EndsAt(nodes, k, f) /\ slot = {Index(k, f)}
      \/ SearchStops(nodes, k) = {} /\ \E s \in Slots : slot = {s}
  <2>1. (Full /\ force) \in BOOLEAN
    BY DEF Full
  <2>2. Index(k, 0) = Home[k]
    BY IndexVisits
  <2> HIDE DEF slot
  <2> QED
    BY <1>1, <2>1, <2>2, TargetIs, ZenonT(40) DEF slot
<1>3. \E d \in Slots : slot = {Index(k, d)} /\ EndsAt(nodes', k, d)
  <2>1. ASSUME NEW d \in Slots, slot = {Index(k, d)},
               \A e \in Slots : e < d => e \notin SearchStops(nodes, k)
        PROVE  EndsAt(nodes', k, d)
    <3>1. d \in SearchStops(nodes', k)
      BY <1>1, <2>1, IndexVisits, NodeType DEF SearchStops
    <3>2. ASSUME NEW e \in Slots, e < d
          PROVE  e \notin SearchStops(nodes', k)
      <4>1. Index(k, e) \in Slots /\ Index(k, e) # Index(k, d)
        BY <3>2, IndexVisits, Numbers
      <4>2. nodes'[Index(k, e)] = nodes[Index(k, e)]
        BY <1>1, <2>1, <4>1
      <4> QED
        BY <2>1, <3>2, <4>2 DEF SearchStops
    <3> QED
      BY <3>1, <3>2 DEF EndsAt
  <2>2. CASE slot = {Index(k, 0)}
    <3>1. \A e \in Slots : ~(e < 0)
      BY Numbers
    <3> QED
      BY <2>1, <2>2, <3>1, Numbers
  <2>3. ASSUME NEW f \in Slots, EndsAt(nodes, k, f), slot = {Index(k, f)}
        PROVE  \E d \in Slots : slot = {Index(k, d)} /\ EndsAt(nodes', k, d)
    BY <2>1, <2>3 DEF EndsAt
  <2>4. ASSUME SearchStops(nodes, k) = {}, NEW s \in Slots, slot = {s}
        PROVE  \E d \in Slots : slot = {Index(k, d)} /\ EndsAt(nodes', k, d)
    <3>1. PICK d \in Slots : Index(k, d) = s
      BY IndexVisits
    <3> HIDE DEF slot
    <3> QED
      BY <2>1, <2>4, <3>1
  <2> HIDE DEF slot
  <2> QED
    BY <1>2, <2>2, <2>3, <2>4
<1>4. PICK d \in Slots : slot = {Index(k, d)} /\ EndsAt(nodes', k, d)
  BY <1>3
<1>5. nodes'[Index(k, d)] = Node(k, v, FALSE)
  BY <1>1, <1>4, IndexVisits
<1> QED
  BY <1>4, <1>5, FoundAtEnd, NodeType DEF Node

\* After a put() that returned, get() of the key returns the new value: no older
\* entry of the key lies before the slot put() chose (hashmap.c:61-102).
THEOREM WritesAreRead == Spec => ReadYourWrite
<1> DEFINE Read(t, k, v, force) ==
              Put(t, k, v, force) /\ ~crashed' => Lookup(nodes', k) = v
           AllRead == \A t \in Threads, k \in Keys, force \in BOOLEAN :
                         \A v \in ValuesOf[k] : Read(t, k, v, force)
<1>1. TypeOK => AllRead
  BY StoreIsRead DEF Put
<1>2. Spec => [][AllRead]_vars
  <2> HIDE DEF AllRead
  <2> QED
    BY <1>1, TypeCorrect, PTL
<1> QED
  BY <1>2 DEF ReadYourWrite
-----------------------------------------------------------------------------
(* Other keys                                                              *)

\* An insertion changes the lookup of another key only if it overwrites that key in
\* the home slot of a full map.
LEMMA StoreKeepsOthers ==
    ASSUME IInv, NEW t \in Threads, NEW k \in Keys, NEW v \in ValuesOf[k],
           NEW force \in BOOLEAN, Store(t, k, v, force),
           NEW o \in Keys \ {k}, Lookup(nodes', o) # Lookup(nodes, o)
    PROVE  Full /\ o = nodes[Home[k]].key
<1> DEFINE slot == Targets(nodes, k, Full /\ force)
<1>1. nodes' = [s \in Slots |-> IF s \in slot THEN Node(k, v, FALSE) ELSE nodes[s]]
  BY DEF Store
<1>2. Reached(nodes) /\ Reached(nodes')
  BY StoreReaches DEF IInv
<1>3. PICK s \in Slots : \/ node_has_key(nodes'[s], o) # node_has_key(nodes[s], o)
                         \/ node_has_key(nodes[s], o) /\ nodes'[s] # nodes[s]
  BY <1>2, SameLookup DEF node_has_key
<1>4. s \in slot
  BY <1>1, <1>3
<1>5. nodes'[s] = Node(k, v, FALSE)
  BY <1>1, <1>4
<1>6. node_has_key(nodes[s], o)
  BY <1>3, <1>5 DEF node_has_key, Node
<1>7. ~nodes[s].tombstone /\ nodes[s].key = o /\ o # NULL
  BY <1>6, NoKeyAssumption DEF node_has_key
<1>8. ASSUME NEW f \in Slots, EndsAt(nodes, k, f), slot = {Index(k, f)}
      PROVE  FALSE
  <2>1. s = Index(k, f)
    BY <1>4, <1>8
  <2> QED
    BY <1>7, <1>8, <2>1 DEF EndsAt, SearchStops, node_has_key, node_is_empty
<1>9. (Full /\ force) /\ slot = {Home[k]}
  <2>1. (Full /\ force) \in BOOLEAN
    BY DEF Full
  <2>2. slot # {} /\ \A r \in Slots : slot = {r} => ~nodes[r].tombstone
    BY <1>4, <1>7
  <2> QED
    BY <1>8, <2>1, <2>2, TargetIs, Zenon
<1> QED
  BY <1>4, <1>7, <1>9

\* A deletion changes the lookup of another key only if that is in the home slot.
LEMMA DeleteKeepsOthers ==
    ASSUME IInv, NEW t \in Threads, NEW k \in Keys, Delete(t, k),
           NEW o \in Keys \ {k}, Lookup(nodes', o) # Lookup(nodes, o)
    PROVE  o = nodes[Home[k]].key
<1>1. Reached(nodes) /\ Reached(nodes')
  BY DeleteReaches DEF IInv
<1>2. Home[k] \in Slots
  BY HomeAssumption
<1>3. nodes' = [nodes EXCEPT ![Home[k]] = [nodes[Home[k]] EXCEPT !.tombstone = TRUE]]
  BY DEF Delete
<1>4. /\ \A s \in Slots \ {Home[k]} : nodes'[s] = nodes[s]
      /\ nodes'[Home[k]] = [nodes[Home[k]] EXCEPT !.tombstone = TRUE]
  BY <1>2, <1>3 DEF IInv, TypeOK
<1>5. nodes'[Home[k]].tombstone
  BY <1>2, <1>4 DEF IInv, TypeOK, Nodes
<1>6. SUFFICES ASSUME o # nodes[Home[k]].key
               PROVE  FALSE
  OBVIOUS
<1>7. \A s \in Slots : /\ node_has_key(nodes'[s], o) <=> node_has_key(nodes[s], o)
                       /\ node_has_key(nodes[s], o) => nodes'[s] = nodes[s]
  BY <1>4, <1>5, <1>6 DEF node_has_key
<1> QED
  BY <1>1, <1>7, SameLookup

\* put() and delete() of a key change what get() returns for no other key, but for
\* the one in the key's home slot, and put() for that one only in a full map
\* (hashmap.c:62-66, 181, 190: a search for a third key is never cut short).
THEOREM OthersAreKept == Spec => OthersKept
<1> DEFINE Kept(o) ==
              Lookup(nodes', o) # Lookup(nodes, o) =>
                 \A t \in Threads, k \in Keys \ {o} :
                    /\ \A force \in BOOLEAN : \A v \in ValuesOf[k] :
                          Put(t, k, v, force) => Full /\ o = nodes[Home[k]].key
                    /\ Delete(t, k) => o = nodes[Home[k]].key
           AllKept == \A o \in Keys : Kept(o)
<1>1. IInv => AllKept
  BY StoreKeepsOthers, DeleteKeepsOthers DEF Put
<1>2. Spec => [][AllKept]_vars
  <2> HIDE DEF AllKept
  <2> QED
    BY <1>1, Invariant, PTL
<1> QED
  BY <1>2 DEF OthersKept
-----------------------------------------------------------------------------
(* The count                                                               *)

\* The live entries are finitely many, and no more than slots.
LEMMA LiveIsFinite ==
    ASSUME NEW tab
    PROVE  /\ IsFiniteSet(Slots) /\ Cardinality(Slots) = Capacity
           /\ Live(tab) \subseteq Slots
           /\ IsFiniteSet(Live(tab))
           /\ Cardinality(Live(tab)) \in Nat
           /\ Cardinality(Live(tab)) <= Capacity
           /\ Cardinality(Live(tab)) = Capacity => Live(tab) = Slots
<1>1. IsFiniteSet(Slots) /\ Cardinality(Slots) = Capacity
  BY FS_Interval, Numbers DEF Slots
<1>2. Live(tab) \in SUBSET Slots
  BY DEF Live
<1> QED
  BY <1>1, <1>2, FS_Subset, FS_CardinalityType

\* A table with a slot that is not live takes every insertion.
LEMMA RoomIsFound ==
    ASSUME NEW tab \in [Slots -> Nodes], Live(tab) # Slots, NEW k \in Keys
    PROVE  Targets(tab, k, FALSE) # {}
<1>1. PICK s \in Slots : tab[s].key = NULL \/ tab[s].tombstone
  BY DEF Live
<1>2. PICK d \in Slots : Index(k, d) = s
  BY IndexVisits
<1>3. CASE ~tab[s].tombstone
  <2>1. d \in PutStops(tab, k)
    BY <1>1, <1>2, <1>3 DEF PutStops, can_put_key, node_is_empty
  <2> QED
    BY <2>1, Zenon DEF Targets, FirstSlot
<1>4. CASE tab[s].tombstone
  <2>1. d \in Tombstones(tab, k)
    BY <1>2, <1>4 DEF Tombstones
  <2> QED
    BY <2>1, Zenon DEF Targets, FirstSlot
<1> QED
  BY <1>3, <1>4

\* An insertion into a table that is counted right leaves it so, and finds a slot.
LEMMA PutCounts ==
    ASSUME TypeOK, Counted, NEW t \in Threads, NEW k \in Keys, NEW v \in ValuesOf[k],
           NEW force \in BOOLEAN, Put(t, k, v, force)
    PROVE  Counted' /\ ~crashed'
<1> DEFINE slot == Targets(nodes, k, Full /\ force)
<1>1. /\ nodes' = [s \in Slots |-> IF s \in slot THEN Node(k, v, FALSE) ELSE nodes[s]]
      /\ crashed' = (slot = {})
  BY DEF Put, Store
<1>2. size \in Nat /\ Cardinality(Live(nodes)) <= size /\ size <= Capacity
  BY Numbers DEF TypeOK, Counted
<1>3. CASE Full
  <2>1. (Full /\ force) = TRUE
    BY <1>3 DEF Put, Full
  <2>2. slot = {Home[k]}
    BY <2>1, Zenon DEF Targets
  <2>3. ~crashed' /\ size' = size
    BY <1>1, <1>3, <2>2 DEF Put, Store
  <2>4. Cardinality(Live(nodes')) <= Capacity
    BY LiveIsFinite
  <2> QED
    BY <1>3, <2>3, <2>4 DEF Counted, Full
<1>4. CASE ~Full
  <2>1. size < Capacity
    BY <1>2, <1>4, Numbers DEF Full
  <2>2. Live(nodes) # Slots
    BY <1>2, <2>1, LiveIsFinite, Numbers
  <2>3. (Full /\ force) = FALSE
    BY <1>4 DEF Full
  <2>4. slot # {}
    BY <2>2, <2>3, RoomIsFound DEF TypeOK
  <2>5. size' = size + 1
    BY <1>2, <1>4, <2>1, <2>4, Numbers DEF Put, Store
  <2>6. PICK s \in Slots : slot = {s}
    BY <2>3, <2>4, OneTarget
  <2>7. Live(nodes') \subseteq Live(nodes) \cup {s}
    BY <1>1, <2>6 DEF Live
  <2>8. /\ Cardinality(Live(nodes')) \in Nat /\ Cardinality(Live(nodes)) \in Nat
        /\ Cardinality(Live(nodes')) <= Cardinality(Live(nodes)) + 1
    BY <2>7, LiveIsFinite, OneMore
  <2>9. Cardinality(Live(nodes')) <= size' /\ size' <= Capacity
    BY <1>2, <2>1, <2>5, <2>8, Numbers
  <2> QED
    BY <1>1, <2>4, <2>9 DEF Counted
<1> QED
  BY <1>3, <1>4

\* The operations that neither insert nor delete keep a table that is counted right.
LEMMA OthersCount ==
    ASSUME Counted, NEW t \in Threads, ~crashed,
           \/ Refuse(t) \/ PutRefused(t) \/ ClearMap(t) \/ InvalidateMap(t)
           \/ \E k \in Keys : Get(t, k)
    PROVE  Counted' /\ ~crashed'
<1>1. CASE ClearMap(t) \/ InvalidateMap(t)
  <2>1. /\ nodes' = [s \in Slots |-> EmptyNode]
        /\ size' = 0 /\ crashed' = crashed
    BY <1>1 DEF ClearMap, InvalidateMap
  <2>2. Live(nodes') = {}
    BY <2>1 DEF Live, EmptyNode, Node
  <2> QED
    BY <2>1, <2>2, FS_EmptySet, Numbers DEF Counted
<1>2. CASE Refuse(t) \/ PutRefused(t) \/ \E k \in Keys : Get(t, k)
  <2>1. UNCHANGED <<nodes, size, crashed>>
    BY <1>2 DEF Refuse, PutRefused, Get
  <2>2. Live(nodes') = Live(nodes)
    BY <2>1
  <2> QED
    BY <2>1, <2>2 DEF Counted
<1> QED
  BY <1>1, <1>2

\* Only delete() can make size less than the number of entries, or wrap; while
\* it is not, put() finds a slot and does not dereference NULL
\* (hashmap.c:62-67, 92-94, 103, 193).
THEOREM OnlyDeletesMiscount == Spec => OnlyDeleteMiscounts
<1> DEFINE Keeps == Counted => \/ Counted' /\ ~crashed'
                               \/ \E t \in Threads, k \in Keys : Delete(t, k)
<1>1. TypeOK /\ Next => Keeps
  BY PutCounts, OthersCount DEF Next, PutStep, OtherStep
<1>2. Spec => [][Keeps]_vars
  <2> HIDE DEF Keeps
  <2> QED
    BY <1>1, TypeCorrect, PTL DEF Spec
<1> QED
  BY <1>2 DEF OnlyDeleteMiscounts
=============================================================================
