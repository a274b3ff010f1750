--------------------------- MODULE HashMapProofs ---------------------------
(***************************************************************************)
(* The hash map as threads run it, for any number of writers and readers:  *)
(* the two locks keep writers apart, num_readers counts no reader that is  *)
(* not there, a get() that no writer overtook is exact, and the calls that *)
(* write are atomic, which is to say that they implement HashTable.        *)
(*                                                                         *)
(* ReadersCounted rests on who holds which lock (LockInv); QuietGet and    *)
(* the atomicity on what a writer has done so far to the table it found    *)
(* (BodyInv) and on how far a search that nobody disturbed has got         *)
(* (SearchInv).                                                            *)
(***************************************************************************)
EXTENDS HashMap, TLAPS, FiniteSetTheorems

\* The facts about searches and insertions, which are those of the abstract table.
Search == INSTANCE HashTableProofs WITH
             Threads <- Writers,
             nodes <- IF before = <<>> THEN nodes ELSE before.nodes,
             size <- IF before = <<>> THEN size ELSE before.size,
             crashed <- fault = "put",
             ret <- [w \in Writers |-> ret[w]]

\* The search for k comes to an end at offset d.
EndsAt(tab, k, d) == /\ d \in SearchStops(tab, k)
                     /\ \A e \in Slots : e < d => e \notin SearchStops(tab, k)

\* The operators of the two tables are the same.
LEMMA SameSearch ==
    /\ Search!Slots = Slots /\ Search!Values = Values /\ Search!Nodes = Nodes
    /\ \A k, d : Search!Index(k, d) = Index(k, d)
    /\ \A tab, k : Search!SearchStops(tab, k) = SearchStops(tab, k)
    /\ \A tab, k : Search!Found(tab, k) = Found(tab, k)
    /\ \A tab, k : Search!Lookup(tab, k) = Lookup(tab, k)
    /\ \A tab, k, d : Search!EndsAt(tab, k, d) = EndsAt(tab, k, d)
    /\ \A n, k : Search!node_has_key(n, k) = node_has_key(n, k)
    /\ \A tab, k, o : Search!Targets(tab, k, o) = Targets(tab, k, o)
<1>1. Search!Slots = Slots /\ Search!Values = Values
  BY DEF Search!Slots, Slots, Search!Values, Values
<1>2. Search!Nodes = Nodes
  BY <1>1 DEF Search!Nodes, Nodes
<1>3. \A k, d : Search!Index(k, d) = Index(k, d)
  BY DEF Search!Index, Index
<1>4. \A n, k : Search!node_has_key(n, k) = node_has_key(n, k)
  BY DEF Search!node_has_key, node_has_key
<1>5. \A tab, k : Search!SearchStops(tab, k) = SearchStops(tab, k)
  BY <1>1, Zenon
     DEF Search!SearchStops, SearchStops, Search!Index, Index, Search!Slots, Slots,
         Search!node_is_empty, node_is_empty, Search!node_has_key, node_has_key
<1>6. \A S : Search!First(S) = First(S)
  BY Zenon DEF Search!First, First
<1>7. \A tab, k : Search!Found(tab, k) = Found(tab, k)
  BY <1>3, <1>4, <1>5, <1>6 DEF Search!Found, Found
<1>8. \A tab, k : Search!Lookup(tab, k) = Lookup(tab, k)
  BY ZenonT(40)
     DEF Search!Lookup, Lookup, Search!Found, Found, Search!SearchStops, SearchStops,
         Search!Slots, Slots, Search!Index, Index, Search!First, First,
         Search!node_is_empty, node_is_empty, Search!node_has_key, node_has_key
<1>9. \A tab, k, d : Search!EndsAt(tab, k, d) = EndsAt(tab, k, d)
  BY <1>1, <1>5, Zenon DEF Search!EndsAt, EndsAt
<1>10. \A k, S : Search!FirstSlot(k, S) = FirstSlot(k, S)
  BY <1>3, <1>6 DEF Search!FirstSlot, FirstSlot
<1>11. /\ \A tab, k : Search!PutStops(tab, k) = PutStops(tab, k)
       /\ \A tab, k : Search!Tombstones(tab, k) = Tombstones(tab, k)
  BY Zenon
     DEF Search!PutStops, PutStops, Search!Tombstones, Tombstones, Search!Index, Index,
         Search!Slots, Slots, Search!can_put_key, can_put_key, Search!node_is_empty,
         node_is_empty, Search!node_has_key, node_has_key
<1>12. \A tab, k, o : Search!Targets(tab, k, o) = Targets(tab, k, o)
  BY <1>10, <1>11 DEF Search!Targets, Targets
<1> QED
  BY <1>1, <1>2, <1>3, <1>4, <1>5, <1>7, <1>8, <1>9, <1>12

\* The table is one for which they hold.
LEMMA SearchAssumptions ==
    /\ Capacity \in Nat \ {0}
    /\ Home \in [Keys -> Search!Slots]
    /\ NULL \notin Keys \cup Search!Values
    /\ SizeModulus \in Nat /\ SizeModulus > Capacity
BY SameSearch, CapacityAssumption, HomeAssumption, NoKeyAssumption, ModulusAssumption

LEMMA IndexVisits ==
    ASSUME NEW k \in Keys
    PROVE  /\ Index(k, 0) = Home[k]
           /\ \A d \in Slots : Index(k, d) \in Slots
           /\ \A d, e \in Slots : Index(k, d) = Index(k, e) => d = e
           /\ \A s \in Slots : \E d \in Slots : Index(k, d) = s
BY SearchAssumptions, SameSearch, Search!IndexVisits

LEMMA FoundAtEnd ==
    ASSUME NEW k \in Keys, NEW tab, NEW d, EndsAt(tab, k, d)
    PROVE  /\ node_has_key(tab[Index(k, d)], k) =>
                 /\ Found(tab, k) = {Index(k, d)}
                 /\ Lookup(tab, k) = tab[Index(k, d)].val
           /\ ~node_has_key(tab[Index(k, d)], k) =>
                 Found(tab, k) = {} /\ Lookup(tab, k) = NULL
BY SearchAssumptions, SameSearch, Search!FoundAtEnd

LEMMA NothingFound ==
    ASSUME NEW k \in Keys, NEW tab, SearchStops(tab, k) = {}
    PROVE  Found(tab, k) = {} /\ Lookup(tab, k) = NULL
BY DEF Found, Lookup

LEMMA LookupType ==
    ASSUME NEW k \in Keys, NEW tab \in [Slots -> Nodes]
    PROVE  Lookup(tab, k) \in Values \cup {NULL}
BY SearchAssumptions, SameSearch, Search!LookupType

LEMMA OneTarget ==
    ASSUME NEW k \in Keys, NEW tab, NEW overwrite \in BOOLEAN
    PROVE  \/ Targets(tab, k, overwrite) = {}
           \/ \E s \in Slots : Targets(tab, k, overwrite) = {s}
BY SearchAssumptions, SameSearch, Search!OneTarget
-----------------------------------------------------------------------------
(* The invariants                                                          *)

WriterPCs == {"idle", "write_lock", "spin", "fields_lock", "release"} \cup Body
ReadingPCs == {"home", "match", "stop", "confirm", "value", "exit"}
GetterPCs == {"idle", "get_spin", "get_enter"} \cup ReadingPCs
GetCalls == {Call("get", k, NULL, FALSE) : k \in Keys}
Calls == WriterCalls \cup GetCalls \cup {NoCall}

\* The types, and for each kind of thread where it may be and in which call.
TypeInv == /\ nodes \in [Slots -> Nodes]
           /\ size \in Int
           /\ num_readers \in Int
           /\ write_lock \in Writers \cup {NULL}
           /\ fields_lock \in Writers \cup {NULL}
           /\ invalid \in BOOLEAN
           /\ pc \in [Threads -> WriterPCs \cup GetterPCs]
           /\ call \in [Threads -> Calls]
           /\ at \in [Threads -> Nat]
           /\ ret \in [Threads -> Values \cup {NULL, OK}]
           /\ \A w \in Writers : /\ pc[w] \in WriterPCs
                                 /\ pc[w] # "idle" => call[w] \in WriterCalls
           /\ \A g \in Getters : /\ pc[g] \in GetterPCs
                                 /\ pc[g] # "idle" => call[g] \in GetCalls

\* Who is where holds which lock.
LockInv == /\ \A w \in Writers :
                 pc[w] \in {"spin", "fields_lock", "release"} \cup Body
                    <=> write_lock = w
           /\ \A w \in Writers : pc[w] \in Body <=> fields_lock = w

\* num_readers counts no more than the readers, and is -1 under a writer.
CountInv == /\ num_readers <= Cardinality(Reading)
            /\ fields_lock # NULL => num_readers = -1

\* What a put() by w at work on the table it found has written so far.
Overwriting(w) == before.size = Capacity /\ call[w].force
Chosen(w) == Targets(before.nodes, call[w].key, Overwriting(w)) = {at[w]}
PutTo(w, n) == /\ call[w].op = "put"
               /\ Chosen(w)
               /\ at[w] \in Slots
               /\ nodes = [before.nodes EXCEPT ![at[w]] = n]
OldNode(w) == before.nodes[at[w]]

\* Where a writer behind both locks is in its operation says what the table it
\* found has become.
Done(w) ==
    /\ ~invalid
    /\ before = [nodes |-> before.nodes, size |-> before.size]
    /\ before.nodes \in [Slots -> Nodes]
    /\ before.size \in 0 .. SizeModulus - 1
    /\ pc[w] # "put_size" => size = before.size
    /\ pc[w] = "body" => nodes = before.nodes
    /\ pc[w] = "put_val" =>
          PutTo(w, Node(call[w].key, OldNode(w).val, OldNode(w).tombstone))
    /\ pc[w] = "put_tombstone" =>
          PutTo(w, Node(call[w].key, call[w].val, OldNode(w).tombstone))
    /\ pc[w] = "put_size" =>
          /\ PutTo(w, Node(call[w].key, call[w].val, FALSE))
          /\ size = IF Overwriting(w) THEN before.size - 1 ELSE before.size
    /\ pc[w] = "wipe" =>
          /\ call[w].op \in {"clear", "invalidate"}
          /\ at[w] \in 0 .. Capacity
          /\ \A s \in Slots : s < at[w] => nodes[s] = EmptyNode

BodyInv == /\ before = <<>> <=> fields_lock = NULL
           /\ fields_lock = NULL => size \in 0 .. SizeModulus - 1
           /\ \A w \in Writers : pc[w] \in Body => Done(w)

\* A search that got to offset d met neither an empty slot nor the key.
Past(k, d) == \A e \in Slots : e < d => e \notin SearchStops(nodes, k)

\* The offsets a reader is at are offsets, and it has found nothing yet.
ReaderInv == \A g \in Getters :
    /\ pc[g] \in {"idle", "get_spin", "get_enter", "home"} => at[g] = 0
    /\ pc[g] # "idle" => at[g] \in Slots
    /\ pc[g] \notin {"idle", "exit"} => ret[g] = NULL

\* How far a search has got that no writer overtook.
SearchAt(g) ==
    LET k == call[g].key
        d == at[g]
    IN  /\ pc[g] \in {"match", "stop"} => Past(k, d)
        /\ pc[g] = "match" => ~node_is_empty(nodes[Index(k, d)])
        /\ pc[g] = "confirm" => EndsAt(nodes, k, d) \/ SearchStops(nodes, k) = {}
        /\ pc[g] = "value" => /\ EndsAt(nodes, k, d)
                              /\ node_has_key(nodes[Index(k, d)], k)
        /\ pc[g] = "exit" => ret[g] = Lookup(nodes, k)
SearchInv == \A g \in Reading \ raced :
                /\ fields_lock = NULL
                /\ ~invalid
                /\ SearchAt(g)

IInv == /\ TypeInv
        /\ LockInv
        /\ CountInv
        /\ BodyInv
        /\ ReaderInv
        /\ SearchInv
-----------------------------------------------------------------------------
(* Facts that every step rests on                                          *)

\* The constants are what the proofs take them for.
LEMMA Constants ==
    /\ Capacity \in Nat /\ Capacity > 0
    /\ SizeModulus \in Nat /\ SizeModulus > Capacity
    /\ 0 \in Slots /\ \A s \in Slots : s \in Nat
    /\ NULL \notin Threads
    /\ Writers \subseteq Threads /\ Getters \subseteq Threads
    /\ Threads = Writers \cup Getters /\ Writers \cap Getters = {}
BY CapacityAssumption, ModulusAssumption, RolesAssumption, NoThreadAssumption
   DEF Slots, Threads

\* What the calls of writers and readers are.
LEMMA CallIs ==
    /\ \A c \in WriterCalls :
          \/ /\ c.op = "put" /\ c.key \in Keys
             /\ c.val \in ValuesOf[c.key] /\ c.val \in Values
             /\ c.force \in BOOLEAN
          \/ c.op = "delete" /\ c.key \in Keys
          \/ c.op \in {"clear", "invalidate"}
    /\ \A c \in GetCalls : c.op = "get" /\ c.key \in Keys
    /\ WriterCalls \subseteq Calls /\ GetCalls \subseteq Calls /\ NoCall \in Calls
    /\ \A k \in Keys : Call("get", k, NULL, FALSE) \in GetCalls
<1>1. \A c \in WriterCalls :
         \/ /\ c.op = "put" /\ c.key \in Keys
            /\ c.val \in ValuesOf[c.key] /\ c.val \in Values
            /\ c.force \in BOOLEAN
         \/ c.op = "delete" /\ c.key \in Keys
         \/ c.op \in {"clear", "invalidate"}
  BY DEF WriterCalls, Call, Values
<1>2. \A c \in GetCalls : c.op = "get" /\ c.key \in Keys
  BY DEF GetCalls, Call
<1>3. /\ WriterCalls \subseteq Calls /\ GetCalls \subseteq Calls /\ NoCall \in Calls
      /\ \A k \in Keys : Call("get", k, NULL, FALSE) \in GetCalls
  BY Zenon DEF GetCalls, Calls
<1> QED
  BY <1>1, <1>2, <1>3

\* A node with one field written.
LEMMA NodeFields ==
    ASSUME NEW n \in Nodes, NEW k \in Keys, NEW v \in Values \cup {NULL}, NEW b \in BOOLEAN
    PROVE  /\ [n EXCEPT !.key = k] = Node(k, n.val, n.tombstone)
           /\ [n EXCEPT !.val = v] = Node(n.key, v, n.tombstone)
           /\ [n EXCEPT !.tombstone = b] = Node(n.key, n.val, b)
           /\ n.val \in Values \cup {NULL} /\ n.tombstone \in BOOLEAN
           /\ n.key \in Keys \cup {NULL}
           /\ Node(k, v, b) \in Nodes /\ Node(n.key, v, b) \in Nodes
           /\ EmptyNode \in Nodes
BY DEF Nodes, Node, EmptyNode

\* A table with one field of one node written.
LEMMA TableFields ==
    ASSUME NEW tab \in [Slots -> Nodes], NEW s \in Slots,
           NEW k \in Keys, NEW v \in Values \cup {NULL}, NEW b \in BOOLEAN
    PROVE  /\ [tab EXCEPT ![s].key = k]
                 = [tab EXCEPT ![s] = Node(k, tab[s].val, tab[s].tombstone)]
           /\ [tab EXCEPT ![s].val = v]
                 = [tab EXCEPT ![s] = Node(tab[s].key, v, tab[s].tombstone)]
           /\ [tab EXCEPT ![s].tombstone = b]
                 = [tab EXCEPT ![s] = Node(tab[s].key, tab[s].val, b)]
           /\ [tab EXCEPT ![s].key = k] \in [Slots -> Nodes]
           /\ [tab EXCEPT ![s].val = v] \in [Slots -> Nodes]
           /\ [tab EXCEPT ![s].tombstone = b] \in [Slots -> Nodes]
<1> DEFINE n == tab[s]
<1>1. n \in Nodes
  OBVIOUS
<1>2. /\ [n EXCEPT !.key = k] = Node(k, n.val, n.tombstone)
      /\ [n EXCEPT !.val = v] = Node(n.key, v, n.tombstone)
      /\ [n EXCEPT !.tombstone = b] = Node(n.key, n.val, b)
  BY <1>1, NodeFields
<1>3. /\ [tab EXCEPT ![s].key = k]
            = [tab EXCEPT ![s] = Node(k, n.val, n.tombstone)]
      /\ [tab EXCEPT ![s].val = v]
            = [tab EXCEPT ![s] = Node(n.key, v, n.tombstone)]
      /\ [tab EXCEPT ![s].tombstone = b]
            = [tab EXCEPT ![s] = Node(n.key, n.val, b)]
  BY <1>2, Zenon
<1>4. /\ Node(k, n.val, n.tombstone) \in Nodes
      /\ Node(n.key, v, n.tombstone) \in Nodes
      /\ Node(n.key, n.val, b) \in Nodes
  BY <1>1 DEF Node, Nodes
<1> QED
  BY <1>3, <1>4-----------------------------------------------------------------------------
(* The locks                                                               *)

\* Taking and leaving the locks keeps the account of who holds them.
LEMMA WriterLocks ==
    ASSUME TypeInv, LockInv, NEW w \in Writers, WriterStep(w)
    PROVE  LockInv'
<1> USE Constants DEF TypeInv, LockInv, Goto, Body, Start, Leave, Return, Forget,
                      Move, locks, locals, table, history
<1>1. CASE WriterCall(w) \/ WriterTurnedAway(w)
  BY <1>1 DEF WriterCall, WriterTurnedAway
<1>2. CASE TakeWriteLock(w)
  BY <1>2 DEF TakeWriteLock
<1>3. CASE WriterSpin(w) \/ WriterFindsInvalid(w)
  BY <1>3 DEF WriterSpin, WriterFindsInvalid
<1>4. CASE WriterEnter(w)
  BY <1>4 DEF WriterEnter
<1>5. CASE ReleaseWriteLock(w)
  BY <1>5 DEF ReleaseWriteLock
<1>6. CASE PutKey(w) \/ PutVal(w) \/ PutTombstone(w) \/ PutCrash(w)
  BY <1>6 DEF PutKey, PutVal, PutTombstone, PutCrash
<1>7. CASE WipeBegin(w) \/ WipeSlot(w)
  BY <1>7 DEF WipeBegin, WipeSlot
<1>8. CASE PutSize(w) \/ Delete(w) \/ WipeEnd(w)
  BY <1>8, SMTT(30) DEF PutSize, Delete, WipeEnd
<1> QED
  BY <1>1, <1>2, <1>3, <1>4, <1>5, <1>6, <1>7, <1>8 DEF WriterStep, WriterWork

\* Readers take fields_lock for the length of a step.
LEMMA GetterLocks ==
    ASSUME TypeInv, LockInv, NEW g \in Getters, GetterStep(g)
    PROVE  LockInv'
<1> USE Constants DEF TypeInv, LockInv, Goto, Start, Return, Forget, Move, Reads,
                      locks, locals, table, history
<1>1. CASE GetCall(g) \/ GetTurnedAway(g) \/ GetSpin(g) \/ GetEnter(g)
  <2>1. CASE GetCall(g)
    BY <2>1 DEF GetCall
  <2>2. CASE GetTurnedAway(g) \/ GetSpin(g)
    BY <2>2 DEF GetTurnedAway, GetSpin
  <2>3. CASE GetEnter(g)
    BY <2>3 DEF GetEnter
  <2> QED
    BY <1>1, <2>1, <2>2, <2>3
<1>2. CASE GetFindsInvalid(g) \/ GetHome(g) \/ GetMatch(g) \/ GetStop(g)
  <2>1. CASE GetFindsInvalid(g) \/ GetHome(g)
    BY <2>1 DEF GetFindsInvalid, GetHome
  <2>2. CASE GetMatch(g) \/ GetStop(g)
    BY <2>2 DEF GetMatch, GetStop
  <2> QED
    BY <1>2, <2>1, <2>2
<1>3. CASE GetConfirm(g) \/ GetValue(g)
  BY <1>3 DEF GetConfirm, GetValue
<1>4. CASE GetFault(g)
  BY <1>4 DEF GetFault
<1>5. CASE GetExit(g)
  BY <1>5 DEF GetExit
<1> QED
  BY <1>1, <1>2, <1>3, <1>4, <1>5 DEF GetterStep, GetterWork
-----------------------------------------------------------------------------
(* The types                                                               *)

\* The writers' steps keep the types.
LEMMA WriterTypes ==
    ASSUME IInv, NEW w \in Writers, WriterStep(w)
    PROVE  TypeInv'
<1> USE Constants, CallIs
    DEF IInv, TypeInv, Goto, Body, Start, Leave, Return, Forget,
        Move, locks, locals, table, history, WriterPCs
<1>1. CASE WriterCall(w)
  BY <1>1 DEF WriterCall
<1>2. CASE WriterTurnedAway(w) \/ TakeWriteLock(w) \/ WriterSpin(w)
  BY <1>2 DEF WriterTurnedAway, TakeWriteLock, WriterSpin
<1>3. CASE WriterEnter(w) \/ WriterFindsInvalid(w) \/ ReleaseWriteLock(w)
  BY <1>3 DEF WriterEnter, WriterFindsInvalid, ReleaseWriteLock
<1>4. CASE PutKey(w)
  <2>1. call[w].key \in Keys
    BY <1>4 DEF PutKey
  <2>2. Overwrites(w) \in BOOLEAN
    BY <1>4 DEF PutKey, Overwrites, Full
  <2>3. PICK s \in Targets(nodes, call[w].key, Overwrites(w)) :
           nodes' = [nodes EXCEPT ![s].key = call[w].key] /\ Move(w, s)
    BY <1>4 DEF PutKey
  <2>4. s \in Slots
    BY <2>1, <2>2, <2>3, OneTarget
  <2>5. nodes' \in [Slots -> Nodes]
    BY <2>1, <2>3, <2>4, TableFields
  <2> QED
    BY <1>4, <2>3, <2>4, <2>5 DEF PutKey
<1>5. CASE PutVal(w)
  <2>1. at[w] \in Slots /\ call[w].val \in Values
    BY <1>5 DEF PutVal, BodyInv, Done, PutTo
  <2>2. nodes' \in [Slots -> Nodes]
    <3>1. nodes' = [nodes EXCEPT ![at[w]].val = call[w].val]
      BY <1>5 DEF PutVal
    <3>2. nodes \in [Slots -> Nodes] /\ call[w].key \in Keys
      BY <1>5 DEF PutVal, BodyInv, Done, PutTo
    <3> QED
      BY <2>1, <3>1, <3>2, TableFields
  <2> QED
    BY <1>5, <2>2 DEF PutVal
<1>6. CASE PutTombstone(w)
  <2>1. at[w] \in Slots
    BY <1>6 DEF PutTombstone, BodyInv, Done, PutTo
  <2>2. nodes' \in [Slots -> Nodes]
    <3>1. nodes' = [nodes EXCEPT ![at[w]].tombstone = FALSE]
      BY <1>6 DEF PutTombstone
    <3>2. nodes \in [Slots -> Nodes] /\ call[w].key \in Keys /\ NULL \in Values \cup {NULL}
      BY <1>6 DEF PutTombstone, BodyInv, Done, PutTo
    <3> QED
      BY <2>1, <3>1, <3>2, TableFields
  <2> QED
    BY <1>6, <2>2 DEF PutTombstone
<1>7. CASE PutSize(w)
  <2>1. size' \in Int
    BY <1>7 DEF PutSize
  <2> QED
    BY <1>7, <2>1 DEF PutSize
<1>8. CASE Delete(w)
  <2>1. call[w].key \in Keys /\ Home[call[w].key] \in Slots
    BY <1>8, HomeAssumption DEF Delete
  <2>2. nodes' \in [Slots -> Nodes]
    BY <1>8, <2>1, TableFields DEF Delete
  <2>3. ret' \in [Threads -> Values \cup {NULL, OK}]
    BY <1>8, <2>1, LookupType DEF Delete
  <2>4. size' \in Int
    BY <1>8 DEF Delete
  <2> QED
    BY <1>8, <2>2, <2>3, <2>4, SMTT(30) DEF Delete
<1>9. CASE WipeBegin(w) \/ PutCrash(w)
  <2>1. CASE WipeBegin(w)
    BY <2>1 DEF WipeBegin
  <2>2. CASE PutCrash(w)
    BY <2>2 DEF PutCrash
  <2> QED
    BY <1>9, <2>1, <2>2
<1>10. CASE WipeSlot(w)
  <2>1. at[w] \in Slots
    BY <1>10 DEF WipeSlot, Slots
  <2>2. nodes' \in [Slots -> Nodes]
    BY <1>10, <2>1 DEF WipeSlot, EmptyNode, Node, Nodes
  <2> QED
    BY <1>10, <2>2 DEF WipeSlot
<1>11. CASE WipeEnd(w)
  BY <1>11 DEF WipeEnd
<1> QED
  BY <1>1, <1>2, <1>3, <1>4, <1>5, <1>6, <1>7, <1>8, <1>9, <1>10, <1>11
     DEF WriterStep, WriterWork

\* The readers' steps keep the types.
LEMMA GetterTypes ==
    ASSUME IInv, NEW g \in Getters, GetterStep(g)
    PROVE  TypeInv'
<1> USE Constants, CallIs
    DEF IInv, TypeInv, Goto, Start, Return, Forget, Move, Reads,
        locks, locals, table, history, GetterPCs, ReadingPCs
<1>1. CASE GetCall(g)
  <2>1. PICK k \in Keys : Start(g, "get_spin", Call("get", k, NULL, FALSE))
    BY <1>1 DEF GetCall
  <2>2. /\ call' = [call EXCEPT ![g] = Call("get", k, NULL, FALSE)]
        /\ pc' = [pc EXCEPT ![g] = "get_spin"]
        /\ ret' = [ret EXCEPT ![g] = NULL]
        /\ UNCHANGED <<table, locks, invalid, fault, at, history>>
    BY <1>1, <2>1 DEF GetCall
  <2>3. Call("get", k, NULL, FALSE) \in GetCalls
    BY DEF GetCalls
  <2> QED
    BY <2>2, <2>3, ZenonT(40)
<1>2. CASE GetTurnedAway(g) \/ GetSpin(g) \/ GetEnter(g) \/ GetFindsInvalid(g)
  <2>1. CASE GetTurnedAway(g) \/ GetFindsInvalid(g)
    BY <2>1 DEF GetTurnedAway, GetFindsInvalid
  <2>2. CASE GetSpin(g) \/ GetEnter(g)
    BY <2>2 DEF GetSpin, GetEnter
  <2> QED
    BY <1>2, <2>1, <2>2
<1>3. CASE GetHome(g) \/ GetStop(g) \/ GetConfirm(g)
  <2>1. CASE GetHome(g)
    BY <2>1 DEF GetHome
  <2>2. CASE GetStop(g) \/ GetConfirm(g)
    BY <2>2 DEF GetStop, GetConfirm
  <2> QED
    BY <1>3, <2>1, <2>2
<1>4. CASE GetMatch(g)
  <2>1. Onward(g) \in Nat
    BY DEF Onward
  <2>2. pc'[g] \in {"value", "confirm", "stop"} /\ pc' = [pc EXCEPT ![g] = pc'[g]]
    BY <1>4, Zenon DEF GetMatch
  <2>3. at' \in [Threads -> Nat]
    BY <1>4, <2>1 DEF GetMatch
  <2> QED
    BY <1>4, <2>2, <2>3 DEF GetMatch
<1>5. CASE GetValue(g)
  <2>1. Index(call[g].key, at[g]) \in Slots
    BY <1>5, IndexVisits DEF GetValue, ReaderInv
  <2>2. Seen(g).val \in Values \cup {NULL}
    BY <2>1 DEF Seen, Nodes
  <2> QED
    BY <1>5, <2>2 DEF GetValue
<1>6. CASE GetFault(g)
  BY <1>6 DEF GetFault
<1>7. CASE GetExit(g)
  <2>1. num_readers' \in Int
    BY <1>7 DEF GetExit
  <2> QED
    BY <1>7, <2>1 DEF GetExit
<1> QED
  BY <1>1, <1>2, <1>3, <1>4, <1>5, <1>6, <1>7 DEF GetterStep, GetterWork
-----------------------------------------------------------------------------
(* The readers and their count                                             *)

\* No more readers than threads: they can be counted.
LEMMA ReadersAreFinite ==
    /\ IsFiniteSet(Reading)
    /\ Cardinality(Reading) \in Nat
BY FiniteAssumption, FS_Subset, FS_CardinalityType DEF Reading

\* A writer's step moves no reader.
LEMMA WriterLeavesReaders ==
    ASSUME TypeInv, NEW w \in Writers, WriterStep(w)
    PROVE  /\ \A g \in Getters : /\ pc'[g] = pc[g] /\ at'[g] = at[g]
                                 /\ ret'[g] = ret[g] /\ call'[g] = call[g]
           /\ Reading' = Reading
<1> USE Constants
    DEF TypeInv, Goto, Start, Leave, Return, Forget, Move, locals, table, locks,
        history
<1>1. \A g \in Getters : /\ pc'[g] = pc[g] /\ at'[g] = at[g]
                         /\ ret'[g] = ret[g] /\ call'[g] = call[g]
  <2>1. CASE WriterCall(w) \/ WriterTurnedAway(w) \/ TakeWriteLock(w)
             \/ WriterSpin(w)
    BY <2>1 DEF WriterCall, WriterTurnedAway, TakeWriteLock, WriterSpin
  <2>2. CASE WriterEnter(w) \/ WriterFindsInvalid(w) \/ ReleaseWriteLock(w)
    BY <2>2 DEF WriterEnter, WriterFindsInvalid, ReleaseWriteLock
  <2>3. CASE PutKey(w) \/ PutCrash(w) \/ PutVal(w) \/ PutTombstone(w) \/ PutSize(w)
    BY <2>3 DEF PutKey, PutCrash, PutVal, PutTombstone, PutSize
  <2>4. CASE Delete(w) \/ WipeBegin(w) \/ WipeSlot(w) \/ WipeEnd(w)
    BY <2>4 DEF Delete, WipeBegin, WipeSlot, WipeEnd
  <2> QED
    BY <2>1, <2>2, <2>3, <2>4 DEF WriterStep, WriterWork
<1> QED
  BY <1>1 DEF Reading

\* A reader's step leaves the writers, the table and the record of it alone.
LEMMA GetterLeavesWriters ==
    ASSUME TypeInv, NEW g \in Getters, GetterStep(g)
    PROVE  /\ \A w \in Writers : /\ pc'[w] = pc[w] /\ at'[w] = at[w]
                                 /\ ret'[w] = ret[w] /\ call'[w] = call[w]
           /\ \A h \in Getters \ {g} : /\ pc'[h] = pc[h] /\ at'[h] = at[h]
                                       /\ ret'[h] = ret[h] /\ call'[h] = call[h]
           /\ UNCHANGED <<nodes, size, invalid, before, write_lock, fields_lock>>
           /\ raced' \in {raced, raced \ {g}}
<1> USE Constants
    DEF TypeInv, Goto, Start, Return, Forget, Move, Reads, locals, table, locks,
        history
<1>1. CASE GetCall(g)
  BY <1>1 DEF GetCall
<1>2. CASE GetTurnedAway(g)
  BY <1>2 DEF GetTurnedAway
<1>3. CASE GetSpin(g) \/ GetFindsInvalid(g)
  BY <1>3 DEF GetSpin, GetFindsInvalid
<1>4. CASE GetEnter(g)
  BY <1>4 DEF GetEnter
<1>5. CASE GetHome(g) \/ GetMatch(g)
  BY <1>5 DEF GetHome, GetMatch
<1>6. CASE GetStop(g) \/ GetConfirm(g)
  BY <1>6 DEF GetStop, GetConfirm
<1>7. CASE GetValue(g)
  BY <1>7 DEF GetValue
<1>8. CASE GetFault(g)
  BY <1>8 DEF GetFault
<1>9. CASE GetExit(g)
  BY <1>9 DEF GetExit
<1> QED
  BY <1>1, <1>2, <1>3, <1>4, <1>5, <1>6, <1>7, <1>8, <1>9 DEF GetterStep, GetterWork

\* A writer sets num_readers to -1 under fields_lock and to no more than 0 outside.
LEMMA WriterCounts ==
    ASSUME IInv, NEW w \in Writers, WriterStep(w)
    PROVE  CountInv'
<1> USE DEF IInv
<1>1. Reading' = Reading /\ Cardinality(Reading) \in Nat
  BY WriterLeavesReaders, ReadersAreFinite
<1> USE <1>1, Constants
    DEF CountInv, TypeInv, LockInv, Goto, Body, Start, Leave, locks, locals, table,
        history
<1>2. CASE WriterCall(w) \/ WriterTurnedAway(w) \/ TakeWriteLock(w) \/ WriterSpin(w)
  BY <1>2 DEF WriterCall, WriterTurnedAway, TakeWriteLock, WriterSpin
<1>3. CASE WriterEnter(w) \/ WriterFindsInvalid(w) \/ ReleaseWriteLock(w)
  BY <1>3 DEF WriterEnter, WriterFindsInvalid, ReleaseWriteLock
<1>4. CASE PutKey(w) \/ PutCrash(w) \/ PutVal(w) \/ PutTombstone(w)
           \/ WipeBegin(w) \/ WipeSlot(w)
  BY <1>4 DEF PutKey, PutCrash, PutVal, PutTombstone, WipeBegin, WipeSlot
<1>5. CASE PutSize(w) \/ Delete(w) \/ WipeEnd(w)
  BY <1>5 DEF PutSize, Delete, WipeEnd
<1> QED
  BY <1>2, <1>3, <1>4, <1>5 DEF WriterStep, WriterWork

\* A reader counts itself when it begins to read and takes itself off at its end.
LEMMA GetterCounts ==
    ASSUME IInv, NEW g \in Getters, GetterStep(g)
    PROVE  CountInv'
<1> USE ReadersAreFinite, Constants DEF IInv, CountInv, TypeInv
<1>1. CASE GetEnter(g)
  <2>1. /\ num_readers' = num_readers + 1 /\ fields_lock' = fields_lock
        /\ fields_lock = NULL
    BY <1>1 DEF GetEnter
  <2>2. Reading' = Reading \cup {g} /\ g \notin Reading
    BY <1>1 DEF GetEnter, Goto, Reading
  <2>3. Cardinality(Reading') = Cardinality(Reading) + 1
    BY <2>2, FS_AddElement
  <2> QED
    BY <2>1, <2>3
<1>2. CASE GetExit(g)
  <2>1. /\ num_readers' \in {0, num_readers - 1} /\ fields_lock' = fields_lock
        /\ fields_lock = NULL
    BY <1>2 DEF GetExit
  <2>2. Reading' = Reading \ {g} /\ g \in Reading
    BY <1>2 DEF GetExit, Goto, Reading
  <2>3. Cardinality(Reading') = Cardinality(Reading) - 1
    BY <2>2, FS_RemoveElement
  <2>4. Cardinality(Reading') \in Nat
    BY <2>2, FS_RemoveElement, FS_CardinalityType
  <2> QED
    BY <2>1, <2>3, <2>4
<1>3. CASE GetCall(g) \/ GetTurnedAway(g) \/ GetSpin(g) \/ GetFindsInvalid(g)
  <2>1. Reading' = Reading /\ UNCHANGED <<num_readers, fields_lock>>
    BY <1>3 DEF GetCall, GetTurnedAway, GetSpin, GetFindsInvalid, Goto, Start, locks,
                Reading
  <2> QED
    BY <2>1
<1>4. CASE GetHome(g) \/ GetStop(g) \/ GetConfirm(g)
  <2>1. Reading' = Reading /\ UNCHANGED <<num_readers, fields_lock>>
    BY <1>4 DEF GetHome, GetStop, GetConfirm, Goto, Reads, locks, Reading
  <2> QED
    BY <2>1
<1>5. CASE GetMatch(g)
  <2>1. /\ pc[g] = "match" /\ pc' = [pc EXCEPT ![g] = pc'[g]]
        /\ pc'[g] \in {"value", "confirm", "stop"}
    BY <1>5, Zenon DEF GetMatch, Goto
  <2>2. Reading' = Reading /\ UNCHANGED <<num_readers, fields_lock>>
    BY <1>5, <2>1 DEF GetMatch, Reads, locks, Reading
  <2> QED
    BY <2>2
<1>6. CASE GetValue(g) \/ GetFault(g)
  <2>1. Reading' = Reading /\ UNCHANGED <<num_readers, fields_lock>>
    BY <1>6 DEF GetValue, GetFault, Goto, locks, Reading
  <2> QED
    BY <2>1
<1> QED
  BY <1>1, <1>2, <1>3, <1>4, <1>5, <1>6 DEF GetterStep, GetterWork
-----------------------------------------------------------------------------
(* Where the readers are                                                   *)

\* The offset a reader goes on to is one.
LEMMA OnwardIsOffset ==
    ASSUME NEW g \in Getters, at[g] \in Slots
    PROVE  /\ Onward(g) \in Slots
           /\ Onward(g) = IF at[g] + 1 < Capacity THEN at[g] + 1 ELSE 0
<1>1. Capacity \in Nat /\ Capacity > 0 /\ at[g] \in Nat /\ at[g] < Capacity
  BY Constants DEF Slots
<1>2. CASE at[g] + 1 < Capacity
  BY <1>1, <1>2 DEF Onward, Slots
<1>3. CASE at[g] + 1 = Capacity
  BY <1>1, <1>3 DEF Onward, Slots
<1> QED
  BY <1>1, <1>2, <1>3

\* A turn of the search loop, without the CASE of its definition.
LEMMA MatchTurn ==
    ASSUME TypeInv, ReaderInv, NEW g \in Getters, GetMatch(g)
    PROVE  /\ pc[g] = "match"
           /\ pc' = [pc EXCEPT ![g] = pc'[g]]
           /\ ret' = ret
           /\ \/ /\ node_has_key(Seen(g), call[g].key)
                 /\ pc'[g] = IF at[g] = 0 THEN "value" ELSE "confirm"
                 /\ at'[g] = at[g]
              \/ /\ ~node_has_key(Seen(g), call[g].key)
                 /\ pc'[g] = IF Onward(g) = 0 THEN "confirm" ELSE "stop"
                 /\ at'[g] = Onward(g)
<1>1. g \in Threads
  BY Constants
<1>2. CASE node_has_key(Seen(g), call[g].key)
  <2>1. /\ pc[g] = "match"
        /\ pc' = [pc EXCEPT ![g] = IF at[g] = 0 THEN "value" ELSE "confirm"]
        /\ at' = [at EXCEPT ![g] = at[g]]
        /\ ret' = ret
    BY <1>2, Zenon DEF GetMatch, Goto, Move, Reads
  <2> QED
    BY <1>1, <1>2, <2>1 DEF TypeInv
<1>3. CASE ~node_has_key(Seen(g), call[g].key)
  <2>1. /\ pc[g] = "match"
        /\ pc' = [pc EXCEPT ![g] = IF Onward(g) = 0 THEN "confirm" ELSE "stop"]
        /\ at' = [at EXCEPT ![g] = Onward(g)]
        /\ ret' = ret
    BY <1>3, Zenon DEF GetMatch, Goto, Move, Reads
  <2> QED
    BY <1>1, <1>3, <2>1 DEF TypeInv
<1> QED
  BY <1>2, <1>3

\* A reader's own step keeps what is known of its offset and of its result.
LEMMA GetterReads ==
    ASSUME IInv, NEW g \in Getters, GetterStep(g)
    PROVE  ReaderInv'
<1> USE DEF IInv
<1>1. \A h \in Getters \ {g} : /\ pc'[h] = pc[h] /\ at'[h] = at[h]
                               /\ ret'[h] = ret[h]
  BY GetterLeavesWriters
<1>2. SUFFICES /\ pc'[g] \in {"idle", "get_spin", "get_enter", "home"} => at'[g] = 0
               /\ pc'[g] # "idle" => at'[g] \in Slots
               /\ pc'[g] \notin {"idle", "exit"} => ret'[g] = NULL
  BY <1>1 DEF ReaderInv
<1>3. g \in Threads /\ 0 \in Slots
  BY Constants
<1> USE <1>3 DEF TypeInv, ReaderInv, Goto, Start, Return, Forget, Move, Reads, locals
<1>4. CASE GetCall(g)
  BY <1>4 DEF GetCall
<1>5. CASE GetTurnedAway(g)
  BY <1>5 DEF GetTurnedAway
<1>6. CASE GetSpin(g) \/ GetEnter(g) \/ GetFindsInvalid(g)
  BY <1>6 DEF GetSpin, GetEnter, GetFindsInvalid
<1>7. CASE GetHome(g) \/ GetStop(g) \/ GetConfirm(g)
  BY <1>7 DEF GetHome, GetStop, GetConfirm
<1>8. CASE GetMatch(g)
  BY <1>8, MatchTurn, OnwardIsOffset
<1>9. CASE GetValue(g) \/ GetExit(g)
  BY <1>9 DEF GetValue, GetExit
<1>10. CASE GetFault(g)
  BY <1>10 DEF GetFault
<1> QED
  BY <1>4, <1>5, <1>6, <1>7, <1>8, <1>9, <1>10 DEF GetterStep, GetterWork

\* A writer's step does not touch it.
LEMMA WriterReads ==
    ASSUME IInv, NEW w \in Writers, WriterStep(w)
    PROVE  ReaderInv'
BY WriterLeavesReaders DEF IInv, ReaderInv
-----------------------------------------------------------------------------
(* What a writer has done so far                                           *)

\* A writer that has write_lock is the only one behind the locks.
LEMMA WriterIsAlone ==
    ASSUME TypeInv, LockInv, NEW w \in Writers,
           pc[w] \in {"spin", "fields_lock", "release"} \cup Body
    PROVE  \A v \in Writers : v # w => pc[v] \notin Body
BY DEF LockInv

\* A step that changes nothing of the table, nor of a writer behind the locks.
LEMMA OthersKeepBody ==
    ASSUME BodyInv, UNCHANGED <<nodes, size, before, fields_lock, invalid>>,
           \A w \in Writers : pc'[w] \in Body =>
               pc'[w] = pc[w] /\ call'[w] = call[w] /\ at'[w] = at[w]
    PROVE  BodyInv'
<1>1. ASSUME NEW w \in Writers, pc'[w] \in Body
      PROVE  Done(w)'
  <2>1. Done(w)
    BY <1>1 DEF BodyInv
  <2> QED
    BY <1>1, <2>1 DEF Done, PutTo, Chosen, Overwriting, OldNode
<1> QED
  BY <1>1 DEF BodyInv

\* A reader's step is such a step.
LEMMA GetterKeepsBody ==
    ASSUME IInv, NEW g \in Getters, GetterStep(g)
    PROVE  BodyInv'
BY GetterLeavesWriters, OthersKeepBody DEF IInv

\* A table written twice in a slot is written once.
LEMMA WrittenOver ==
    ASSUME NEW tab \in [Slots -> Nodes], NEW s \in Slots, NEW n \in Nodes, NEW m \in Nodes
    PROVE  /\ [tab EXCEPT ![s] = n] \in [Slots -> Nodes]
           /\ [tab EXCEPT ![s] = n][s] = n
           /\ [[tab EXCEPT ![s] = n] EXCEPT ![s] = m] = [tab EXCEPT ![s] = m]
OBVIOUS

\* The writes of put() one after the other, from the key on.
LEMMA PutKeyBody ==
    ASSUME IInv, NEW w \in Writers, PutKey(w)
    PROVE  Done(w)'
<1> DEFINE k == call[w].key
<1>1. /\ pc[w] = "body" /\ pc' = [pc EXCEPT ![w] = "put_val"] /\ pc'[w] = "put_val"
      /\ call[w].op = "put" /\ w \in Threads
      /\ UNCHANGED <<size, call, before, invalid>>
  BY Constants DEF IInv, TypeInv, PutKey, Goto, history
<1>2. PICK s \in Targets(nodes, k, Overwrites(w)) :
         nodes' = [nodes EXCEPT ![s].key = k] /\ at' = [at EXCEPT ![w] = s]
  BY DEF PutKey, Move
<1>3. Done(w) /\ nodes = before.nodes /\ size = before.size
  BY <1>1 DEF IInv, BodyInv, Done, Body
<1>4. Overwriting(w) = Overwrites(w) /\ Overwrites(w) \in BOOLEAN
  BY <1>3 DEF Overwriting, Overwrites, Full
<1>5. k \in Keys
  BY <1>1, CallIs DEF IInv, TypeInv
<1>6. s \in Slots /\ Targets(nodes, k, Overwrites(w)) = {s}
  BY <1>2, <1>4, <1>5, OneTarget
<1>7. at'[w] = s
  BY <1>1, <1>2 DEF IInv, TypeInv
<1>8. Chosen(w)'
  BY <1>1, <1>3, <1>4, <1>6, <1>7 DEF Chosen, Overwriting
<1>9. nodes' = [before.nodes EXCEPT
                   ![s] = Node(k, before.nodes[s].val, before.nodes[s].tombstone)]
  <2>1. nodes \in [Slots -> Nodes] /\ s \in Slots
    BY <1>6 DEF IInv, TypeInv
  <2>2. [nodes EXCEPT ![s].key = k]
           = [nodes EXCEPT ![s] = Node(k, nodes[s].val, nodes[s].tombstone)]
    <3>1. [nodes[s] EXCEPT !.key = k] = Node(k, nodes[s].val, nodes[s].tombstone)
      BY <1>5, <2>1 DEF Node, Nodes
    <3> QED
      BY <3>1, Zenon
  <2> QED
    BY <1>2, <1>3, <2>2
<1>10. PutTo(w, Node(call[w].key, OldNode(w).val, OldNode(w).tombstone))'
  BY <1>1, <1>6, <1>7, <1>8, <1>9 DEF PutTo, OldNode
<1> QED
  BY <1>1, <1>3, <1>10 DEF Done

\* The value is written into the same slot,
LEMMA PutValBody ==
    ASSUME IInv, NEW w \in Writers, PutVal(w)
    PROVE  Done(w)'
<1> DEFINE k == call[w].key
           s == at[w]
           n == Node(k, OldNode(w).val, OldNode(w).tombstone)
           m == Node(k, call[w].val, OldNode(w).tombstone)
<1>1. /\ pc[w] = "put_val" /\ pc' = [pc EXCEPT ![w] = "put_tombstone"]
      /\ pc'[w] = "put_tombstone"
      /\ nodes' = [nodes EXCEPT ![s].val = call[w].val]
      /\ UNCHANGED <<size, call, at, before, invalid>>
  BY Constants DEF IInv, TypeInv, PutVal, Goto, history, locals
<1>2. Done(w) /\ PutTo(w, n)
  BY <1>1 DEF IInv, BodyInv, Done, Body
<1>3. /\ s \in Slots /\ k \in Keys /\ call[w].val \in Values
      /\ before.nodes \in [Slots -> Nodes] /\ nodes \in [Slots -> Nodes]
  BY <1>1, <1>2, CallIs DEF IInv, TypeInv, Done, PutTo
<1>4. n \in Nodes /\ m \in Nodes /\ n.key = k /\ n.tombstone = OldNode(w).tombstone
  BY <1>3 DEF OldNode, Node, Nodes
<1>5. nodes' = [nodes EXCEPT ![s] = Node(nodes[s].key, call[w].val, nodes[s].tombstone)]
  <2>1. [nodes[s] EXCEPT !.val = call[w].val]
           = Node(nodes[s].key, call[w].val, nodes[s].tombstone)
    BY <1>3 DEF Node, Nodes
  <2> QED
    BY <1>1, <2>1, Zenon
<1>6. nodes[s] = n /\ nodes' = [nodes EXCEPT ![s] = m]
  BY <1>2, <1>3, <1>4, <1>5 DEF PutTo
<1>7. nodes' = [before.nodes EXCEPT ![s] = m]
  <2> HIDE DEF n, m
  <2> QED
    BY <1>2, <1>3, <1>4, <1>6, WrittenOver DEF PutTo
<1>8. PutTo(w, Node(call[w].key, call[w].val, OldNode(w).tombstone))'
  BY <1>1, <1>2, <1>7 DEF PutTo, Chosen, Overwriting, OldNode
<1> QED
  BY <1>1, <1>2, <1>8 DEF Done

\* and the tombstone flag.
LEMMA PutTombstoneBody ==
    ASSUME IInv, NEW w \in Writers, PutTombstone(w)
    PROVE  Done(w)'
<1> DEFINE k == call[w].key
           s == at[w]
           n == Node(k, call[w].val, OldNode(w).tombstone)
           m == Node(k, call[w].val, FALSE)
<1>1. /\ pc[w] = "put_tombstone" /\ pc' = [pc EXCEPT ![w] = "put_size"]
      /\ pc'[w] = "put_size"
      /\ nodes' = [nodes EXCEPT ![s].tombstone = FALSE]
      /\ size' = IF Overwrites(w) THEN size - 1 ELSE size
      /\ UNCHANGED <<call, at, before, invalid>>
  BY Constants DEF IInv, TypeInv, PutTombstone, Goto, history, locals
<1>2. Done(w) /\ PutTo(w, n) /\ size = before.size
  BY <1>1 DEF IInv, BodyInv, Done, Body
<1>3. /\ s \in Slots /\ k \in Keys /\ call[w].val \in Values
      /\ before.nodes \in [Slots -> Nodes] /\ nodes \in [Slots -> Nodes]
  BY <1>1, <1>2, CallIs DEF IInv, TypeInv, Done, PutTo
<1>4. n \in Nodes /\ m \in Nodes /\ n.key = k /\ n.val = call[w].val
  BY <1>3 DEF OldNode, Node, Nodes
<1>5. nodes' = [nodes EXCEPT ![s] = Node(nodes[s].key, nodes[s].val, FALSE)]
  <2>1. [nodes[s] EXCEPT !.tombstone = FALSE]
           = Node(nodes[s].key, nodes[s].val, FALSE)
    <3>1. nodes[s] \in Nodes /\ FALSE \in BOOLEAN /\ NULL \in Values \cup {NULL}
      BY <1>3
    <3> QED
      BY <1>3, <3>1, NodeFields, Zenon
  <2> QED
    BY <1>1, <2>1, Zenon
<1>6. nodes[s] = n /\ nodes' = [nodes EXCEPT ![s] = m]
  BY <1>2, <1>3, <1>4, <1>5 DEF PutTo
<1>7. nodes' = [before.nodes EXCEPT ![s] = m]
  <2> HIDE DEF n, m
  <2> QED
    BY <1>2, <1>3, <1>4, <1>6, WrittenOver DEF PutTo
<1>8. PutTo(w, Node(call[w].key, call[w].val, FALSE))'
  BY <1>1, <1>2, <1>7 DEF PutTo, Chosen, Overwriting
<1>9. size' = IF Overwriting(w)' THEN before'.size - 1 ELSE before'.size
  BY <1>1, <1>2 DEF Overwriting, Overwrites, Full
<1> QED
  BY <1>1, <1>2, <1>8, <1>9 DEF Done

\* The loop that empties the slots one after the other.
LEMMA WipeBody ==
    ASSUME IInv, NEW w \in Writers, WipeBegin(w) \/ WipeSlot(w)
    PROVE  Done(w)'
<1>1. w \in Threads /\ pc[w] \in Body /\ Done(w)
  BY Constants DEF IInv, BodyInv, WipeBegin, WipeSlot, Goto, Body
<1>2. \A s \in Slots : s \in Nat /\ s < Capacity
  BY Constants DEF Slots
<1>3. CASE WipeBegin(w)
  <2>1. /\ pc[w] = "body" /\ pc'[w] = "wipe" /\ at'[w] = 0
        /\ call[w].op \in {"clear", "invalidate"}
        /\ UNCHANGED <<nodes, size, call, before, invalid>>
    BY <1>1, <1>3 DEF IInv, TypeInv, WipeBegin, Goto, Move, table, history
  <2> QED
    BY <1>1, <1>2, <2>1, Constants DEF Done
<1>4. CASE WipeSlot(w)
  <2>1. /\ pc[w] = "wipe" /\ pc'[w] = "wipe" /\ at'[w] = at[w] + 1
        /\ at[w] < Capacity
        /\ nodes' = [nodes EXCEPT ![at[w]] = EmptyNode]
        /\ UNCHANGED <<size, call, before, invalid>>
    BY <1>1, <1>4 DEF IInv, TypeInv, WipeSlot, Move, history
  <2>2. \A s \in Slots : s < at'[w] => nodes'[s] = EmptyNode
    <3>1. at[w] \in Slots /\ at[w] \in Nat /\ nodes \in [Slots -> Nodes]
      BY <1>1, <2>1, Constants DEF IInv, TypeInv, Done, Slots
    <3> QED
      BY <1>1, <1>2, <2>1, <3>1 DEF Done
  <2>3. at'[w] \in 0 .. Capacity
    BY <1>1, <2>1, Constants DEF Done
  <2> QED
    BY <1>1, <2>1, <2>2, <2>3 DEF Done
<1> QED
  BY <1>3, <1>4

\* A writer's step keeps the account of what it has done.
LEMMA WriterKeepsBody ==
    ASSUME IInv, NEW w \in Writers, WriterStep(w)
    PROVE  BodyInv'
<1> USE Constants DEF IInv
<1>1. CASE WriterCall(w) \/ WriterTurnedAway(w) \/ TakeWriteLock(w) \/ WriterSpin(w)
           \/ WriterFindsInvalid(w) \/ ReleaseWriteLock(w) \/ PutCrash(w)
  <2>1. UNCHANGED <<nodes, size, before, fields_lock, invalid>>
    BY <1>1 DEF WriterCall, WriterTurnedAway, TakeWriteLock, WriterSpin,
                WriterFindsInvalid, ReleaseWriteLock, PutCrash, table, locks, history
  <2>2. \A v \in Writers : pc'[v] \in Body =>
           pc'[v] = pc[v] /\ call'[v] = call[v] /\ at'[v] = at[v]
    BY <1>1 DEF TypeInv, WriterCall, WriterTurnedAway, TakeWriteLock, WriterSpin,
                WriterFindsInvalid, ReleaseWriteLock, PutCrash, Goto, Start, Forget,
                locals, Body
  <2> QED
    BY <2>1, <2>2, OthersKeepBody
<1>2. CASE WriterEnter(w)
  <2>1. /\ pc[w] = "fields_lock" /\ pc' = [pc EXCEPT ![w] = "body"]
        /\ fields_lock = NULL /\ fields_lock' = w /\ ~invalid
        /\ before' = [nodes |-> nodes, size |-> size]
        /\ UNCHANGED <<nodes, size, invalid, call, at>>
    BY <1>2 DEF WriterEnter, Goto, table, locals
  <2>2. before'.nodes = nodes /\ before'.size = size /\ before' # <<>>
    BY <2>1
  <2>3. \A v \in Writers : v # w => pc'[v] \notin Body
    BY <2>1, WriterIsAlone DEF TypeInv
  <2>4. Done(w)'
    BY <2>1, <2>2 DEF Done, BodyInv, TypeInv
  <2> QED
    BY <2>1, <2>2, <2>3, <2>4 DEF BodyInv
<1>3. CASE PutKey(w) \/ PutVal(w) \/ PutTombstone(w) \/ WipeBegin(w) \/ WipeSlot(w)
  <2>1. Done(w)'
    BY <1>3, PutKeyBody, PutValBody, PutTombstoneBody, WipeBody
  <2>2. pc[w] \in Body /\ UNCHANGED <<before, fields_lock>>
    BY <1>3 DEF PutKey, PutVal, PutTombstone, WipeBegin, WipeSlot, Goto, Body, locks,
                history
  <2>3. \A v \in Writers : v # w => pc'[v] = pc[v]
    BY <1>3 DEF TypeInv, PutKey, PutVal, PutTombstone, WipeBegin, WipeSlot, Goto
  <2>4. fields_lock = w
    BY <2>2 DEF LockInv
  <2> QED
    BY <2>1, <2>2, <2>3, <2>4, WriterIsAlone DEF BodyInv
<1>4. CASE PutSize(w) \/ Delete(w) \/ WipeEnd(w)
  <2>1. /\ pc[w] \in Body /\ pc' = [pc EXCEPT ![w] = "release"]
        /\ fields_lock' = NULL /\ before' = <<>>
    BY <1>4 DEF PutSize, Delete, WipeEnd, Leave, Goto, Body
  <2>2. size' \in 0 .. SizeModulus - 1
    BY <1>4 DEF PutSize, Delete, WipeEnd, TypeInv
  <2>3. \A v \in Writers : pc'[v] \notin Body
    BY <2>1, WriterIsAlone DEF TypeInv, Body
  <2> QED
    BY <2>1, <2>2, <2>3 DEF BodyInv
<1> QED
  BY <1>1, <1>2, <1>3, <1>4 DEF WriterStep, WriterWork
-----------------------------------------------------------------------------
(* The search of a reader that no writer overtook                          *)

\* The slots such a reader looked at are still as it saw them.
LEMMA SearchStays ==
    ASSUME UNCHANGED nodes, NEW g \in Getters, SearchAt(g),
           pc'[g] = pc[g], at'[g] = at[g], ret'[g] = ret[g], call'[g] = call[g]
    PROVE  SearchAt(g)'
BY DEF SearchAt, Past, EndsAt

\* A writer that gets behind the locks overtakes every reader there is.
LEMMA WriterKeepsSearch ==
    ASSUME IInv, NEW w \in Writers, WriterStep(w)
    PROVE  SearchInv'
<1> USE Constants DEF IInv
<1>1. /\ \A g \in Getters : /\ pc'[g] = pc[g] /\ at'[g] = at[g]
                            /\ ret'[g] = ret[g] /\ call'[g] = call[g]
      /\ Reading' = Reading /\ Reading \subseteq Getters
  BY WriterLeavesReaders DEF Reading
<1>2. CASE WriterEnter(w)
  <2>1. raced' = raced \cup Reading
    BY <1>2 DEF WriterEnter
  <2> QED
    BY <1>1, <2>1 DEF SearchInv
<1>3. CASE WriterCall(w) \/ WriterTurnedAway(w) \/ TakeWriteLock(w) \/ WriterSpin(w)
           \/ WriterFindsInvalid(w) \/ ReleaseWriteLock(w)
  <2>1. UNCHANGED <<nodes, fields_lock, invalid, raced>>
    BY <1>3 DEF WriterCall, WriterTurnedAway, TakeWriteLock, WriterSpin,
                WriterFindsInvalid, ReleaseWriteLock, table, locks, history
  <2> QED
    BY <1>1, <2>1, SearchStays DEF SearchInv
<1>4. CASE PutKey(w) \/ PutVal(w) \/ PutTombstone(w) \/ PutCrash(w) \/ PutSize(w)
           \/ Delete(w) \/ WipeBegin(w) \/ WipeSlot(w) \/ WipeEnd(w)
  <2>1. pc[w] \in Body /\ raced' = raced
    BY <1>4 DEF PutKey, PutVal, PutTombstone, PutCrash, PutSize, Delete, WipeBegin,
                WipeSlot, WipeEnd, Leave, Goto, Body, history
  <2>2. fields_lock # NULL
    BY <2>1 DEF LockInv
  <2>3. Reading \ raced = {}
    BY <2>2 DEF SearchInv
  <2> QED
    BY <1>1, <2>1, <2>3 DEF SearchInv
<1> QED
  BY <1>2, <1>3, <1>4 DEF WriterStep, WriterWork

\* A reader's own step: the loop has looked at one more slot.
LEMMA SearchGoesOn ==
    ASSUME IInv, NEW g \in Reading \ raced,
           GetHome(g) \/ GetMatch(g) \/ GetStop(g) \/ GetConfirm(g) \/ GetValue(g)
    PROVE  SearchAt(g)'
<1> DEFINE k == call[g].key
           d == at[g]
           stops == SearchStops(nodes, k)
           seen == nodes[Index(k, d)]
<1> USE Constants DEF IInv
<1>1. g \in Getters /\ g \in Threads /\ pc[g] \in ReadingPCs
  BY DEF Reading, ReadingPCs
<1>2. k \in Keys /\ d \in Slots /\ k # NULL
  BY <1>1, CallIs, NoKeyAssumption DEF TypeInv, ReaderInv, ReadingPCs
<1>3. UNCHANGED <<nodes, call>>
  BY DEF GetHome, GetMatch, GetStop, GetConfirm, GetValue, Reads, table
<1>4. SearchAt(g)
  BY DEF SearchInv
<1>5. Seen(g) = seen
  BY DEF Seen
<1>6. d \in stops <=> node_is_empty(seen) \/ node_has_key(seen, k)
  BY <1>2 DEF SearchStops
<1>7. node_is_empty(seen) => ~node_has_key(seen, k)
  BY <1>2 DEF node_is_empty, node_has_key
<1>8. Past(k, d) /\ d \in stops => EndsAt(nodes, k, d)
  BY <1>2 DEF Past, EndsAt
<1>9. EndsAt(nodes, k, d) \/ stops = {} =>
         Lookup(nodes, k) = IF node_has_key(seen, k) THEN seen.val ELSE NULL
  BY <1>2, <1>6, FoundAtEnd, NothingFound
<1>10. CASE GetHome(g)
  <2>1. /\ pc'[g] = IF node_is_empty(seen) THEN "exit" ELSE "match"
        /\ pc[g] = "home" /\ at' = at /\ ret' = ret
    BY <1>1, <1>5, <1>10 DEF GetHome, Goto, Reads, TypeInv
  <2>2. d = 0 /\ ret[g] = NULL /\ Past(k, d)
    BY <1>1, <2>1 DEF ReaderInv, Past
  <2>3. CASE node_is_empty(seen)
    BY <1>3, <1>6, <1>7, <1>8, <1>9, <2>1, <2>2, <2>3 DEF SearchAt
  <2>4. CASE ~node_is_empty(seen)
    BY <1>3, <2>1, <2>2, <2>4 DEF SearchAt, Past
  <2> QED
    BY <2>3, <2>4
<1>11. CASE GetMatch(g)
  <2>1. pc[g] = "match" /\ Past(k, d) /\ ~node_is_empty(seen)
    BY <1>4, <1>11, MatchTurn, <1>1 DEF SearchAt
  <2>2. CASE node_has_key(seen, k)
    <3>1. pc'[g] \in {"value", "confirm"} /\ at'[g] = d
      BY <1>1, <1>5, <1>11, <2>2, MatchTurn
    <3>2. EndsAt(nodes, k, d)
      BY <1>6, <1>8, <2>1, <2>2
    <3> QED
      BY <1>3, <2>2, <3>1, <3>2 DEF SearchAt, EndsAt
  <2>3. CASE ~node_has_key(seen, k)
    <3>1. /\ pc'[g] = IF Onward(g) = 0 THEN "confirm" ELSE "stop"
          /\ at'[g] = Onward(g)
      BY <1>1, <1>5, <1>11, <2>3, MatchTurn
    <3>2. d \notin stops
      BY <1>6, <2>1, <2>3
    <3>3. \A e \in Slots : e < d + 1 => e \notin stops
      <4>1. \A e \in Slots : e < d + 1 => e < d \/ e = d
        BY <1>2 DEF Slots
      <4> QED
        BY <2>1, <3>2, <4>1 DEF Past
    <3>4. CASE d + 1 < Capacity
      <4>1. Onward(g) = d + 1 /\ Onward(g) # 0
        BY <1>1, <1>2, <3>4, OnwardIsOffset DEF Slots
      <4> QED
        BY <1>3, <3>1, <3>3, <4>1 DEF SearchAt, Past
    <3>5. CASE ~(d + 1 < Capacity)
      <4>1. Onward(g) = 0
        BY <1>1, <1>2, <3>5, OnwardIsOffset
      <4>2. \A e \in Slots : e < d + 1
        BY <1>2, <3>5 DEF Slots
      <4>3. stops = {}
        BY <3>3, <4>2 DEF SearchStops
      <4> QED
        BY <1>3, <3>1, <4>1, <4>3 DEF SearchAt
    <3> QED
      BY <3>4, <3>5
  <2> QED
    BY <2>2, <2>3
<1>12. CASE GetStop(g)
  <2>1. /\ pc'[g] = IF node_is_empty(seen) THEN "confirm" ELSE "match"
        /\ pc[g] = "stop" /\ at' = at
    BY <1>1, <1>5, <1>12 DEF GetStop, Goto, TypeInv
  <2>2. Past(k, d)
    BY <1>4, <2>1 DEF SearchAt
  <2>3. CASE node_is_empty(seen)
    BY <1>3, <1>6, <1>8, <2>1, <2>2, <2>3 DEF SearchAt, EndsAt
  <2>4. CASE ~node_is_empty(seen)
    BY <1>3, <2>1, <2>2, <2>4 DEF SearchAt, Past
  <2> QED
    BY <2>3, <2>4
<1>13. CASE GetConfirm(g)
  <2>1. /\ pc'[g] = IF node_has_key(seen, k) THEN "value" ELSE "exit"
        /\ pc[g] = "confirm" /\ at' = at /\ ret' = ret
    BY <1>1, <1>5, <1>13 DEF GetConfirm, Goto, Reads, TypeInv
  <2>2. /\ EndsAt(nodes, k, d) \/ stops = {}
        /\ ret[g] = NULL
    BY <1>1, <1>4, <2>1 DEF SearchAt, ReaderInv
  <2>3. CASE node_has_key(seen, k)
    BY <1>3, <1>6, <2>1, <2>2, <2>3 DEF SearchAt, EndsAt
  <2>4. CASE ~node_has_key(seen, k)
    BY <1>3, <1>9, <2>1, <2>2, <2>4 DEF SearchAt
  <2> QED
    BY <2>3, <2>4
<1>14. CASE GetValue(g)
  <2>1. pc'[g] = "exit" /\ pc[g] = "value" /\ ret'[g] = seen.val
    BY <1>1, <1>5, <1>14 DEF GetValue, Goto, Return, TypeInv
  <2>2. EndsAt(nodes, k, d) /\ node_has_key(seen, k)
    BY <1>4, <2>1 DEF SearchAt
  <2> QED
    BY <1>3, <1>9, <2>1, <2>2 DEF SearchAt
<1> QED
  BY <1>10, <1>11, <1>12, <1>13, <1>14

\* A reader's step keeps what the readers know.
LEMMA GetterKeepsSearch ==
    ASSUME IInv, NEW g \in Getters, GetterStep(g)
    PROVE  SearchInv'
<1> USE Constants DEF IInv
<1>1. /\ \A h \in Getters \ {g} : /\ pc'[h] = pc[h] /\ at'[h] = at[h]
                                  /\ ret'[h] = ret[h] /\ call'[h] = call[h]
      /\ UNCHANGED <<nodes, invalid, fields_lock>>
      /\ raced' \in {raced, raced \ {g}}
  BY GetterLeavesWriters
<1>2. ASSUME NEW h \in Getters \ {g}, h \in Reading' \ raced'
      PROVE  fields_lock' = NULL /\ ~invalid' /\ SearchAt(h)'
  <2>1. h \in Reading \ raced
    BY <1>1, <1>2 DEF Reading
  <2> QED
    BY <1>1, <2>1, SearchStays DEF SearchInv
<1>3. ASSUME g \in Reading' \ raced'
      PROVE  fields_lock' = NULL /\ ~invalid' /\ SearchAt(g)'
  <2>1. pc'[g] \in ReadingPCs
    BY <1>3 DEF Reading, ReadingPCs
  <2>2. CASE GetEnter(g)
    <3>1. pc'[g] = "home" /\ fields_lock = NULL /\ ~invalid
      BY <2>2 DEF GetEnter, Goto, TypeInv
    <3> QED
      BY <1>1, <3>1 DEF SearchAt
  <2>3. CASE GetHome(g) \/ GetMatch(g) \/ GetStop(g) \/ GetConfirm(g) \/ GetValue(g)
             \/ GetFault(g)
    <3>1. g \in Reading /\ raced' = raced
      BY <2>3 DEF GetHome, GetMatch, GetStop, GetConfirm, GetValue, GetFault, Goto,
                  Reads, history, Reading
    <3>2. g \in Reading \ raced /\ fields_lock = NULL /\ ~invalid
      BY <1>3, <3>1 DEF SearchInv
    <3>3. ~GetFault(g)
      BY <3>2 DEF GetFault
    <3> QED
      BY <1>1, <2>3, <3>2, <3>3, SearchGoesOn
  <2>4. CASE GetCall(g) \/ GetTurnedAway(g) \/ GetSpin(g) \/ GetFindsInvalid(g)
             \/ GetExit(g)
    <3>1. pc'[g] \in {"idle", "get_spin", "get_enter"}
      BY <2>4 DEF GetCall, GetTurnedAway, GetSpin, GetFindsInvalid, GetExit, Goto,
                  Start, TypeInv
    <3> QED
      BY <2>1, <3>1 DEF ReadingPCs
  <2> QED
    BY <2>2, <2>3, <2>4 DEF GetterStep, GetterWork
<1> QED
  BY <1>2, <1>3 DEF SearchInv, Reading
-----------------------------------------------------------------------------
(* The invariant                                                           *)

\* It holds at the start,
LEMMA InitInv == Init => IInv
<1> SUFFICES ASSUME Init
             PROVE  IInv
  OBVIOUS
<1> USE Constants DEF Init
<1>1. NoCall \in Calls
  BY CallIs
<1>2. EmptyNode \in Nodes
  BY DEF EmptyNode, Node, Nodes
<1>3. \A t \in Threads : pc[t] = "idle" /\ at[t] = 0 /\ call[t] = NoCall
  OBVIOUS
<1>4. TypeInv
  BY <1>1, <1>2 DEF TypeInv, WriterPCs, GetterPCs
<1>5. Reading = {}
  BY DEF Reading
<1>6. LockInv
  BY DEF LockInv, Body
<1>7. CountInv
  BY <1>5, FS_EmptySet DEF CountInv
<1>8. BodyInv
  BY DEF BodyInv, Body
<1>9. ReaderInv
  BY DEF ReaderInv
<1>10. SearchInv
  BY <1>5 DEF SearchInv
<1> QED
  BY <1>4, <1>6, <1>7, <1>8, <1>9, <1>10 DEF IInv

\* every step keeps it, whichever thread takes it,
LEMMA NextInv == IInv /\ [Next]_vars => IInv'
<1> SUFFICES ASSUME IInv, [Next]_vars
             PROVE  IInv'
  OBVIOUS
<1>1. ASSUME NEW w \in Writers, WriterStep(w)
      PROVE  IInv'
  BY <1>1, WriterTypes, WriterLocks, WriterCounts, WriterKeepsBody, WriterReads,
     WriterKeepsSearch DEF IInv
<1>2. ASSUME NEW g \in Getters, GetterStep(g)
      PROVE  IInv'
  BY <1>2, GetterTypes, GetterLocks, GetterCounts, GetterKeepsBody, GetterReads,
     GetterKeepsSearch DEF IInv
<1>3. CASE UNCHANGED vars
  <2> USE <1>3 DEF vars
  <2>1. TypeInv'
    BY DEF IInv, TypeInv
  <2>2. LockInv'
    BY DEF IInv, LockInv
  <2>3. CountInv'
    BY DEF IInv, CountInv, Reading
  <2>4. BodyInv'
    BY OthersKeepBody DEF IInv
  <2>5. ReaderInv'
    BY DEF IInv, ReaderInv
  <2>6. SearchInv'
    BY SearchStays DEF IInv, SearchInv, Reading
  <2> QED
    BY <2>1, <2>2, <2>3, <2>4, <2>5, <2>6 DEF IInv
<1> QED
  BY <1>1, <1>2, <1>3 DEF Next

\* so it always holds.
LEMMA Invariant == Spec => []IInv
BY InitInv, NextInv, PTL DEF Spec

\* num_readers never counts more readers than there are, so a writer that spins on
\* it waits for somebody; while a writer is at work it is -1 and keeps new readers
\* out (hashmap.c:51-53, 104, 124, 148, 153).
THEOREM ReadersAreCounted == Spec => []ReadersCounted
<1>1. IInv => ReadersCounted
  <2> SUFFICES ASSUME IInv
               PROVE  ReadersCounted
    OBVIOUS
  <2>1. Writing # {} => fields_lock # NULL
    BY Constants DEF IInv, LockInv, Writing
  <2> QED
    BY <2>1 DEF IInv, CountInv, ReadersCounted
<1> QED
  BY <1>1, Invariant, PTL

\* A get() that no writer overtook reads no freed table, and what it is about to
\* return is what the table has for the key (hashmap.c:125-145).
THEOREM QuietGets == Spec => []QuietGet
<1>1. IInv => QuietGet
  BY DEF IInv, SearchInv, SearchAt, QuietGet
<1> QED
  BY <1>1, Invariant, PTL
-----------------------------------------------------------------------------
(* The calls that write are atomic: HashTable, with the table as the       *)
(* writer behind the locks found it                                        *)

TabNodes == IF before = <<>> THEN nodes ELSE before.nodes
TabSize == IF before = <<>> THEN size ELSE before.size
TabRet == [w \in Writers |-> ret[w]]

\* The operators of the abstract table are those of this one.
LEMMA SameOperators ==
    /\ Table!Slots = Slots
    /\ Table!EmptyNode = EmptyNode
    /\ \A k, v, b : Table!Node(k, v, b) = Node(k, v, b)
    /\ \A tab, k : Table!Found(tab, k) = Found(tab, k)
    /\ \A tab, k : Table!Lookup(tab, k) = Lookup(tab, k)
    /\ \A tab, k, b : Table!Targets(tab, k, b) = Targets(tab, k, b)
<1>1. /\ Table!Slots = Slots
      /\ \A k, v, b : Table!Node(k, v, b) = Node(k, v, b)
      /\ Table!EmptyNode = EmptyNode
  BY DEF Table!Slots, Slots, Table!Node, Node, Table!EmptyNode, EmptyNode
<1>2. /\ \A n : Table!node_is_empty(n) = node_is_empty(n)
      /\ \A n, k : Table!node_has_key(n, k) = node_has_key(n, k)
      /\ \A n, k : Table!can_put_key(n, k) = can_put_key(n, k)
      /\ \A k, d : Table!Index(k, d) = Index(k, d)
      /\ \A S : Table!First(S) = First(S)
  BY Zenon DEF Table!node_is_empty, node_is_empty, Table!node_has_key, node_has_key,
               Table!can_put_key, can_put_key, Table!Index, Index, Table!First, First
<1>3. /\ \A tab, k : Table!SearchStops(tab, k) = SearchStops(tab, k)
      /\ \A tab, k : Table!PutStops(tab, k) = PutStops(tab, k)
      /\ \A tab, k : Table!Tombstones(tab, k) = Tombstones(tab, k)
  BY <1>1, <1>2 DEF Table!SearchStops, SearchStops, Table!PutStops, PutStops,
                    Table!Tombstones, Tombstones
<1>4. /\ \A tab, k : Table!Found(tab, k) = Found(tab, k)
      /\ \A k, offsets : Table!FirstSlot(k, offsets) = FirstSlot(k, offsets)
  BY <1>2, <1>3 DEF Table!Found, Found, Table!FirstSlot, FirstSlot
<1>5. \A tab, k : Table!Lookup(tab, k) = Lookup(tab, k)
  BY ZenonT(40)
     DEF Table!Lookup, Lookup, Table!Found, Found, Table!SearchStops, SearchStops,
         Table!Slots, Slots, Table!Index, Index, Table!First, First,
         Table!node_is_empty, node_is_empty, Table!node_has_key, node_has_key
<1>6. \A tab, k, b : Table!Targets(tab, k, b) = Targets(tab, k, b)
  BY <1>3, <1>4, Zenon DEF Table!Targets, Targets
<1> QED
  BY <1>1, <1>4, <1>5, <1>6

\* The table that counts while a writer is behind the locks is the one it found.
LEMMA TableFound ==
    ASSUME IInv
    PROVE  /\ fields_lock = NULL => TabNodes = nodes /\ TabSize = size
           /\ \A w \in Writers : pc[w] \in Body =>
                 /\ before # <<>>
                 /\ TabNodes = before.nodes /\ TabSize = before.size
                 /\ Done(w)
           /\ size = Capacity => TabSize = Capacity
<1> USE Constants DEF IInv, TabNodes, TabSize
<1>1. fields_lock = NULL => TabNodes = nodes /\ TabSize = size
  BY DEF BodyInv
<1>2. ASSUME NEW w \in Writers, pc[w] \in Body
      PROVE  /\ before # <<>>
             /\ TabNodes = before.nodes /\ TabSize = before.size
             /\ Done(w)
  <2>1. fields_lock # NULL
    BY <1>2 DEF LockInv
  <2> QED
    BY <1>2, <2>1 DEF BodyInv
<1>3. ASSUME size = Capacity, fields_lock # NULL
      PROVE  TabSize = Capacity
  <2>1. PICK w \in Writers : pc[w] \in Body
    BY <1>3 DEF TypeInv, LockInv
  <2>2. Done(w) /\ TabSize = before.size
    BY <1>2, <2>1
  <2> QED
    BY <1>3, <2>2 DEF Done, Overwriting
<1> QED
  BY <1>1, <1>2, <1>3

\* What a writer returns is what the abstract call returns.
LEMMA ReturnMaps ==
    ASSUME TypeInv, NEW w \in Writers, NEW r, Return(w, r)
    PROVE  Table!Return(w, r)
BY Constants DEF TypeInv, Return, Table!Return

\* A step that moves none of it stutters.
LEMMA QuietStutters ==
    ASSUME UNCHANGED <<TabNodes, TabSize, invalid, TabRet>>,
           (fault' = "put") = (fault = "put")
    PROVE  UNCHANGED Table!vars
BY DEF Table!vars, TabNodes, TabSize, TabRet

\* A call that is turned away, at once or behind write_lock.
LEMMA RefuseMaps ==
    ASSUME IInv, fault = "none", NEW w \in Writers,
           WriterTurnedAway(w) \/ WriterFindsInvalid(w)
    PROVE  Table!Refuse(w) \/ Table!PutRefused(w)
<1>1. /\ Return(w, NULL)
      /\ UNCHANGED <<nodes, size, before, invalid, fault>>
  BY DEF WriterTurnedAway, WriterFindsInvalid, table, history
<1>2. Table!Return(w, NULL)
  BY <1>1, ReturnMaps DEF IInv
<1>3. CASE invalid
  BY <1>1, <1>2, <1>3 DEF Table!Refuse
<1>4. CASE ~invalid
  <2>1. size = Capacity
    BY <1>4 DEF WriterTurnedAway, WriterFindsInvalid, Turned, Full
  <2>2. TabSize = Capacity
    BY <2>1, TableFound
  <2> QED
    BY <1>1, <1>2, <1>4, <2>2 DEF Table!PutRefused, Table!Full, TabSize
<1> QED
  BY <1>3, <1>4

\* put() takes effect when it counts its entry.
LEMMA PutMaps ==
    ASSUME IInv, fault = "none", NEW w \in Writers, PutSize(w)
    PROVE  Table!Store(w, call[w].key, call[w].val, call[w].force)
<1> DEFINE k == call[w].key
           v == call[w].val
           s == at[w]
           slot == Table!Targets(TabNodes, k, Table!Full /\ call[w].force)
<1> USE Constants
<1>1. /\ pc[w] = "put_size" /\ before' = <<>> /\ Return(w, OK)
      /\ size' = (size + 1) % SizeModulus
      /\ UNCHANGED <<nodes, invalid, fault>>
  BY DEF PutSize, Leave, Goto
<1>2. /\ Done(w) /\ before # <<>>
      /\ TabNodes = before.nodes /\ TabSize = before.size
      /\ TabNodes' = nodes' /\ TabSize' = size'
  BY <1>1, TableFound DEF Body, TabNodes, TabSize
<1>3. /\ PutTo(w, Node(k, v, FALSE))
      /\ size = IF Overwriting(w) THEN before.size - 1 ELSE before.size
      /\ before.size \in 0 .. SizeModulus - 1
      /\ before.nodes \in [Slots -> Nodes]
      /\ ~invalid
  BY <1>1, <1>2 DEF Done
<1>4. Overwriting(w) = (Table!Full /\ call[w].force)
  BY <1>2 DEF Overwriting, Table!Full, TabSize
<1>5. slot = {s} /\ s \in Slots
  BY <1>2, <1>3, <1>4, SameOperators DEF PutTo, Chosen
<1>6. TabNodes' = [r \in Slots |-> IF r \in slot THEN Node(k, v, FALSE) ELSE TabNodes[r]]
  BY <1>1, <1>2, <1>3, <1>5 DEF PutTo
<1>7. TabSize' = IF Overwriting(w) THEN TabSize ELSE (TabSize + 1) % SizeModulus
  <2>1. CASE Overwriting(w)
    <3>1. size + 1 = before.size
      BY <1>3, <2>1
    <3>2. before.size % SizeModulus = before.size
      BY <1>3
    <3> QED
      BY <1>1, <1>2, <2>1, <3>1, <3>2
  <2>2. CASE ~Overwriting(w)
    BY <1>1, <1>2, <1>3, <2>2
  <2> QED
    BY <2>1, <2>2
<1>8. Table!Return(w, OK)
  BY <1>1, ReturnMaps DEF IInv
<1>9. TabNodes' = [r \in Table!Slots |->
                     IF r \in slot THEN Table!Node(k, v, FALSE) ELSE TabNodes[r]]
  BY <1>6, SameOperators, Zenon
<1> QED
  BY <1>1, <1>3, <1>4, <1>5, <1>7, <1>8, <1>9
     DEF Table!Store, TabNodes, TabSize

\* or when it finds no slot for it.
LEMMA CrashMaps ==
    ASSUME IInv, fault = "none", NEW w \in Writers, PutCrash(w)
    PROVE  Table!Store(w, call[w].key, call[w].val, call[w].force)
<1> DEFINE k == call[w].key
           slot == Table!Targets(TabNodes, k, Table!Full /\ call[w].force)
<1> USE Constants
<1>1. /\ pc[w] = "body" /\ fault' = "put"
      /\ UNCHANGED <<nodes, size, before, invalid, ret>>
  BY DEF PutCrash, table, history, locals
<1>2. /\ Done(w) /\ TabNodes = before.nodes /\ TabSize = before.size
  BY <1>1, TableFound DEF Body
<1>3. /\ nodes = before.nodes /\ size = before.size
      /\ before.nodes \in [Slots -> Nodes] /\ ~invalid
  BY <1>1, <1>2 DEF Done
<1>4. Overwrites(w) = (Table!Full /\ call[w].force)
  BY <1>2, <1>3 DEF Overwrites, Full, Table!Full, TabSize
<1>5. Targets(nodes, k, Overwrites(w)) = {}
  BY DEF PutCrash
<1>6. slot = {}
  BY <1>2, <1>3, <1>4, <1>5, SameOperators
<1>7. /\ TabNodes' = TabNodes /\ TabSize' = TabSize
      /\ TabNodes = [r \in Slots |-> TabNodes[r]]
  BY <1>1, <1>2, <1>3 DEF TabNodes, TabSize
<1>8. TabNodes' = [r \in Table!Slots |->
                     IF r \in slot THEN Table!Node(k, call[w].val, FALSE)
                                   ELSE TabNodes[r]]
  BY <1>6, <1>7, SameOperators, Zenon
<1> QED
  BY <1>1, <1>3, <1>6, <1>7, <1>8 DEF Table!Store, TabNodes, TabSize

\* delete() takes effect when it writes the tombstone and the size,
LEMMA DeleteMaps ==
    ASSUME IInv, fault = "none", NEW w \in Writers, Delete(w)
    PROVE  Table!Delete(w, call[w].key)
<1> DEFINE k == call[w].key
<1>1. /\ pc[w] = "body" /\ before' = <<>> /\ Return(w, Lookup(nodes, k))
      /\ nodes' = IF Found(nodes, k) = {} THEN nodes
                  ELSE [nodes EXCEPT ![Home[k]].tombstone = TRUE]
      /\ size' = (size - 1) % SizeModulus
      /\ UNCHANGED <<invalid, fault>>
  BY DEF Delete, Leave, Goto
<1>2. /\ Done(w) /\ TabNodes = before.nodes /\ TabSize = before.size
      /\ TabNodes' = nodes' /\ TabSize' = size'
  BY <1>1, TableFound DEF Body, TabNodes, TabSize
<1>3. TabNodes = nodes /\ TabSize = size /\ ~invalid
  BY <1>1, <1>2 DEF Done
<1>4. Table!Return(w, Table!Lookup(TabNodes, k))
  <2>1. Table!Lookup(TabNodes, k) = Lookup(nodes, k)
    BY <1>3, SameOperators
  <2>2. ret' = [ret EXCEPT ![w] = Lookup(nodes, k)]
    BY <1>1 DEF Return
  <2>3. TabRet' = [TabRet EXCEPT ![w] = Lookup(nodes, k)]
    BY <2>2, Constants DEF IInv, TypeInv, TabRet
  <2> QED
    BY <2>1, <2>3 DEF Table!Return, TabRet
<1>5. TabNodes' = IF Table!Found(TabNodes, k) = {} THEN TabNodes
                  ELSE [TabNodes EXCEPT ![Home[k]].tombstone = TRUE]
  BY <1>1, <1>2, <1>3, SameOperators
<1> QED
  BY <1>1, <1>2, <1>3, <1>4, <1>5 DEF Table!Delete, TabNodes, TabSize

\* clear_map() and invalidate_map() when their loop has been through all slots.
LEMMA WipeMaps ==
    ASSUME IInv, fault = "none", NEW w \in Writers, WipeEnd(w)
    PROVE  Table!ClearMap(w) \/ Table!InvalidateMap(w)
<1>1. /\ pc[w] = "wipe" /\ at[w] = Capacity /\ before' = <<>> /\ Return(w, OK)
      /\ size' = 0 /\ invalid' = (call[w].op = "invalidate")
      /\ UNCHANGED <<nodes, fault>>
  BY DEF WipeEnd, Leave, Goto
<1>2. Done(w) /\ TabNodes' = nodes' /\ TabSize' = size'
  BY <1>1, TableFound DEF Body, TabNodes, TabSize
<1>3. \A s \in Slots : s < Capacity
  BY Constants DEF Slots
<1>4. nodes = [s \in Slots |-> EmptyNode] /\ ~invalid
  BY <1>1, <1>2, <1>3 DEF Done, IInv, TypeInv
<1>5. TabNodes' = [s \in Table!Slots |-> Table!EmptyNode]
  BY <1>1, <1>2, <1>4, SameOperators, Zenon
<1>6. Table!Return(w, OK)
  BY <1>1, ReturnMaps DEF IInv
<1>7. CASE call[w].op = "invalidate"
  BY <1>1, <1>2, <1>4, <1>5, <1>6, <1>7 DEF Table!InvalidateMap, TabNodes, TabSize
<1>8. CASE call[w].op # "invalidate"
  <2>1. invalid' = invalid
    BY <1>1, <1>4, <1>8 DEF IInv, TypeInv
  <2> QED
    BY <1>1, <1>2, <1>4, <1>5, <1>6, <2>1 DEF Table!ClearMap, TabNodes, TabSize
<1> QED
  BY <1>7, <1>8

\* Every other step of a writer, and every step of a reader, stutters.
LEMMA OtherWriterStutters ==
    ASSUME IInv, fault = "none", NEW w \in Writers,
           \/ WriterCall(w) \/ TakeWriteLock(w) \/ WriterSpin(w) \/ WriterEnter(w)
           \/ ReleaseWriteLock(w) \/ PutKey(w) \/ PutVal(w) \/ PutTombstone(w)
           \/ WipeBegin(w) \/ WipeSlot(w)
    PROVE  UNCHANGED Table!vars
<1>1. CASE WriterCall(w) \/ TakeWriteLock(w) \/ WriterSpin(w) \/ ReleaseWriteLock(w)
  <2>1. UNCHANGED <<nodes, size, before, invalid, fault, ret>>
    BY <1>1 DEF WriterCall, TakeWriteLock, WriterSpin, ReleaseWriteLock, table, locals,
                history
  <2> QED
    BY <2>1, QuietStutters DEF TabNodes, TabSize, TabRet
<1>2. CASE WriterEnter(w)
  <2>1. /\ fields_lock = NULL /\ before' = [nodes |-> nodes, size |-> size]
        /\ UNCHANGED <<invalid, fault, ret>>
    BY <1>2 DEF WriterEnter, locals
  <2>2. before' # <<>> /\ before'.nodes = nodes /\ before'.size = size
    BY <2>1
  <2>3. TabNodes = nodes /\ TabSize = size
    BY <2>1, TableFound
  <2>4. TabNodes' = nodes /\ TabSize' = size
    BY <2>2 DEF TabNodes, TabSize
  <2> QED
    BY <2>1, <2>3, <2>4, QuietStutters DEF TabRet
<1>3. CASE PutKey(w) \/ PutVal(w) \/ PutTombstone(w) \/ WipeBegin(w) \/ WipeSlot(w)
  <2>1. pc[w] \in Body /\ UNCHANGED <<before, invalid, fault, ret>>
    BY <1>3 DEF PutKey, PutVal, PutTombstone, WipeBegin, WipeSlot, Goto, Body, locals,
                history
  <2>2. before # <<>>
    BY <2>1, TableFound
  <2> QED
    BY <2>1, <2>2, QuietStutters DEF TabNodes, TabSize, TabRet
<1> QED
  BY <1>1, <1>2, <1>3

\* A reader writes nothing of the table and returns nothing for a writer.
LEMMA GetterStutters ==
    ASSUME IInv, fault = "none", NEW g \in Getters, GetterStep(g)
    PROVE  UNCHANGED Table!vars
<1>1. UNCHANGED <<nodes, size, before, invalid, TabRet>>
  BY GetterLeavesWriters DEF IInv, TabRet
<1>2. (fault' = "put") = (fault = "put")
  <2>1. CASE GetFault(g)
    BY <2>1 DEF GetFault
  <2>2. CASE ~GetFault(g)
    BY <2>2 DEF GetterStep, GetterWork, GetCall, GetTurnedAway, GetSpin, GetEnter,
                GetFindsInvalid, GetHome, GetMatch, GetStop, GetConfirm, GetValue,
                GetExit, Reads
  <2> QED
    BY <2>1, <2>2
<1> QED
  BY <1>1, <1>2, QuietStutters DEF TabNodes, TabSize

\* An empty map is an empty table.
LEMMA InitMaps == Init => Table!Init
BY SameOperators, Constants DEF Init, Table!Init

\* A step of the threads is a step of the table, or none.
LEMMA NextMaps ==
    IInv /\ [Next]_vars =>
        [/\ ~(fault = "put")
         /\ Table!OverlappingPutStep \/ Table!OtherStep]_(Table!vars)
<1> DEFINE TableStep == Table!OverlappingPutStep \/ Table!OtherStep
<1> SUFFICES ASSUME IInv, [Next]_vars
             PROVE  (~(fault = "put") /\ TableStep) \/ UNCHANGED Table!vars
  OBVIOUS
<1>1. CASE UNCHANGED vars
  BY <1>1, QuietStutters DEF vars, TabNodes, TabSize, TabRet
<1>2. ASSUME NEW w \in Writers, fault = "none", WriterStep(w)
      PROVE  TableStep \/ UNCHANGED Table!vars
  <2>1. CASE WriterTurnedAway(w) \/ WriterFindsInvalid(w)
    BY <1>2, <2>1, RefuseMaps DEF Table!OtherStep
  <2>2. CASE PutSize(w) \/ PutCrash(w)
    <3>1. Table!Store(w, call[w].key, call[w].val, call[w].force)
      BY <1>2, <2>2, PutMaps, CrashMaps
    <3>2. pc[w] # "idle" /\ call[w] \in WriterCalls /\ call[w].op = "put"
      <4>1. CASE PutSize(w)
        BY <1>2, <4>1, TableFound DEF PutSize, Leave, Goto, Body, Done, PutTo, IInv, TypeInv
      <4>2. CASE PutCrash(w)
        BY <4>2 DEF PutCrash, IInv, TypeInv
      <4> QED
        BY <2>2, <4>1, <4>2
    <3>3. /\ call[w].key \in Keys /\ call[w].val \in ValuesOf[call[w].key]
          /\ call[w].force \in BOOLEAN
      BY <3>2, CallIs
    <3> QED
      BY <3>1, <3>3, Zenon DEF Table!OverlappingPutStep, Table!PutUnchecked
  <2>3. CASE Delete(w)
    <3>1. call[w].key \in Keys
      BY <2>3, CallIs DEF Delete, Leave, Goto, IInv, TypeInv
    <3> QED
      BY <1>2, <2>3, <3>1, DeleteMaps DEF Table!OtherStep
  <2>4. CASE WipeEnd(w)
    BY <1>2, <2>4, WipeMaps DEF Table!OtherStep
  <2>5. CASE \/ WriterCall(w) \/ TakeWriteLock(w) \/ WriterSpin(w) \/ WriterEnter(w)
             \/ ReleaseWriteLock(w) \/ PutKey(w) \/ PutVal(w) \/ PutTombstone(w)
             \/ WipeBegin(w) \/ WipeSlot(w)
    BY <1>2, <2>5, OtherWriterStutters
  <2> QED
    BY <1>2, <2>1, <2>2, <2>3, <2>4, <2>5 DEF WriterStep, WriterWork
<1>3. ASSUME NEW g \in Getters, fault = "none", GetterStep(g)
      PROVE  UNCHANGED Table!vars
  BY <1>3, GetterStutters
<1> QED
  BY <1>1, <1>2, <1>3 DEF Next

\* The calls that write take effect one at a time, each at one moment between its
\* start and its end, whatever other writers and the readers do meanwhile; only the
\* check for a full map may be out of date by then (hashmap.c:48-106, 155-199,
\* 201-260).
THEOREM Atomicity == Spec => WritersAreAtomic
<1>1. Init => Table!Init
  BY InitMaps
<1>2. IInv /\ [Next]_vars =>
         [/\ ~(fault = "put")
          /\ Table!OverlappingPutStep \/ Table!OtherStep]_(Table!vars)
  BY NextMaps
<1> QED
  BY <1>1, <1>2, Invariant, PTL DEF Spec, WritersAreAtomic, Table!OverlappingSpec
=============================================================================
