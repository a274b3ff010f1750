---------------------------- MODULE CreamProofs ----------------------------
(***************************************************************************)
(* The cache server, for any number of workers, descriptors, connections   *)
(* and slots of the map: descriptors have one owner, a connection gets the *)
(* one answer its request calls for, a buffer is in one slot at most and   *)
(* freed by clear_map() once.                                              *)
(*                                                                         *)
(* None of the properties is inductive alone.  OneOwner counts; Hands says *)
(* who has what, and with Wires (a connection is open on one descriptor)   *)
(* it is what makes the answers and the buffers of two workers different   *)
(* ones.                                                                   *)
(***************************************************************************)
EXTENDS Cream, TLAPS, FiniteSetTheorems, SequenceTheorems

\* The facts about searches in a table whose values are the connections' buffers.
Search == INSTANCE HashTableProofs WITH
             Threads <- Workers, ValuesOf <- [k \in Keys |-> Conns],
             ret <- found

\* An open descriptor is in one pair of hands.
Hands ==
    /\ \A i \in DOMAIN pending : fds[pending[i]] # NULL
    /\ \A i, j \in DOMAIN pending : pending[i] = pending[j] => i = j
    /\ \A w \in Workers : worker[w] \in Working =>
          /\ taken[w] \in FDs
          /\ fds[taken[w]] # NULL
          /\ \A i \in DOMAIN pending : pending[i] # taken[w]
          /\ \A v \in Workers \ {w} : worker[v] \in Working => taken[v] # taken[w]
    /\ main = "enqueue" =>
          /\ connfd \in FDs
          /\ fds[connfd] # NULL
          /\ \A i \in DOMAIN pending : pending[i] # connfd
          /\ \A w \in Workers : worker[w] \in Working => taken[w] # connfd
    /\ \A f \in FDs : fds[f] # NULL =>
          \/ \E i \in DOMAIN pending : pending[i] = f
          \/ \E w \in Workers : worker[w] \in Working /\ taken[w] = f
          \/ main = "enqueue" /\ connfd = f

\* A connection is in the backlog, or open on one descriptor, or neither.
Wires ==
    /\ \A i \in DOMAIN backlog : backlog[i] <= arrived
    /\ \A i, j \in DOMAIN backlog : backlog[i] = backlog[j] => i = j
    /\ \A f \in FDs : fds[f] # NULL =>
          /\ fds[f] <= arrived
          /\ \A i \in DOMAIN backlog : backlog[i] # fds[f]
          /\ \A g \in FDs : fds[g] = fds[f] => g = f

\* A worker between dequeue() and close() serves what its descriptor is open on.
Serving == \A w \in Workers : worker[w] \in Working =>
    /\ serves[w] = fds[taken[w]]
    /\ arrival[serves[w]] \in Arrivals

\* The answers that a request calls for.
Answer(r) == CASE Route(r) = "refuse"   -> {"echo"}
               [] Route(r) = "spin"     -> {"OK"}
               [] Route(r) = "get_spin" -> {"OK", "NOT_FOUND"}
               [] Route(r) = "reply"    -> {"UNSUPPORTED"}

\* What a worker knows of the request it works on.
Whole(r, a) == a.sent = "all" => r.code = a.req.code /\ r.fit = a.req.fit
Asked == \A w \in Workers :
    /\ worker[w] \in Working \ {"read_header"} => Whole(req[w], arrival[serves[w]])
    /\ worker[w] = "read_body" => req[w] \in Requests /\ req[w].fit # "big"
    /\ worker[w] \in {"spin", "write"} => Route(req[w]) = "spin"
    /\ worker[w] \in {"get_spin", "get_enter", "get_exit"} => Route(req[w]) = "get_spin"
    /\ worker[w] \in {"refuse", "refused"} => Route(req[w]) = "refuse"
    /\ worker[w] \in {"unborn", "dequeue", "read_header", "read_body"} =>
          res[w] = "UNSUPPORTED"
    /\ worker[w] = "reply" => res[w] \in Answer(req[w])

\* A connection that was answered is in the hands of the worker that did it, which
\* has answered once.
After == {"refused", "body", "close"}
Said(r, a) == \E x \in Answer(r) : a = <<x>>
Answered ==
    /\ \A c \in Conns : answers[c] # <<>> =>
          \E w \in Workers : worker[w] \in After /\ serves[w] = c
    /\ \A w \in Workers : worker[w] \in After => Said(req[w], answers[serves[w]])

\* A request whose call on the map is over, or that made none.
Over == {"reply", "body", "close"}

\* A buffer that was ever stored belongs to such a request, or to none by now.
Used == Buffers \cup freed
Spent == \A c \in Used :
    /\ c <= arrived
    /\ \A i \in DOMAIN backlog : backlog[i] # c
    /\ \A f \in FDs : fds[f] = c => \E w \in Workers : worker[w] \in Over /\ taken[w] = f

\* What a get() may return, and what it did, was not freed, or clear_map() has run.
Readable == \A w \in Workers :
    /\ worker[w] \notin Over => found[w] = NULL
    /\ w \notin cleared =>
          /\ worker[w] = "get_exit" => seen[w] \cap freed = {}
          /\ worker[w] \in {"reply", "body"} => found[w] \notin freed

IInv == /\ TypeOK
        /\ Hands
        /\ Wires
        /\ Serving
        /\ Asked
        /\ Answered
        /\ BuffersAreOwned
        /\ Spent
        /\ Readable
-----------------------------------------------------------------------------
(* The map: what a search returns and what an insertion writes             *)

MapSlots == 0 .. Capacity - 1
MapNodes == [key : Keys \cup {NULL}, val : Conns \cup {NULL}, tombstone : BOOLEAN]

\* The values of the map are the connections.
LEMMA MapValues ==
    /\ \A k \in Keys : [i \in Keys |-> Conns][k] = Conns
    /\ Search!Values \subseteq Conns
    /\ NULL \notin Conns /\ OK \notin Conns
BY ZeroKeyAssumption, NamesAssumption DEF Search!Values, Conns

\* The operators of the map's two instances are the same.
LEMMA SameSearch ==
    /\ Table!Slots = MapSlots /\ Search!Slots = MapSlots
    /\ \A tab, k : Table!Found(tab, k) = Search!Found(tab, k)
    /\ \A tab, k : Table!Lookup(tab, k) = Search!Lookup(tab, k)
<1>1. Table!Slots = MapSlots /\ Search!Slots = MapSlots
  BY DEF Table!Slots, Search!Slots, MapSlots
<1>2. \A tab, k : Table!Found(tab, k) = Search!Found(tab, k)
  BY Zenon
     DEF Table!Found, Search!Found, Table!SearchStops, Search!SearchStops,
         Table!Slots, Search!Slots, Table!Index, Search!Index,
         Table!First, Search!First, Table!node_is_empty, Search!node_is_empty,
         Table!node_has_key, Search!node_has_key
<1>3. \A tab, k : Table!Lookup(tab, k) = Search!Lookup(tab, k)
  BY ZenonT(40)
     DEF Table!Lookup, Search!Lookup,
         Table!Found, Search!Found, Table!SearchStops, Search!SearchStops,
         Table!Slots, Search!Slots, Table!Index, Search!Index,
         Table!First, Search!First, Table!node_is_empty, Search!node_is_empty,
         Table!node_has_key, Search!node_has_key
<1> QED
  BY <1>1, <1>2, <1>3

\* A search returns NULL or the buffer of one of the slots.
LEMMA LookupIsBuffer ==
    ASSUME NEW k \in Keys, NEW tab
    PROVE  \/ Table!Lookup(tab, k) = NULL
           \/ \E s \in MapSlots : Table!Lookup(tab, k) = tab[s].val
<1>1. Home \in [Keys -> Search!Slots]
  BY HomeAssumption DEF Search!Slots
<1>2. NULL \notin Keys \cup Search!Values
  BY NamesAssumption, MapValues
<1>3. Search!Found(tab, k) \subseteq {s \in Search!Slots : Search!node_has_key(tab[s], k)}
  BY Search!FoundIsSlot, CapacityAssumption, ModulusAssumption, <1>1, <1>2, Zenon
<1>4. CASE Search!Found(tab, k) = {}
  BY <1>4, SameSearch DEF Search!Lookup
<1>5. CASE Search!Found(tab, k) # {}
  BY <1>3, <1>5, SameSearch DEF Search!Lookup
<1> QED
  BY <1>4, <1>5

\* An insertion writes one slot at most.
LEMMA OneSlot ==
    ASSUME NEW k, NEW tab, NEW overwrite \in BOOLEAN,
           NEW s \in Table!Targets(tab, k, overwrite),
           NEW t \in Table!Targets(tab, k, overwrite)
    PROVE  s = t
<1>1. \A S : \A i, j \in Table!FirstSlot(k, S) : i = j
  BY DEF Table!FirstSlot
<1>2. CASE overwrite
  BY <1>2 DEF Table!Targets
<1>3. CASE ~overwrite /\ Table!PutStops(tab, k) # {}
  BY <1>1, <1>3, Zenon DEF Table!Targets
<1>4. CASE ~overwrite /\ Table!PutStops(tab, k) = {}
  BY <1>1, <1>4, Zenon DEF Table!Targets
<1> QED
  BY <1>2, <1>3, <1>4

\* put() under a worker's request writes a node with its buffer into at most one
\* slot and leaves the others alone.
LEMMA StoreWrites ==
    ASSUME TypeOK, NEW w \in Workers, NEW k \in Keys, NEW c \in Conns,
           Table!Store(w, k, c, TRUE)
    PROVE  /\ nodes' \in [MapSlots -> MapNodes]
           /\ size' \in 0 .. SizeModulus - 1
           /\ crashed' \in BOOLEAN
           /\ invalid' = invalid
           /\ found' = found \/ found' = [found EXCEPT ![w] = OK]
           /\ \A s \in MapSlots : nodes'[s].val \in {nodes[s].val, c}
           /\ \A s, t \in MapSlots :
                 /\ nodes'[s].val = c /\ nodes[s].val # c
                 /\ nodes'[t].val = c /\ nodes[t].val # c
                 => s = t
<1> DEFINE slot == Table!Targets(nodes, k, Table!Full /\ TRUE)
<1>1. /\ nodes' = [s \in MapSlots |-> IF s \in slot THEN Table!Node(k, c, FALSE)
                                      ELSE nodes[s]]
      /\ crashed' = (slot = {})
      /\ invalid' = invalid
      /\ size' = size \/ size' = (size + 1) % SizeModulus
      /\ found' = found \/ found' = [found EXCEPT ![w] = OK]
  BY SameSearch DEF Table!Store, Table!Return
<1>2. \A s, t \in slot : s = t
  <2>1. (Table!Full /\ TRUE) \in BOOLEAN
    BY DEF Table!Full
  <2> QED
    BY <2>1, OneSlot, Zenon
<1> HIDE DEF slot
<1>3. nodes \in [MapSlots -> MapNodes] /\ size \in 0 .. SizeModulus - 1
  BY DEF TypeOK, MapSlots, MapNodes
<1>4. /\ Table!Node(k, c, FALSE) \in MapNodes
      /\ Table!Node(k, c, FALSE).val = c
  BY DEF Table!Node, MapNodes
<1>5. nodes' \in [MapSlots -> MapNodes]
  BY <1>1, <1>3, <1>4
<1>6. size' \in 0 .. SizeModulus - 1
  BY <1>1, <1>3, ModulusAssumption, CapacityAssumption
<1>7. \A s \in MapSlots : /\ s \in slot => nodes'[s].val = c
                          /\ s \notin slot => nodes'[s].val = nodes[s].val
  BY <1>1, <1>4
<1> QED
  BY <1>1, <1>2, <1>5, <1>6, <1>7

\* So does put() in a worker.
LEMMA PutWrites ==
    ASSUME TypeOK, NEW w \in Workers, Put(w), serves[w] \in Conns, req[w].key \in Keys
    PROVE  /\ nodes' \in [MapSlots -> MapNodes]
           /\ size' \in 0 .. SizeModulus - 1
           /\ crashed' \in BOOLEAN
           /\ invalid' = invalid
           /\ found' = found \/ found' = [found EXCEPT ![w] = OK]
           /\ \A s \in MapSlots : nodes'[s].val \in {nodes[s].val, serves[w]}
           /\ \A s, t \in MapSlots :
                 /\ nodes'[s].val = serves[w] /\ nodes[s].val # serves[w]
                 /\ nodes'[t].val = serves[w] /\ nodes[t].val # serves[w]
                 => s = t
<1>1. Table!Store(w, req[w].key, serves[w], TRUE)
  BY DEF Put
<1> QED
  BY <1>1, StoreWrites, ZenonT(60)

\* delete() changes no buffer and returns one, or NULL.
LEMMA DeleteWrites ==
    ASSUME TypeOK, NEW w \in Workers, NEW k \in Keys, Table!Delete(w, k)
    PROVE  /\ nodes' \in [MapSlots -> MapNodes]
           /\ size' \in 0 .. SizeModulus - 1
           /\ UNCHANGED <<invalid, crashed>>
           /\ \A s \in MapSlots : nodes'[s].val = nodes[s].val
           /\ found' = [found EXCEPT ![w] = Table!Lookup(nodes, k)]
<1>1. /\ nodes' = nodes \/ nodes' = [nodes EXCEPT ![Home[k]].tombstone = TRUE]
      /\ size' = (size - 1) % SizeModulus
      /\ UNCHANGED <<invalid, crashed>>
      /\ found' = [found EXCEPT ![w] = Table!Lookup(nodes, k)]
  BY DEF Table!Delete, Table!Return
<1>2. nodes \in [MapSlots -> MapNodes] /\ size \in 0 .. SizeModulus - 1
  BY DEF TypeOK, MapSlots, MapNodes
<1>3. Home[k] \in MapSlots
  BY HomeAssumption DEF MapSlots
<1>4. /\ nodes' \in [MapSlots -> MapNodes]
      /\ \A s \in MapSlots : nodes'[s].val = nodes[s].val
  <2>1. CASE nodes' = nodes
    BY <1>2, <2>1
  <2>2. CASE nodes' = [nodes EXCEPT ![Home[k]].tombstone = TRUE]
    <3>1. nodes[Home[k]] \in MapNodes
      BY <1>2, <1>3
    <3> DEFINE n == [nodes[Home[k]] EXCEPT !.tombstone = TRUE]
    <3>2. n \in MapNodes /\ n.val = nodes[Home[k]].val
      BY <3>1 DEF MapNodes
    <3>3. nodes' = [nodes EXCEPT ![Home[k]] = n]
      BY <2>2, Zenon
    <3> HIDE DEF n
    <3> QED
      BY <1>2, <1>3, <3>2, <3>3
  <2> QED
    BY <1>1, <2>1, <2>2
<1>5. size' \in 0 .. SizeModulus - 1
  BY <1>1, <1>2, ModulusAssumption, CapacityAssumption
<1> QED
  BY <1>1, <1>4, <1>5
-----------------------------------------------------------------------------
(* The two queues: the backlog and the descriptors in hand                 *)

\* What is appended comes behind the rest.
LEMMA AppendParts ==
    ASSUME NEW S, NEW q \in Seq(S), NEW x \in S
    PROVE  /\ Append(q, x) \in Seq(S)
           /\ \A i \in DOMAIN q : i \in DOMAIN Append(q, x) /\ Append(q, x)[i] = q[i]
           /\ Len(q) + 1 \in DOMAIN Append(q, x) /\ Append(q, x)[Len(q) + 1] = x
           /\ \A i \in DOMAIN Append(q, x) :
                 \/ i \in DOMAIN q /\ Append(q, x)[i] = q[i]
                 \/ i = Len(q) + 1
<1>1. /\ Append(q, x) \in Seq(S)
      /\ Len(Append(q, x)) = Len(q) + 1
      /\ \A i \in 1 .. Len(q) : Append(q, x)[i] = q[i]
      /\ Append(q, x)[Len(q) + 1] = x
  BY AppendProperties
<1>2. /\ DOMAIN q = 1 .. Len(q) /\ Len(q) \in Nat
      /\ DOMAIN Append(q, x) = 1 .. Len(q) + 1
  BY <1>1, LenProperties
<1> QED
  BY <1>1, <1>2

\* What is left when the head is taken.
LEMMA TailParts ==
    ASSUME NEW S, NEW q \in Seq(S), q # <<>>
    PROVE  /\ Head(q) \in S /\ Tail(q) \in Seq(S)
           /\ 1 \in DOMAIN q /\ Head(q) = q[1]
           /\ \A i \in DOMAIN Tail(q) :
                 i \in Nat /\ i + 1 \in DOMAIN q /\ i + 1 # 1 /\ Tail(q)[i] = q[i + 1]
           /\ \A i \in DOMAIN q : i # 1 => \E j \in DOMAIN Tail(q) : Tail(q)[j] = q[i]
<1>1. /\ Head(q) \in S /\ Tail(q) \in Seq(S)
      /\ Len(Tail(q)) = Len(q) - 1
      /\ \A i \in 1 .. Len(Tail(q)) : Tail(q)[i] = q[i + 1]
  BY HeadTailProperties
<1>2. /\ DOMAIN q = 1 .. Len(q) /\ Len(q) \in Nat \ {0}
      /\ DOMAIN Tail(q) = 1 .. Len(q) - 1
  BY <1>1, LenProperties, EmptySeq
<1>3. Head(q) = q[1]
  BY <1>2
<1>4. \A i \in DOMAIN Tail(q) :
         i \in Nat /\ i + 1 \in DOMAIN q /\ i + 1 # 1 /\ Tail(q)[i] = q[i + 1]
  BY <1>1, <1>2
<1>5. ASSUME NEW i \in DOMAIN q, i # 1
      PROVE  \E j \in DOMAIN Tail(q) : Tail(q)[j] = q[i]
  <2>1. i - 1 \in DOMAIN Tail(q) /\ i - 1 + 1 = i
    BY <1>2, <1>5
  <2> QED
    BY <1>4, <2>1
<1> QED
  BY <1>1, <1>2, <1>3, <1>4, <1>5
-----------------------------------------------------------------------------
(* The kinds of steps                                                      *)

\* What the sizes and the code of a request lead to.
LEMMA Routes ==
    /\ \A r \in Requests : r.fit # "big" =>
          Route(r) \in {"refuse", "spin", "get_spin", "reply"}
    /\ \A r, q : r.code = q.code /\ r.fit = q.fit =>
          Route(r) = Route(q) /\ Answer(r) = Answer(q)
<1>1. ASSUME NEW r \in Requests, r.fit # "big"
      PROVE  Route(r) \in {"refuse", "spin", "get_spin", "reply"}
  <2>1. /\ r.code \in {"PUT", "GET", "EVICT", "CLEAR", "other"}
        /\ r.fit \in {"fits", "small"}
    BY <1>1, RequestsAssumption
  <2>2. CASE r.code \in {"PUT", "GET", "EVICT"} /\ r.fit = "small"
    BY <2>2 DEF Route
  <2>3. CASE r.code \in {"PUT", "EVICT"} /\ r.fit = "fits"
    BY <2>3 DEF Route
  <2>4. CASE r.code = "CLEAR"
    BY <2>4 DEF Route
  <2>5. CASE r.code = "GET" /\ r.fit = "fits"
    BY <2>5 DEF Route
  <2>6. CASE r.code = "other"
    BY <2>6 DEF Route
  <2> QED
    BY <2>1, <2>2, <2>3, <2>4, <2>5, <2>6
<1>2. ASSUME NEW r, NEW q, r.code = q.code, r.fit = q.fit
      PROVE  Route(r) = Route(q)
  BY <1>2, Zenon DEF Route
<1>3. ASSUME NEW r, NEW q, r.code = q.code, r.fit = q.fit
      PROVE  Answer(r) = Answer(q)
  BY <1>2, <1>3, Zenon DEF Answer
<1> QED
  BY <1>1, <1>2, <1>3

\* The answers to a request that leads there.
LEMMA Answers ==
    ASSUME NEW r
    PROVE  /\ Route(r) = "refuse" => Answer(r) = {"echo"}
           /\ Route(r) = "spin" => Answer(r) = {"OK"}
           /\ Route(r) = "get_spin" => Answer(r) = {"OK", "NOT_FOUND"}
           /\ Route(r) = "reply" => Answer(r) = {"UNSUPPORTED"}
<1>1. CASE Route(r) = "refuse"
  BY <1>1 DEF Answer
<1>2. CASE Route(r) = "spin"
  BY <1>2 DEF Answer
<1>3. CASE Route(r) = "get_spin"
  BY <1>3 DEF Answer
<1>4. CASE Route(r) = "reply"
  BY <1>4 DEF Answer
<1> QED
  BY <1>1, <1>2, <1>3, <1>4

\* A step within the work on a request, one that closes the connection, and one
\* that ends the process.
Within(w) == \/ ReadHeader(w) \/ ReadBody(w) \/ Refuse(w) \/ WriterSpin(w)
             \/ Put(w) \/ Evict(w) \/ Clear(w)
             \/ GetSpin(w) \/ GetEnter(w) \/ GetQuiet(w) \/ GetOvertaken(w)
             \/ Reply(w) \/ SendBody(w)
Closes(w) == /\ worker[w] \in Working
             /\ \E to \in {"dequeue", "gone"} : CloseAnd(w, worker[w], to)
Exits == /\ exited' = TRUE
         /\ UNCHANGED <<main, worker, os, fds, connfd, queue, req, res, map, history>>

\* A worker takes no others.
LEMMA Kinds ==
    ASSUME NEW w \in Workers, WorkerStep(w)
    PROVE  Dequeue(w) \/ Within(w) \/ Closes(w) \/ Exits
<1>1. \A from \in Working : Broken(w, from) => Closes(w)
  BY DEF Broken, CloseAnd, Goto, Closes
<1>2. \A from : Exit(w, from) => Exits
  BY DEF Exit, Exits
<1>3. CASE ReadOversize(w) \/ RefuseClose(w)
  BY <1>1, <1>3 DEF ReadOversize, RefuseClose, Working
<1>4. CASE ReadFails(w)
  <2>1. worker[w] \in Working
    BY <1>4 DEF ReadFails, Working
  <2> QED
    BY <1>1, <1>2, <1>4, <2>1 DEF ReadFails
<1>5. CASE RefuseFails(w)
  BY <1>2, <1>5 DEF RefuseFails
<1>6. CASE WriteFails(w)
  BY <1>1, <1>2, <1>6 DEF WriteFails, Working
<1>7. CASE CloseConn(w)
  BY <1>7 DEF CloseConn, CloseAnd, Goto, Closes, Working
<1> QED
  BY <1>3, <1>4, <1>5, <1>6, <1>7 DEF WorkerStep, Within

\* Within its work a worker leaves the descriptors, the queue and the clients alone.
LEMMA WithinKeeps ==
    ASSUME TypeOK, Asked, NEW w \in Workers, Within(w)
    PROVE  /\ worker[w] \in Working /\ worker'[w] \in Working
           /\ \A v \in Workers \ {w} : worker'[v] = worker[v]
           /\ worker' \in [Workers -> {"unborn", "dequeue", "gone"} \cup Working]
           /\ UNCHANGED <<main, backlog, arrived, arrival, fds, connfd, pending,
                          taken, destroyed, invalid_queue, serves, closed, exited>>
<1> USE DEF TypeOK, Goto, Working, Cached, os, queue, history, map
<1>1. CASE ReadHeader(w) \/ Refuse(w) \/ WriterSpin(w)
  BY <1>1 DEF ReadHeader, Refuse, WriterSpin
<1>2. CASE ReadBody(w)
  <2>1. Route(req[w]) \in {"refuse", "spin", "get_spin", "reply"}
    BY <1>2, Routes DEF ReadBody, Asked
  <2> QED
    BY <1>2, <2>1 DEF ReadBody
<1>3. CASE Put(w) \/ Evict(w) \/ Clear(w)
  BY <1>3 DEF Put, Evict, Clear, Written
<1>4. CASE GetSpin(w) \/ GetEnter(w) \/ GetQuiet(w) \/ GetOvertaken(w)
  BY <1>4 DEF GetSpin, GetEnter, GetQuiet, GetOvertaken, Got
<1>5. CASE Reply(w) \/ SendBody(w)
  BY <1>5 DEF Reply, SendBody
<1> QED
  BY <1>1, <1>2, <1>3, <1>4, <1>5 DEF Within
-----------------------------------------------------------------------------
(* Who has which descriptor                                                *)

\* A step that leaves the descriptors where they are.
LEMMA HandsStay ==
    ASSUME Hands, UNCHANGED <<main, fds, connfd, pending, taken>>,
           \A w \in Workers : worker'[w] \in Working <=> worker[w] \in Working
    PROVE  Hands'
BY DEF Hands

\* accept() hands main() a descriptor that nobody had.
LEMMA AcceptHands ==
    ASSUME TypeOK, Hands, DoAccept
    PROVE  Hands'
<1>1. PICK f \in FDs : /\ fds[f] = NULL
                       /\ fds' = [fds EXCEPT ![f] = Head(backlog)]
                       /\ connfd' = f
  BY DEF DoAccept, Free
<1>2. /\ main = "accept" /\ main' = "enqueue" /\ backlog # <<>>
      /\ UNCHANGED <<worker, pending, taken>>
  BY DEF DoAccept, queue
<1>3. Head(backlog) \in Conns /\ Head(backlog) # NULL
  BY <1>2, TailParts, MapValues DEF TypeOK
<1>4. /\ fds'[f] # NULL
      /\ \A g \in FDs \ {f} : fds'[g] = fds[g]
  BY <1>1, <1>3 DEF TypeOK
<1>5. /\ \A i \in DOMAIN pending : pending[i] \in FDs /\ pending[i] # f
      /\ \A w \in Workers : worker[w] \in Working => taken[w] \in FDs /\ taken[w] # f
  BY <1>1, LenProperties, ElementOfSeq DEF TypeOK, Hands
<1> QED
  BY <1>1, <1>2, <1>4, <1>5 DEF Hands

\* enqueue() gives it to the queue,
LEMMA EnqueueHands ==
    ASSUME TypeOK, Hands, Enqueue
    PROVE  Hands'
<1>1. /\ main = "enqueue" /\ main' = "accept"
      /\ pending' = Append(pending, connfd)
      /\ taken' = [taken EXCEPT ![Main] = OK]
      /\ UNCHANGED <<worker, fds, connfd>>
  BY DEF Enqueue, Fifo!Put
<1>2. /\ pending \in Seq(FDs)
      /\ connfd \in FDs /\ fds[connfd] # NULL
      /\ \A i \in DOMAIN pending : pending[i] # connfd
      /\ \A w \in Workers : worker[w] \in Working => taken[w] # connfd
  BY <1>1 DEF TypeOK, Hands
<1>3. /\ \A i \in DOMAIN pending : i \in DOMAIN pending' /\ pending'[i] = pending[i]
      /\ Len(pending) + 1 \in DOMAIN pending' /\ pending'[Len(pending) + 1] = connfd
      /\ \A i \in DOMAIN pending' : \/ i \in DOMAIN pending /\ pending'[i] = pending[i]
                                    \/ i = Len(pending) + 1
  BY <1>1, <1>2, AppendParts
<1>4. \A w \in Workers : taken'[w] = taken[w]
  BY <1>1, MainAssumption DEF TypeOK
<1>5. \A i \in DOMAIN pending' :
         fds[pending'[i]] # NULL /\ \A j \in DOMAIN pending' : pending'[i] = pending'[j] => i = j
  BY <1>2, <1>3 DEF Hands
<1>6. \A w \in Workers : worker[w] \in Working =>
         \A i \in DOMAIN pending' : pending'[i] # taken[w]
  BY <1>2, <1>3 DEF Hands
<1>7. \A f \in FDs : fds[f] # NULL =>
         \/ \E i \in DOMAIN pending' : pending'[i] = f
         \/ \E w \in Workers : worker[w] \in Working /\ taken[w] = f
  BY <1>3 DEF Hands
<1> QED
  BY <1>1, <1>4, <1>5, <1>6, <1>7 DEF Hands

\* and dequeue() to a worker.
LEMMA DequeueHands ==
    ASSUME TypeOK, Hands, NEW w \in Workers, Dequeue(w)
    PROVE  Hands'
<1> DEFINE f == Head(pending)
<1>1. /\ worker[w] = "dequeue" /\ worker' = [worker EXCEPT ![w] = "read_header"]
      /\ pending # <<>> /\ pending' = Tail(pending)
      /\ taken' = [taken EXCEPT ![w] = f]
      /\ UNCHANGED <<main, fds, connfd>>
  BY DEF Dequeue, Goto, Fifo!Take
<1>2. /\ f \in FDs /\ 1 \in DOMAIN pending /\ f = pending[1]
      /\ \A i \in DOMAIN pending' : /\ i \in Nat /\ i + 1 \in DOMAIN pending
                                    /\ i + 1 # 1 /\ pending'[i] = pending[i + 1]
      /\ \A i \in DOMAIN pending : i # 1 => \E j \in DOMAIN pending' : pending'[j] = pending[i]
  BY <1>1, TailParts DEF TypeOK
<1> HIDE DEF f
<1>3. /\ worker'[w] \in Working /\ worker[w] \notin Working /\ taken'[w] = f
      /\ \A v \in Workers \ {w} : worker'[v] = worker[v] /\ taken'[v] = taken[v]
  BY <1>1 DEF TypeOK, Working, Cached
<1>4. /\ fds[f] # NULL
      /\ \A i \in DOMAIN pending' : pending'[i] # f
      /\ \A v \in Workers : worker[v] \in Working => taken[v] # f
      /\ main = "enqueue" => connfd # f
  BY <1>2 DEF Hands
<1>5. \A i \in DOMAIN pending' :
         /\ fds[pending'[i]] # NULL
         /\ \A j \in DOMAIN pending' : pending'[i] = pending'[j] => i = j
  <2>1. ASSUME NEW i \in DOMAIN pending', NEW j \in DOMAIN pending', pending'[i] = pending'[j]
        PROVE  i = j
    <3>1. i + 1 = j + 1
      BY <1>2, <2>1 DEF Hands
    <3> QED
      BY <1>2, <3>1
  <2> QED
    BY <1>2, <2>1 DEF Hands
<1>6. \A v \in Workers : worker'[v] \in Working =>
         /\ taken'[v] \in FDs /\ fds[taken'[v]] # NULL
         /\ \A i \in DOMAIN pending' : pending'[i] # taken'[v]
         /\ \A u \in Workers \ {v} : worker'[u] \in Working => taken'[u] # taken'[v]
  <2>1. \A v \in Workers \ {w} : worker[v] \in Working =>
           \A i \in DOMAIN pending' : pending'[i] # taken[v]
    BY <1>2 DEF Hands
  <2> QED
    BY <1>2, <1>3, <1>4, <2>1 DEF Hands
<1>7. main = "enqueue" =>
         /\ connfd \in FDs /\ fds[connfd] # NULL
         /\ \A i \in DOMAIN pending' : pending'[i] # connfd
         /\ \A v \in Workers : worker'[v] \in Working => taken'[v] # connfd
  BY <1>2, <1>3, <1>4 DEF Hands
<1>8. ASSUME NEW g \in FDs, fds[g] # NULL
      PROVE  \/ \E i \in DOMAIN pending' : pending'[i] = g
             \/ \E v \in Workers : worker'[v] \in Working /\ taken'[v] = g
             \/ main = "enqueue" /\ connfd = g
  <2>1. CASE g = f
    BY <1>3, <2>1
  <2>2. CASE g # f
    <3>1. \A v \in Workers : worker[v] \in Working => v # w
      BY <1>3
    <3> QED
      BY <1>2, <1>3, <1>8, <2>2, <3>1 DEF Hands
  <2> QED
    BY <2>1, <2>2
<1> QED
  BY <1>1, <1>5, <1>6, <1>7, <1>8 DEF Hands

\* close() leaves it to nobody.
LEMMA CloseHands ==
    ASSUME TypeOK, Hands, NEW w \in Workers, Closes(w)
    PROVE  Hands'
<1> DEFINE f == taken[w]
<1>1. /\ worker[w] \in Working /\ worker'[w] \notin Working
      /\ \A v \in Workers \ {w} : worker'[v] = worker[v]
      /\ fds' = [fds EXCEPT ![f] = NULL]
      /\ UNCHANGED <<main, connfd, pending, taken>>
  BY DEF Closes, CloseAnd, Goto, TypeOK, queue, Working, Cached
<1>2. /\ f \in FDs
      /\ \A i \in DOMAIN pending : pending[i] # f
      /\ \A v \in Workers \ {w} : worker[v] \in Working => taken[v] # f
      /\ main = "enqueue" => connfd # f
  BY <1>1 DEF Hands
<1>3. fds'[f] = NULL /\ \A g \in FDs \ {f} : fds'[g] = fds[g]
  BY <1>1, <1>2 DEF TypeOK
<1>4. \A i \in DOMAIN pending : pending[i] \in FDs
  BY LenProperties, ElementOfSeq DEF TypeOK
<1> HIDE DEF f
<1>5. \A v \in Workers : worker'[v] \in Working => v # w /\ worker[v] \in Working
  BY <1>1
<1>6. \A g \in FDs : fds'[g] # NULL =>
          \/ \E i \in DOMAIN pending : pending[i] = g
          \/ \E v \in Workers : worker'[v] \in Working /\ taken[v] = g
          \/ main = "enqueue" /\ connfd = g
  BY <1>1, <1>3 DEF Hands, f
<1> QED
  BY <1>1, <1>2, <1>3, <1>4, <1>5, <1>6 DEF Hands
-----------------------------------------------------------------------------
(* The types                                                               *)

\* What a worker at its request holds.
LEMMA AtWork ==
    ASSUME TypeOK, Hands, Serving, NEW w \in Workers, worker[w] \in Working
    PROVE  /\ taken[w] \in FDs
           /\ Peer(w) = serves[w] /\ Peer(w) \in Conns /\ serves[w] \in Conns
           /\ Input(w) \in Arrivals /\ Input(w) = arrival[serves[w]]
           /\ Input(w).req \in Requests
BY ArrivalsAssumption DEF TypeOK, Hands, Serving, Peer, Input

\* The key of its request is one, whether or not it has arrived.
LEMMA RequestKey ==
    ASSUME TypeOK, NEW w \in Workers
    PROVE  req[w].key \in Keys
BY RequestsAssumption, ZeroKeyAssumption DEF TypeOK

\* The buffers in the map are those of connections.
LEMMA BuffersAreConns ==
    ASSUME TypeOK
    PROVE  /\ nodes \in [MapSlots -> MapNodes] /\ DOMAIN nodes = MapSlots
           /\ Buffers \subseteq Conns
           /\ \A b : b \in Buffers <=> b # NULL /\ \E s \in MapSlots : nodes[s].val = b
<1>1. nodes \in [MapSlots -> MapNodes]
  BY DEF TypeOK, MapSlots, MapNodes
<1> QED
  BY <1>1 DEF Buffers, MapNodes

\* Reading a request and answering it keep the types,
LEMMA RequestTypes ==
    ASSUME IInv, NEW w \in Workers,
           \/ ReadHeader(w) \/ ReadBody(w) \/ Refuse(w) \/ Reply(w)
           \/ SendBody(w) \/ WriterSpin(w) \/ GetSpin(w)
    PROVE  TypeOK'
<1> USE DEF IInv
<1>1. /\ worker[w] \in Working /\ worker' \in [Workers -> {"unborn", "dequeue", "gone"} \cup Working]
      /\ UNCHANGED <<main, backlog, arrived, arrival, fds, connfd, pending,
                     taken, destroyed, invalid_queue, serves, closed, exited>>
  BY WithinKeeps DEF Within
<1>2. Peer(w) \in Conns /\ Input(w).req \in Requests
  BY <1>1, AtWork
<1>3. CASE ReadHeader(w)
  <2>1. PICK r \in Requests : req' = [req EXCEPT ![w] = r]
    BY <1>2, <1>3 DEF ReadHeader, Headers
  <2>2. UNCHANGED <<res, map, answers>>
    BY <1>3 DEF ReadHeader, history
  <2> QED
    BY <1>1, <2>1, <2>2 DEF TypeOK, map
<1>4. CASE ReadBody(w)
  <2>1. req[w] \in Requests
    BY <1>4 DEF ReadBody, Goto, Asked
  <2>2. req' = req \/ req' = [req EXCEPT ![w] = [req[w] EXCEPT !.key = ZeroKey]]
    BY <1>4, Zenon DEF ReadBody
  <2>3. UNCHANGED <<res, map, answers>>
    BY <1>4 DEF ReadBody, history
  <2> DEFINE short == [req[w] EXCEPT !.key = ZeroKey]
             Shorts == {[r EXCEPT !.key = ZeroKey] : r \in Requests}
  <2>4. short \in Shorts
    BY <2>1
  <2>5. req' \in [Workers -> Requests \cup [code : {"other"}, fit : {"fits"}, key : Keys]
                                     \cup Shorts]
    <3> HIDE DEF short
    <3> QED
      BY <2>2, <2>4 DEF TypeOK, short
  <2> QED
    BY <1>1, <2>3, <2>5 DEF TypeOK, map
<1>5. CASE Refuse(w) \/ Reply(w)
  <2>1. PICK x \in Codes \cup {"echo"} :
           answers' = [answers EXCEPT ![Peer(w)] = Append(answers[Peer(w)], x)]
    <3>1. res[w] \in Codes
      BY DEF TypeOK
    <3> QED
      BY <1>5, <3>1 DEF Refuse, Reply
  <2>2. answers' \in [Conns -> Seq(Codes \cup {"echo"})]
    <3>1. answers[Peer(w)] \in Seq(Codes \cup {"echo"})
      BY <1>2 DEF TypeOK
    <3>2. Append(answers[Peer(w)], x) \in Seq(Codes \cup {"echo"})
      BY <3>1, <2>1, AppendParts
    <3> QED
      BY <1>2, <2>1, <3>2 DEF TypeOK
  <2>3. UNCHANGED <<req, res, map>>
    BY <1>5 DEF Refuse, Reply
  <2> QED
    BY <1>1, <2>2, <2>3 DEF TypeOK, map
<1>6. CASE SendBody(w) \/ WriterSpin(w) \/ GetSpin(w)
  <2>1. UNCHANGED <<req, res, map, answers>>
    BY <1>6 DEF SendBody, WriterSpin, GetSpin, history
  <2> QED
    BY <1>1, <2>1 DEF TypeOK, map
<1> QED
  BY <1>3, <1>4, <1>5, <1>6

\* so do the writes to the map,
LEMMA WriteTypes ==
    ASSUME IInv, NEW w \in Workers, Put(w) \/ Evict(w) \/ Clear(w)
    PROVE  TypeOK'
<1> USE DEF IInv
<1>1. /\ worker[w] \in Working /\ worker' \in [Workers -> {"unborn", "dequeue", "gone"} \cup Working]
      /\ UNCHANGED <<main, backlog, arrived, arrival, fds, connfd, pending,
                     taken, destroyed, invalid_queue, serves, closed, exited>>
  BY WithinKeeps DEF Within
<1>2. /\ res' = [res EXCEPT ![w] = "OK"] /\ num_readers' = 0
      /\ overtaken' = overtaken \cup Getting
      /\ seen' = [g \in Workers |-> IF g \in Getting THEN seen[g] \cup Buffers' ELSE seen[g]]
      /\ UNCHANGED <<req, answers>>
  BY DEF Put, Evict, Clear, Written, Overtake, history
<1>3. serves[w] \in Conns /\ req[w].key \in Keys
  BY <1>1, AtWork, RequestKey
<1>4. /\ nodes' \in [MapSlots -> MapNodes]
      /\ size' \in 0 .. SizeModulus - 1
      /\ invalid' = invalid /\ crashed' \in BOOLEAN
      /\ found' \in [Workers -> Conns \cup {NULL, OK}]
  <2>1. CASE Put(w)
    <3>1. /\ nodes' \in [MapSlots -> MapNodes]
          /\ size' \in 0 .. SizeModulus - 1
          /\ invalid' = invalid /\ crashed' \in BOOLEAN
          /\ found' = found \/ found' = [found EXCEPT ![w] = OK]
      BY <1>3, <2>1, PutWrites
    <3> QED
      BY <3>1 DEF TypeOK
  <2>2. CASE Evict(w)
    <3>1. Table!Lookup(nodes, req[w].key) \in Conns \cup {NULL}
      BY <1>3, LookupIsBuffer, BuffersAreConns DEF MapNodes
    <3>2. /\ nodes' \in [MapSlots -> MapNodes]
          /\ size' \in 0 .. SizeModulus - 1
          /\ UNCHANGED <<invalid, crashed>>
          /\ found' = [found EXCEPT ![w] = Table!Lookup(nodes, req[w].key)]
      BY <1>3, <2>2, DeleteWrites DEF Evict
    <3>3. crashed \in BOOLEAN /\ found \in [Workers -> Conns \cup {NULL, OK}]
      BY DEF TypeOK
    <3> QED
      BY <3>1, <3>2, <3>3
  <2>3. CASE Clear(w)
    <3>1. /\ nodes' = [s \in MapSlots |-> Table!EmptyNode] /\ size' = 0
          /\ UNCHANGED <<invalid, crashed>> /\ found' = [found EXCEPT ![w] = OK]
      BY <2>3, SameSearch DEF Clear, Table!ClearMap, Table!Return
    <3>2. Table!EmptyNode \in MapNodes
      BY DEF Table!EmptyNode, Table!Node, MapNodes
    <3> QED
      BY <3>1, <3>2, ModulusAssumption, CapacityAssumption DEF TypeOK
  <2> QED
    BY <2>1, <2>2, <2>3
<1>5. Buffers' \subseteq Conns
  BY <1>4 DEF Buffers, MapNodes
<1>6. Getting \subseteq Workers /\ Answering \subseteq Workers /\ Buffers \subseteq Conns
  BY BuffersAreConns DEF Getting, Answering
<1>7. seen' \in [Workers -> SUBSET Conns]
  BY <1>2, <1>5 DEF TypeOK
<1>8. cleared' \subseteq Workers /\ freed' \subseteq Conns
  BY <1>6 DEF Put, Evict, Clear, TypeOK
<1>9. nodes' \in [0 .. Capacity - 1 -> [key : Keys \cup {NULL}, val : Conns \cup {NULL},
                                        tombstone : BOOLEAN]]
  BY <1>4 DEF MapSlots, MapNodes
<1>10. /\ res' \in [Workers -> Codes] /\ num_readers' \in Int
       /\ overtaken' \subseteq Workers
  BY <1>2, <1>6 DEF TypeOK, Codes
<1> QED
  BY <1>1, <1>2, <1>4, <1>7, <1>8, <1>9, <1>10 DEF TypeOK

\* and the reads,
LEMMA ReadTypes ==
    ASSUME IInv, NEW w \in Workers, GetEnter(w) \/ GetQuiet(w) \/ GetOvertaken(w)
    PROVE  TypeOK'
<1> USE DEF IInv
<1>1. /\ worker[w] \in Working /\ worker' \in [Workers -> {"unborn", "dequeue", "gone"} \cup Working]
      /\ UNCHANGED <<main, backlog, arrived, arrival, fds, connfd, pending,
                     taken, destroyed, invalid_queue, serves, closed, exited>>
  BY WithinKeeps DEF Within
<1>2. CASE GetEnter(w)
  <2>1. /\ num_readers' = num_readers + 1
        /\ seen' = [seen EXCEPT ![w] = Buffers]
        /\ UNCHANGED <<req, res, nodes, size, invalid, crashed, found, overtaken,
                       cleared, freed, answers>>
    BY <1>2 DEF GetEnter, history
  <2>2. num_readers' \in Int /\ seen' \in [Workers -> SUBSET Conns]
    BY <2>1, BuffersAreConns DEF TypeOK
  <2> QED
    BY <1>1, <2>1, <2>2 DEF TypeOK
<1>3. CASE GetQuiet(w) \/ GetOvertaken(w)
  <2>1. /\ num_readers' = num_readers - 1
        /\ \E c \in {"OK", "NOT_FOUND"} : res' = [res EXCEPT ![w] = c]
        /\ seen' = [seen EXCEPT ![w] = {}]
        /\ overtaken' = overtaken \ {w}
        /\ UNCHANGED <<req, nodes, size, invalid, crashed, cleared, freed, answers>>
    BY <1>3 DEF GetQuiet, GetOvertaken, Got, Table!Get, history
  <2>2. found' \in [Workers -> Conns \cup {NULL, OK}]
    <3>1. CASE GetQuiet(w)
      <4>1. Table!Lookup(nodes, req[w].key) \in Conns \cup {NULL}
        BY RequestKey, LookupIsBuffer, BuffersAreConns DEF MapNodes
      <4> QED
        BY <3>1, <4>1 DEF GetQuiet, Table!Get, Table!Return, TypeOK
    <3>2. CASE GetOvertaken(w)
      BY <3>2 DEF GetOvertaken, TypeOK
    <3> QED
      BY <1>3, <3>1, <3>2
  <2>3. /\ num_readers' \in Int /\ res' \in [Workers -> Codes]
        /\ seen' \in [Workers -> SUBSET Conns] /\ overtaken' \subseteq Workers
    BY <2>1 DEF TypeOK, Codes
  <2> QED
    BY <1>1, <2>1, <2>2, <2>3 DEF TypeOK
<1> QED
  BY <1>2, <1>3

\* the steps of main() and of the clients,
LEMMA MainTypes ==
    ASSUME IInv, Connect \/ MainStep
    PROVE  TypeOK'
<1> USE DEF IInv
<1>1. CASE Connect
  <2>1. /\ arrived < MaxConns /\ arrived' = arrived + 1
        /\ backlog' = Append(backlog, arrived + 1)
        /\ UNCHANGED <<main, worker, arrival, fds, connfd, queue, req, res, map, history,
                       exited>>
    BY <1>1 DEF Connect
  <2>2. arrived + 1 \in Conns /\ arrived' \in 0 .. MaxConns
    BY <2>1, ConnsAssumption DEF TypeOK, Conns
  <2>3. backlog' \in Seq(Conns)
    BY <2>1, <2>2, AppendParts DEF TypeOK
  <2> QED
    BY <2>1, <2>2, <2>3 DEF TypeOK, queue, map, history
<1>2. ASSUME NEW w \in Workers, Spawn(w)
      PROVE  TypeOK'
  BY <1>2 DEF Spawn, Goto, TypeOK, os, queue, map, history
<1>3. CASE CreateMap \/ AcceptFails
  <2>1. CASE CreateMap
    BY <2>1 DEF CreateMap, TypeOK, os, queue, map, history
  <2>2. CASE AcceptFails
    BY <2>2 DEF AcceptFails, TypeOK, os, queue, map, history
  <2> QED
    BY <1>3, <2>1, <2>2
<1>4. CASE DoAccept
  <2>1. PICK f \in FDs : /\ fds' = [fds EXCEPT ![f] = Head(backlog)]
                         /\ connfd' = f
    BY <1>4 DEF DoAccept, Free
  <2>2. Head(backlog) \in Conns /\ Tail(backlog) \in Seq(Conns)
    BY <1>4, TailParts DEF DoAccept, TypeOK
  <2>3. fds' \in [FDs -> Conns \cup {NULL}] /\ connfd' \in FDs /\ backlog' \in Seq(Conns)
    BY <1>4, <2>1, <2>2 DEF DoAccept, TypeOK
  <2>4. /\ main' = "enqueue"
        /\ UNCHANGED <<worker, arrived, arrival, queue, req, res, map, history, exited>>
    BY <1>4 DEF DoAccept
  <2> QED
    BY <2>3, <2>4 DEF TypeOK, queue, map, history
<1>5. CASE Enqueue
  <2>1. /\ main = "enqueue" /\ main' = "accept"
        /\ pending' = Append(pending, connfd)
        /\ taken' = [taken EXCEPT ![Main] = OK]
        /\ UNCHANGED <<worker, os, fds, connfd, destroyed, invalid_queue, req, res, map,
                       history, exited>>
    BY <1>5 DEF Enqueue, Fifo!Put
  <2>2. pending' \in Seq(FDs) /\ taken' \in [Workers \cup {Main} -> FDs \cup {NULL, OK}]
    BY <2>1, AppendParts DEF TypeOK, Hands
  <2> QED
    BY <2>1, <2>2 DEF TypeOK, os, map, history
<1> QED
  BY <1>1, <1>2, <1>3, <1>4, <1>5 DEF MainStep

\* and a worker's taking and closing of a connection.
LEMMA ConnectionTypes ==
    ASSUME IInv, NEW w \in Workers, Dequeue(w) \/ Closes(w)
    PROVE  TypeOK'
<1> USE DEF IInv
<1>1. CASE Dequeue(w)
  <2> DEFINE f == Head(pending)
             c == fds[f]
  <2>1. /\ worker' = [worker EXCEPT ![w] = "read_header"]
        /\ pending # <<>> /\ pending' = Tail(pending)
        /\ taken' = [taken EXCEPT ![w] = f]
        /\ serves' = [serves EXCEPT ![w] = c]
        /\ \E a \in Arrivals : arrival' = [arrival EXCEPT ![c] = a]
        /\ UNCHANGED <<main, backlog, arrived, fds, connfd, destroyed, invalid_queue,
                       req, res, map, answers, closed, exited>>
    BY <1>1 DEF Dequeue, Goto, Fifo!Take, clients
  <2>2. f \in FDs /\ pending' \in Seq(FDs) /\ f = pending[1] /\ 1 \in DOMAIN pending
    BY <2>1, TailParts DEF TypeOK
  <2>3. c \in Conns
    BY <2>2 DEF TypeOK, Hands
  <2> HIDE DEF f, c
  <2>4. /\ worker' \in [Workers -> {"unborn", "dequeue", "gone"} \cup Working]
        /\ taken' \in [Workers \cup {Main} -> FDs \cup {NULL, OK}]
        /\ serves' \in [Workers -> Conns \cup {NULL}]
        /\ arrival' \in [Conns -> Arrivals \cup {NULL}]
    BY <2>1, <2>2, <2>3 DEF TypeOK, Working
  <2> QED
    BY <2>1, <2>2, <2>4 DEF TypeOK, map
<1>2. CASE Closes(w)
  <2>1. /\ worker[w] \in Working /\ worker' \in [Workers -> {"unborn", "dequeue", "gone"} \cup Working]
        /\ fds' = [fds EXCEPT ![taken[w]] = NULL]
        /\ closed' = closed \cup {Peer(w)}
        /\ arrival' = [arrival EXCEPT ![Peer(w)] = NULL]
        /\ answers' = [answers EXCEPT ![Peer(w)] = <<>>]
        /\ serves' = [serves EXCEPT ![w] = NULL]
        /\ req' = [req EXCEPT ![w] = NoRequest]
        /\ res' = [res EXCEPT ![w] = "UNSUPPORTED"]
        /\ found' = [found EXCEPT ![w] = NULL]
        /\ cleared' = cleared \ {w}
        /\ UNCHANGED <<main, clients, connfd, queue, nodes, size, invalid,
                       crashed, num_readers, seen, overtaken, freed, exited>>
    BY <1>2 DEF Closes, CloseAnd, Goto, TypeOK
  <2>2. Peer(w) \in Conns /\ taken[w] \in FDs
    BY <2>1, AtWork
  <2>3. NoRequest \in [code : {"other"}, fit : {"fits"}, key : Keys]
    BY ZeroKeyAssumption DEF NoRequest
  <2>4. <<>> \in Seq(Codes \cup {"echo"})
    BY EmptySeq
  <2>5. /\ fds' \in [FDs -> Conns \cup {NULL}] /\ closed' \subseteq Conns
        /\ arrival' \in [Conns -> Arrivals \cup {NULL}]
        /\ answers' \in [Conns -> Seq(Codes \cup {"echo"})]
        /\ serves' \in [Workers -> Conns \cup {NULL}]
        /\ res' \in [Workers -> Codes]
        /\ found' \in [Workers -> Conns \cup {NULL, OK}]
        /\ cleared' \subseteq Workers
    BY <2>1, <2>2, <2>4 DEF TypeOK, Codes
  <2> QED
    BY <2>1, <2>3, <2>5 DEF TypeOK, clients, queue
<1> QED
  BY <1>1, <1>2
-----------------------------------------------------------------------------
(* Which connection is where                                               *)

\* A step that moves no connection.
LEMMA WiresStay ==
    ASSUME Wires, UNCHANGED <<backlog, arrived, fds>>
    PROVE  Wires'
BY DEF Wires

\* A client's connection is a new one.
LEMMA ConnectWires ==
    ASSUME TypeOK, Wires, Connect
    PROVE  Wires'
<1>1. /\ arrived' = arrived + 1 /\ fds' = fds
      /\ backlog' = Append(backlog, arrived + 1)
      /\ arrived < MaxConns
  BY DEF Connect
<1>2. /\ arrived \in Nat /\ backlog \in Seq(Conns) /\ arrived + 1 \in Conns
      /\ \A i \in DOMAIN backlog : backlog[i] \in Nat
      /\ \A f \in FDs : fds[f] # NULL => fds[f] \in Nat
  BY <1>1, ConnsAssumption, LenProperties, ElementOfSeq DEF TypeOK, Conns
<1>3. /\ \A i \in DOMAIN backlog : i \in DOMAIN backlog' /\ backlog'[i] = backlog[i]
      /\ backlog'[Len(backlog) + 1] = arrived + 1
      /\ \A i \in DOMAIN backlog' : \/ i \in DOMAIN backlog /\ backlog'[i] = backlog[i]
                                    \/ i = Len(backlog) + 1
  BY <1>1, <1>2, AppendParts
<1>4. /\ \A i \in DOMAIN backlog : backlog[i] <= arrived
      /\ \A i, j \in DOMAIN backlog : backlog[i] = backlog[j] => i = j
      /\ \A f \in FDs : fds[f] # NULL => /\ fds[f] <= arrived
                                         /\ \A i \in DOMAIN backlog : backlog[i] # fds[f]
  BY DEF Wires
<1>5. \A i, j \in DOMAIN backlog' : backlog'[i] = backlog'[j] => i = j
  BY <1>2, <1>3, <1>4
<1>6. \A i \in DOMAIN backlog' : backlog'[i] <= arrived + 1
  BY <1>2, <1>3, <1>4
<1>7. \A f \in FDs : fds[f] # NULL => /\ fds[f] <= arrived + 1
                                      /\ \A i \in DOMAIN backlog' : backlog'[i] # fds[f]
  BY <1>2, <1>3, <1>4
<1> QED
  BY <1>1, <1>5, <1>6, <1>7 DEF Wires

\* accept() moves the first of the backlog to a descriptor,
LEMMA AcceptWires ==
    ASSUME TypeOK, Wires, DoAccept
    PROVE  Wires'
<1>1. PICK f \in FDs : fds[f] = NULL /\ fds' = [fds EXCEPT ![f] = Head(backlog)]
  BY DEF DoAccept, Free
<1>2. /\ backlog # <<>> /\ backlog' = Tail(backlog) /\ arrived' = arrived
  BY DEF DoAccept
<1>3. /\ 1 \in DOMAIN backlog /\ Head(backlog) = backlog[1]
      /\ \A i \in DOMAIN backlog' : /\ i \in Nat /\ i + 1 \in DOMAIN backlog
                                    /\ i + 1 # 1 /\ backlog'[i] = backlog[i + 1]
  BY <1>2, TailParts DEF TypeOK
<1>4. fds'[f] = backlog[1] /\ \A g \in FDs \ {f} : fds'[g] = fds[g]
  BY <1>1, <1>3 DEF TypeOK
<1>5. \A i \in DOMAIN backlog' : /\ backlog'[i] <= arrived
                                 /\ backlog'[i] # backlog[1]
                                 /\ \A g \in FDs : fds[g] # NULL => backlog'[i] # fds[g]
  BY <1>3 DEF Wires
<1>6. ASSUME NEW i \in DOMAIN backlog', NEW j \in DOMAIN backlog', backlog'[i] = backlog'[j]
      PROVE  i = j
  <2>1. i + 1 = j + 1
    BY <1>3, <1>6 DEF Wires
  <2> QED
    BY <1>3, <2>1
<1>7. \A g \in FDs : fds'[g] # NULL =>
         /\ fds'[g] <= arrived
         /\ \A i \in DOMAIN backlog' : backlog'[i] # fds'[g]
         /\ \A h \in FDs : fds'[h] = fds'[g] => h = g
  BY <1>1, <1>3, <1>4, <1>5 DEF Wires
<1> QED
  BY <1>2, <1>5, <1>6, <1>7 DEF Wires

\* and close() takes it off.
LEMMA CloseWires ==
    ASSUME TypeOK, Wires, Hands, NEW w \in Workers, Closes(w)
    PROVE  Wires'
<1>1. /\ taken[w] \in FDs /\ fds' = [fds EXCEPT ![taken[w]] = NULL]
      /\ UNCHANGED <<backlog, arrived>>
  BY DEF Closes, CloseAnd, Hands, clients
<1>2. \A g \in FDs : fds'[g] # NULL => fds'[g] = fds[g]
  BY <1>1 DEF TypeOK
<1> QED
  BY <1>1, <1>2 DEF Wires

\* Two workers never serve the same connection.
LEMMA ServeApart ==
    ASSUME TypeOK, Hands, Wires, Serving, NEW w \in Workers, NEW v \in Workers, v # w,
           worker[w] \in Working, worker[v] \in Working
    PROVE  serves[v] # serves[w]
BY DEF Hands, Wires, Serving

\* A step that leaves the descriptors and the connections of the workers alone.
LEMMA ServingStays ==
    ASSUME Serving, UNCHANGED <<arrival, serves>>,
           \A w \in Workers : worker'[w] \in Working =>
               /\ worker[w] \in Working
               /\ fds'[taken'[w]] = fds[taken[w]]
    PROVE  Serving'
BY DEF Serving

\* A worker serves what its descriptor is open on from the dequeue() to the close().
LEMMA ConnectionServing ==
    ASSUME IInv, NEW w \in Workers, Dequeue(w) \/ Closes(w)
    PROVE  Serving'
<1> USE DEF IInv
<1>1. CASE Dequeue(w)
  <2> DEFINE f == Head(pending)
             c == fds[f]
  <2>1. /\ worker' = [worker EXCEPT ![w] = "read_header"]
        /\ pending # <<>>
        /\ taken' = [taken EXCEPT ![w] = f]
        /\ serves' = [serves EXCEPT ![w] = c]
        /\ fds' = fds
    BY <1>1 DEF Dequeue, Goto, Fifo!Take
  <2>2. PICK a \in Arrivals : arrival' = [arrival EXCEPT ![c] = a]
    BY <1>1 DEF Dequeue
  <2>3. f \in FDs /\ c \in Conns
    BY <2>1, TailParts DEF TypeOK, Hands
  <2>4. serves'[w] = fds'[taken'[w]] /\ arrival'[serves'[w]] \in Arrivals
    BY <2>1, <2>2, <2>3 DEF TypeOK
  <2>5. ASSUME NEW v \in Workers \ {w}, worker'[v] \in Working
        PROVE  serves'[v] = fds'[taken'[v]] /\ arrival'[serves'[v]] \in Arrivals
    <3>1. /\ worker[v] \in Working /\ serves'[v] = serves[v] /\ taken'[v] = taken[v]
      BY <2>1, <2>5 DEF TypeOK
    <3>2. /\ serves[v] = fds[taken[v]] /\ arrival[serves[v]] \in Arrivals
          /\ serves[v] \in Conns
      BY <3>1, AtWork DEF Serving
    <3> HIDE DEF c, f
    <3> QED
      BY <2>1, <2>2, <3>1, <3>2 DEF TypeOK
  <2> QED
    BY <2>4, <2>5 DEF Serving
<1>2. CASE Closes(w)
  <2>1. /\ worker[w] \in Working /\ worker'[w] \notin Working
        /\ \A v \in Workers \ {w} : worker'[v] = worker[v]
        /\ fds' = [fds EXCEPT ![taken[w]] = NULL]
        /\ arrival' = [arrival EXCEPT ![Peer(w)] = NULL]
        /\ serves' = [serves EXCEPT ![w] = NULL]
        /\ taken' = taken
    BY <1>2 DEF Closes, CloseAnd, Goto, TypeOK, queue, Working, Cached
  <2>2. ASSUME NEW v \in Workers \ {w}, worker[v] \in Working
        PROVE  serves'[v] = fds'[taken'[v]] /\ arrival'[serves'[v]] \in Arrivals
    <3>1. /\ taken[v] \in FDs /\ taken[w] \in FDs /\ taken[v] # taken[w]
      BY <2>1, <2>2 DEF Hands
    <3>2. /\ serves[v] = fds[taken[v]] /\ arrival[serves[v]] \in Arrivals
          /\ serves[v] \in Conns /\ serves[v] # Peer(w)
      BY <2>1, <2>2, AtWork, ServeApart DEF Serving
    <3> QED
      BY <2>1, <3>1, <3>2 DEF TypeOK
  <2> QED
    BY <2>1, <2>2 DEF Serving
<1> QED
  BY <1>1, <1>2

\* accept() opens no descriptor that a worker has.
LEMMA AcceptServing ==
    ASSUME TypeOK, Hands, Serving, DoAccept
    PROVE  Serving'
<1>1. PICK f \in FDs : fds[f] = NULL /\ fds' = [fds EXCEPT ![f] = Head(backlog)]
  BY DEF DoAccept, Free
<1>2. UNCHANGED <<worker, taken, arrival, serves>>
  BY DEF DoAccept, queue, history
<1>3. \A w \in Workers : worker[w] \in Working => taken[w] \in FDs /\ taken[w] # f
  BY <1>1 DEF Hands
<1> QED
  BY <1>1, <1>2, <1>3, ServingStays DEF TypeOK
-----------------------------------------------------------------------------
(* The request and its answer                                              *)

\* A step that does nothing about any request.
LEMMA AskedStays ==
    ASSUME Asked, UNCHANGED <<req, res>>,
           \A w \in Workers :
               /\ worker'[w] \in Working =>
                     /\ worker'[w] = worker[w] /\ serves'[w] = serves[w]
                     /\ arrival'[serves[w]] = arrival[serves[w]]
               /\ worker'[w] \in {"unborn", "dequeue"} =>
                     worker[w] \in {"unborn", "dequeue"}
    PROVE  Asked'
BY DEF Asked, Working, Cached

\* A worker begins with no request and ends with none.
LEMMA ConnectionAsked ==
    ASSUME IInv, NEW w \in Workers, Dequeue(w) \/ Closes(w)
    PROVE  Asked'
<1> USE DEF IInv
<1>1. CASE Dequeue(w)
  <2> DEFINE f == Head(pending)
             c == fds[f]
  <2>1. /\ worker[w] = "dequeue" /\ worker' = [worker EXCEPT ![w] = "read_header"]
        /\ pending # <<>>
        /\ serves' = [serves EXCEPT ![w] = c]
        /\ UNCHANGED <<req, res>>
    BY <1>1 DEF Dequeue, Goto, Fifo!Take
  <2>2. PICK a \in Arrivals : arrival' = [arrival EXCEPT ![c] = a]
    BY <1>1 DEF Dequeue
  <2>3. f \in FDs /\ c \in Conns /\ 1 \in DOMAIN pending /\ f = pending[1]
    BY <2>1, TailParts DEF TypeOK, Hands
  <2> HIDE DEF f
  <2>4. ASSUME NEW v \in Workers \ {w}, worker[v] \in Working
        PROVE  serves'[v] = serves[v] /\ arrival'[serves[v]] = arrival[serves[v]]
    <3>1. taken[v] \in FDs /\ taken[v] # f /\ serves[v] = fds[taken[v]] /\ serves[v] \in Conns
      BY <2>3, <2>4, AtWork DEF Hands, Serving
    <3>2. serves[v] # c
      BY <2>3, <3>1, MapValues DEF Wires
    <3> QED
      BY <2>1, <2>2, <2>3, <3>1, <3>2 DEF TypeOK
  <2>5. /\ worker'[w] = "read_header" /\ res'[w] = "UNSUPPORTED"
        /\ \A v \in Workers \ {w} : worker'[v] = worker[v]
    BY <2>1 DEF TypeOK, Asked
  <2> QED
    BY <2>1, <2>4, <2>5 DEF Asked, Working, Cached
<1>2. CASE Closes(w)
  <2>1. /\ worker[w] \in Working /\ worker'[w] \in {"dequeue", "gone"}
        /\ \A v \in Workers \ {w} : /\ worker'[v] = worker[v] /\ serves'[v] = serves[v]
                                    /\ req'[v] = req[v] /\ res'[v] = res[v]
        /\ arrival' = [arrival EXCEPT ![Peer(w)] = NULL]
        /\ res'[w] = "UNSUPPORTED"
    BY <1>2 DEF Closes, CloseAnd, Goto, TypeOK
  <2>2. \A v \in Workers \ {w} : worker[v] \in Working =>
           arrival'[serves[v]] = arrival[serves[v]]
    <3>1. \A v \in Workers \ {w} : worker[v] \in Working =>
             serves[v] \in Conns /\ serves[v] # Peer(w)
      BY <2>1, AtWork, ServeApart
    <3> QED
      BY <2>1, <3>1 DEF TypeOK
  <2> QED
    BY <2>1, <2>2 DEF Asked, Working, Cached
<1> QED
  BY <1>1, <1>2

\* Within its work a worker follows the route of its request.
LEMMA WithinAsked ==
    ASSUME IInv, NEW w \in Workers, Within(w)
    PROVE  Asked'
<1> USE DEF IInv
<1>1. /\ worker[w] \in Working /\ worker'[w] \in Working
      /\ \A v \in Workers \ {w} : worker'[v] = worker[v]
      /\ UNCHANGED <<arrival, serves>>
  BY WithinKeeps
<1>2. \A v \in Workers \ {w} : req'[v] = req[v] /\ res'[v] = res[v]
  BY DEF Within, ReadHeader, ReadBody, Refuse, WriterSpin, Put, Evict, Clear, Written,
         GetSpin, GetEnter, GetQuiet, GetOvertaken, Got, Reply, SendBody, TypeOK
<1> DEFINE AskedOf(v) ==
      /\ worker[v] \in Working \ {"read_header"} => Whole(req[v], arrival[serves[v]])
      /\ worker[v] = "read_body" => req[v] \in Requests /\ req[v].fit # "big"
      /\ worker[v] \in {"spin", "write"} => Route(req[v]) = "spin"
      /\ worker[v] \in {"get_spin", "get_enter", "get_exit"} => Route(req[v]) = "get_spin"
      /\ worker[v] \in {"refuse", "refused"} => Route(req[v]) = "refuse"
      /\ worker[v] \in {"unborn", "dequeue", "read_header", "read_body"} =>
            res[v] = "UNSUPPORTED"
      /\ worker[v] = "reply" => res[v] \in Answer(req[v])
<1>3. AskedOf(w)
  BY DEF Asked
<1>4. SUFFICES AskedOf(w)'
  BY <1>1, <1>2 DEF Asked
<1>5. Input(w) = arrival[serves[w]] /\ Input(w).req \in Requests
  BY <1>1, AtWork
<1>6. CASE ReadHeader(w)
  <2>1. PICK r \in Headers(w) : r.fit # "big" /\ req' = [req EXCEPT ![w] = r]
    BY <1>6 DEF ReadHeader
  <2>2. /\ worker[w] = "read_header" /\ worker'[w] = "read_body" /\ res' = res
    BY <1>6 DEF ReadHeader, Goto, TypeOK
  <2>3. /\ req'[w] = r /\ r \in Requests
        /\ Input(w).sent = "all" => r = Input(w).req
    BY <1>5, <2>1 DEF Headers, TypeOK
  <2>4. Whole(r, arrival[serves[w]])
    BY <1>5, <2>3 DEF Whole
  <2> QED
    BY <1>1, <1>3, <2>1, <2>2, <2>3, <2>4
<1>7. CASE ReadBody(w)
  <2>1. /\ worker[w] = "read_body" /\ worker'[w] = Route(req[w]) /\ res' = res
        /\ req'[w] = req[w] \/ req'[w] = [req[w] EXCEPT !.key = ZeroKey]
    <3>1. req' = req \/ req' = [req EXCEPT ![w] = [req[w] EXCEPT !.key = ZeroKey]]
      BY <1>7, Zenon DEF ReadBody
    <3> QED
      BY <1>7, <3>1 DEF ReadBody, Goto, TypeOK
  <2>2. req[w] \in Requests /\ req[w].fit # "big" /\ res[w] = "UNSUPPORTED"
    BY <1>3, <2>1
  <2>3. req'[w].code = req[w].code /\ req'[w].fit = req[w].fit
    BY <2>1, <2>2, RequestsAssumption
  <2>4. /\ Route(req'[w]) = Route(req[w])
        /\ Route(req[w]) \in {"refuse", "spin", "get_spin", "reply"}
    BY <2>2, <2>3, Routes
  <2>5. Route(req'[w]) = "reply" => res[w] \in Answer(req'[w])
    BY <2>2, Answers
  <2>6. Whole(req'[w], arrival[serves[w]])
    BY <1>1, <1>3, <2>1, <2>3 DEF Whole
  <2> HIDE DEF AskedOf
  <2>7. worker'[w] = Route(req'[w]) /\ res'[w] = res[w]
    BY <2>1, <2>4
  <2> QED
    BY <1>1, <2>4, <2>5, <2>6, <2>7 DEF AskedOf
<1>8. CASE Put(w) \/ Evict(w) \/ Clear(w)
  <2>1. /\ worker[w] = "write" /\ worker'[w] = "reply" /\ req' = req /\ res'[w] = "OK"
    BY <1>8 DEF Put, Evict, Clear, Written, Goto, TypeOK
  <2> QED
    BY <1>1, <1>3, <2>1, Answers DEF Working, Cached
<1>9. CASE GetQuiet(w) \/ GetOvertaken(w)
  <2>1. /\ worker[w] = "get_exit" /\ worker'[w] = "reply" /\ req' = req
        /\ res'[w] \in {"OK", "NOT_FOUND"}
    BY <1>9 DEF GetQuiet, GetOvertaken, Got, Goto, TypeOK
  <2> QED
    BY <1>1, <1>3, <2>1, Answers DEF Working, Cached
<1>10. CASE WriterSpin(w) \/ GetSpin(w) \/ GetEnter(w) \/ Refuse(w) \/ Reply(w) \/ SendBody(w)
  <2>1. /\ \/ worker[w] = "spin" /\ worker'[w] = "write"
           \/ worker[w] = "get_spin" /\ worker'[w] = "get_enter"
           \/ worker[w] = "get_enter" /\ worker'[w] = "get_exit"
           \/ worker[w] = "refuse" /\ worker'[w] = "refused"
           \/ worker[w] = "reply" /\ worker'[w] \in {"body", "close"}
           \/ worker[w] = "body" /\ worker'[w] = "close"
        /\ UNCHANGED <<req, res>>
    BY <1>10 DEF WriterSpin, GetSpin, GetEnter, Refuse, Reply, SendBody, Goto, TypeOK
  <2> QED
    BY <1>1, <1>3, <2>1 DEF Working, Cached
<1> QED
  BY <1>6, <1>7, <1>8, <1>9, <1>10 DEF Within
-----------------------------------------------------------------------------
(* The answers                                                             *)

\* A step that answers nobody and takes no answered connection from its worker.
LEMMA AnsweredStays ==
    ASSUME Answered, UNCHANGED answers,
           \A w \in Workers :
               /\ worker'[w] \in After <=> worker[w] \in After
               /\ worker[w] \in After => req'[w] = req[w] /\ serves'[w] = serves[w]
    PROVE  Answered'
BY DEF Answered

\* An answer is the first on its connection: whoever answered before serves another
\* one.
LEMMA AnswerOnce ==
    ASSUME IInv, NEW w \in Workers, Refuse(w) \/ Reply(w)
    PROVE  Answered'
<1> USE DEF IInv
<1>1. /\ worker[w] \in {"refuse", "reply"} /\ worker'[w] \in After
      /\ \A v \in Workers \ {w} : worker'[v] = worker[v]
      /\ UNCHANGED <<req, serves>>
  BY DEF Refuse, Reply, Goto, TypeOK, After
<1>2. PICK x \in Answer(req[w]) :
         answers' = [answers EXCEPT ![Peer(w)] = Append(answers[Peer(w)], x)]
  <2>1. CASE Refuse(w)
    <3>1. worker[w] = "refuse"
          /\ answers' = [answers EXCEPT ![Peer(w)] = Append(answers[Peer(w)], "echo")]
      BY <2>1 DEF Refuse, Goto
    <3>2. "echo" \in Answer(req[w])
      BY <3>1, Answers DEF Asked
    <3> QED
      BY <3>1, <3>2
  <2>2. CASE Reply(w)
    <3>1. worker[w] = "reply"
          /\ answers' = [answers EXCEPT ![Peer(w)] = Append(answers[Peer(w)], res[w])]
      BY <2>2 DEF Reply, Goto
    <3>2. res[w] \in Answer(req[w])
      BY <3>1 DEF Asked
    <3> QED
      BY <3>1, <3>2
  <2> QED
    BY <2>1, <2>2
<1>3. worker[w] \in Working /\ worker[w] \notin After /\ After \subseteq Working
  BY <1>1 DEF Working, After
<1>4. Peer(w) = serves[w] /\ serves[w] \in Conns
  BY <1>3, AtWork
<1>5. \A v \in Workers : worker[v] \in After =>
         v # w /\ serves[v] \in Conns /\ serves[v] # serves[w]
  BY <1>3, ServeApart, AtWork
<1>6. answers[serves[w]] = <<>>
  BY <1>4, <1>5 DEF Answered
<1>7. /\ answers'[serves[w]] = <<x>>
      /\ \A c \in Conns \ {serves[w]} : answers'[c] = answers[c]
  BY <1>2, <1>4, <1>6 DEF TypeOK
<1>8. \A c \in Conns : answers'[c] # <<>> =>
         \E v \in Workers : worker'[v] \in After /\ serves[v] = c
  BY <1>1, <1>5, <1>7 DEF Answered
<1>9. Said(req[w], answers'[serves[w]])
  BY <1>2, <1>7 DEF Said
<1>10. \A v \in Workers : worker'[v] \in After => Said(req[v], answers'[serves[v]])
  BY <1>1, <1>5, <1>7, <1>9 DEF Answered
<1> QED
  BY <1>1, <1>8, <1>10 DEF Answered

\* A connection that is closed is no longer anybody's.
LEMMA CloseAnswered ==
    ASSUME IInv, NEW w \in Workers, Closes(w)
    PROVE  Answered'
<1> USE DEF IInv
<1>1. /\ worker[w] \in Working /\ worker'[w] \notin After
      /\ \A v \in Workers \ {w} : /\ worker'[v] = worker[v] /\ serves'[v] = serves[v]
                                  /\ req'[v] = req[v]
      /\ answers' = [answers EXCEPT ![Peer(w)] = <<>>]
  BY DEF Closes, CloseAnd, Goto, TypeOK, After
<1>2. Peer(w) = serves[w] /\ serves[w] \in Conns
  BY <1>1, AtWork
<1>3. \A v \in Workers \ {w} : worker[v] \in After =>
         serves[v] \in Conns /\ serves[v] # serves[w]
  BY <1>1, ServeApart, AtWork DEF Working, After
<1>4. /\ answers'[serves[w]] = <<>>
      /\ \A c \in Conns \ {serves[w]} : answers'[c] = answers[c]
  BY <1>1, <1>2 DEF TypeOK
<1>5. \A c \in Conns : answers'[c] # <<>> =>
         \E v \in Workers : worker'[v] \in After /\ serves'[v] = c
  BY <1>1, <1>4 DEF Answered
<1>6. \A v \in Workers : worker'[v] \in After => Said(req'[v], answers'[serves'[v]])
  BY <1>1, <1>3, <1>4 DEF Answered
<1> QED
  BY <1>5, <1>6 DEF Answered

\* The other steps of a worker answer nobody.
LEMMA WithinAnswered ==
    ASSUME IInv, NEW w \in Workers, Within(w)
    PROVE  Answered'
<1> USE DEF IInv
<1>1. /\ \A v \in Workers \ {w} : worker'[v] = worker[v]
      /\ serves' = serves
  BY WithinKeeps
<1>2. CASE Refuse(w) \/ Reply(w)
  BY <1>2, AnswerOnce
<1>3. CASE ReadHeader(w) \/ ReadBody(w)
  <2>1. /\ worker[w] \notin After /\ worker'[w] \notin After
        /\ \A v \in Workers \ {w} : req'[v] = req[v]
        /\ answers' = answers
    <3>1. CASE ReadHeader(w)
      BY <3>1 DEF ReadHeader, Goto, TypeOK, After, history
    <3>2. CASE ReadBody(w)
      <4>1. Route(req[w]) \in {"refuse", "spin", "get_spin", "reply"}
        BY <3>2, Routes DEF ReadBody, Goto, Asked
      <4> QED
        BY <3>2, <4>1 DEF ReadBody, Goto, TypeOK, After, history
    <3> QED
      BY <1>3, <3>1, <3>2
  <2> QED
    BY <1>1, <2>1, AnsweredStays
<1>4. CASE Put(w) \/ Evict(w) \/ Clear(w) \/ GetQuiet(w) \/ GetOvertaken(w)
  <2>1. /\ worker[w] \notin After /\ worker'[w] \notin After
        /\ req' = req /\ answers' = answers
    BY <1>4 DEF Put, Evict, Clear, Written, GetQuiet, GetOvertaken, Got, Goto, TypeOK,
                After, history
  <2> QED
    BY <1>1, <2>1, AnsweredStays
<1>5. CASE WriterSpin(w) \/ GetSpin(w) \/ GetEnter(w) \/ SendBody(w)
  <2>1. /\ worker[w] \in After <=> worker'[w] \in After
        /\ req' = req /\ answers' = answers
    BY <1>5 DEF WriterSpin, GetSpin, GetEnter, SendBody, Goto, TypeOK, After, history
  <2> QED
    BY <1>1, <2>1, AnsweredStays
<1> QED
  BY <1>2, <1>3, <1>4, <1>5 DEF Within
-----------------------------------------------------------------------------
(* The buffers                                                             *)

\* A step that stores no buffer and moves no connection.
LEMMA SpentStays ==
    ASSUME Spent, Used' \subseteq Used, UNCHANGED <<backlog, arrived, fds>>,
           \A w \in Workers : worker[w] \in Over => worker'[w] \in Over /\ taken'[w] = taken[w]
    PROVE  Spent'
BY DEF Spent

\* A step that does not touch the map's buffers.
LEMMA UsedStays ==
    ASSUME UNCHANGED <<nodes, freed>>
    PROVE  /\ BuffersAreOwned => BuffersAreOwned'
           /\ Used' = Used
BY DEF BuffersAreOwned, Used, Buffers

\* A client's connection is a new one, and accept() opens one that was waiting: neither
\* has given the map a buffer.
LEMMA MainSpent ==
    ASSUME IInv, Connect \/ DoAccept
    PROVE  Spent'
<1> USE DEF IInv
<1>1. Used \subseteq Conns /\ Conns \subseteq Nat /\ NULL \notin Conns
  BY BuffersAreConns, MapValues DEF TypeOK, Used, Conns
<1>2. CASE Connect
  <2>1. /\ arrived' = arrived + 1 /\ arrived + 1 \in Conns
        /\ backlog' = Append(backlog, arrived + 1)
        /\ UNCHANGED <<fds, worker, taken, nodes, freed>>
    BY <1>2, ConnsAssumption DEF Connect, TypeOK, Conns, queue, map
  <2>2. \A i \in DOMAIN backlog' : \/ i \in DOMAIN backlog /\ backlog'[i] = backlog[i]
                                   \/ backlog'[i] = arrived + 1
    BY <2>1, AppendParts DEF TypeOK
  <2>3. \A c \in Used : /\ c <= arrived'
                        /\ \A i \in DOMAIN backlog' : backlog'[i] # c
    <3>1. ASSUME NEW c \in Used
          PROVE  /\ c \in Nat /\ c <= arrived /\ arrived \in Nat
                 /\ \A i \in DOMAIN backlog : backlog[i] # c
      BY <1>1 DEF Spent, TypeOK
    <3>2. \A c \in Used : c <= arrived' /\ c # arrived + 1
      BY <2>1, <3>1
    <3> QED
      BY <2>2, <3>1, <3>2
  <2>4. Used' = Used
    BY <2>1, UsedStays
  <2> QED
    BY <2>1, <2>3, <2>4 DEF Spent
<1>3. CASE DoAccept
  <2>1. PICK f \in FDs : fds' = [fds EXCEPT ![f] = Head(backlog)]
    BY <1>3 DEF DoAccept, Free
  <2>2. /\ backlog # <<>> /\ backlog' = Tail(backlog)
        /\ UNCHANGED <<arrived, worker, taken, nodes, freed>>
    BY <1>3 DEF DoAccept, queue, map
  <2>3. /\ 1 \in DOMAIN backlog /\ Head(backlog) = backlog[1]
        /\ \A i \in DOMAIN backlog' : i + 1 \in DOMAIN backlog /\ backlog'[i] = backlog[i + 1]
    BY <2>2, TailParts DEF TypeOK
  <2>4. \A c \in Used : /\ \A i \in DOMAIN backlog' : backlog'[i] # c
                        /\ \A g \in FDs : fds'[g] = c => fds[g] = c
    BY <2>1, <2>3 DEF Spent, TypeOK
  <2>5. Used' = Used
    BY <2>2, UsedStays
  <2> QED
    BY <2>2, <2>4, <2>5 DEF Spent
<1> QED
  BY <1>2, <1>3

\* A connection that is closed takes nobody's descriptor with it.
LEMMA CloseSpent ==
    ASSUME IInv, NEW w \in Workers, Closes(w)
    PROVE  Spent'
<1> USE DEF IInv
<1>1. /\ worker[w] \in Working
      /\ \A v \in Workers \ {w} : worker'[v] = worker[v]
      /\ fds' = [fds EXCEPT ![taken[w]] = NULL]
      /\ UNCHANGED <<backlog, arrived, taken, nodes, freed>>
  BY DEF Closes, CloseAnd, Goto, TypeOK, clients, queue
<1>2. Used' = Used /\ NULL \notin Used
  BY <1>1, UsedStays, BuffersAreConns, MapValues DEF TypeOK, Used
<1>3. \A c \in Used : \A f \in FDs : fds'[f] = c => fds[f] = c /\ f # taken[w]
  BY <1>1, <1>2, AtWork DEF TypeOK
<1>4. \A c \in Used : \A f \in FDs : fds'[f] = c =>
         \E v \in Workers : worker'[v] \in Over /\ taken[v] = f
  BY <1>1, <1>3 DEF Spent
<1> QED
  BY <1>1, <1>2, <1>4 DEF Spent

\* put() stores a buffer that was in no slot and not freed,
LEMMA PutStored ==
    ASSUME IInv, NEW w \in Workers, Put(w)
    PROVE  BuffersAreOwned' /\ Spent'
<1> USE DEF IInv
<1> DEFINE c == serves[w]
<1>1. /\ worker[w] = "write" /\ worker'[w] = "reply"
      /\ \A v \in Workers \ {w} : worker'[v] = worker[v]
      /\ Table!Store(w, req[w].key, c, TRUE)
      /\ UNCHANGED <<backlog, arrived, fds, taken, serves, freed>>
  BY DEF Put, Written, Goto, TypeOK, os, queue, history
<1>2. /\ c \in Conns /\ req[w].key \in Keys /\ taken[w] \in FDs
      /\ c = fds[taken[w]] /\ c # NULL
  BY <1>1, AtWork, RequestKey, MapValues DEF Working, Cached, Serving
<1>3. c \notin Used
  <2>1. ASSUME c \in Used
        PROVE  FALSE
    <3>1. PICK v \in Workers : worker[v] \in Over /\ taken[v] = taken[w]
      BY <1>2, <2>1 DEF Spent
    <3> QED
      BY <1>1, <3>1 DEF Hands, Over, Working, Cached
  <2> QED
    BY <2>1
<1>4. /\ nodes' \in [MapSlots -> MapNodes]
      /\ \A s \in MapSlots : nodes'[s].val \in {nodes[s].val, c}
      /\ \A s, t \in MapSlots : /\ nodes'[s].val = c /\ nodes[s].val # c
                                /\ nodes'[t].val = c /\ nodes[t].val # c
                                => s = t
  BY <1>2, PutWrites
<1> HIDE DEF c
<1>5. /\ DOMAIN nodes = MapSlots /\ DOMAIN nodes' = MapSlots
      /\ \A s \in MapSlots : nodes[s].val # c
  BY <1>2, <1>3, <1>4, BuffersAreConns DEF Used
<1>6. BuffersAreOwned'
  <2>1. ASSUME NEW s \in MapSlots, nodes'[s].val # NULL
        PROVE  nodes'[s].val \notin freed
    BY <1>3, <1>4, <1>5, <2>1 DEF BuffersAreOwned, Used
  <2>2. ASSUME NEW s \in MapSlots, nodes'[s].val # NULL,
               NEW t \in MapSlots \ {s}
        PROVE  nodes'[t].val # nodes'[s].val
    BY <1>4, <1>5, <2>2 DEF BuffersAreOwned
  <2> QED
    BY <1>1, <1>5, <2>1, <2>2 DEF BuffersAreOwned
<1>7. Used' \subseteq Used \cup {c}
  BY <1>1, <1>4, <1>5 DEF Used, Buffers
<1>8. \A v \in Workers : worker[v] \in Over => worker'[v] \in Over
  BY <1>1 DEF Over
<1>9. /\ c <= arrived
      /\ \A i \in DOMAIN backlog : backlog[i] # c
      /\ \A f \in FDs : fds[f] = c => f = taken[w]
  BY <1>2 DEF Wires
<1>10. \A b \in Used' : /\ b <= arrived
                        /\ \A i \in DOMAIN backlog : backlog[i] # b
                        /\ \A f \in FDs : fds[f] = b =>
                              \E v \in Workers : worker'[v] \in Over /\ taken[v] = f
  <2>1. worker'[w] \in Over
    BY <1>1 DEF Over
  <2> QED
    BY <1>7, <1>8, <1>9, <2>1 DEF Spent
<1> QED
  BY <1>1, <1>6, <1>10 DEF Spent

\* delete() leaves the buffers where they are, and clear_map() frees those that are
\* in a slot.
LEMMA WriteStored ==
    ASSUME IInv, NEW w \in Workers, Evict(w) \/ Clear(w)
    PROVE  BuffersAreOwned' /\ Spent'
<1> USE DEF IInv
<1>1. /\ worker[w] \notin Over
      /\ \A v \in Workers \ {w} : worker'[v] = worker[v]
      /\ UNCHANGED <<backlog, arrived, fds, taken>>
  BY DEF Evict, Clear, Written, Goto, TypeOK, os, queue, Over
<1>2. CASE Evict(w)
  <2>1. /\ nodes' \in [MapSlots -> MapNodes] /\ freed' = freed
        /\ \A s \in MapSlots : nodes'[s].val = nodes[s].val
    BY <1>2, DeleteWrites, RequestKey DEF Evict
  <2>2. BuffersAreOwned' /\ Used' = Used
    BY <2>1, BuffersAreConns DEF BuffersAreOwned, Used, Buffers
  <2> QED
    BY <1>1, <2>2, SpentStays
<1>3. CASE Clear(w)
  <2>1. nodes' = [s \in MapSlots |-> Table!EmptyNode] /\ freed' = freed \cup Buffers
    BY <1>3, SameSearch DEF Clear, Table!ClearMap
  <2>2. \A s \in DOMAIN nodes' : nodes'[s].val = NULL
    BY <2>1 DEF Table!EmptyNode, Table!Node
  <2>3. BuffersAreOwned' /\ Buffers' = {}
    BY <2>2 DEF BuffersAreOwned, Buffers
  <2>4. Used' \subseteq Used
    BY <2>1, <2>3 DEF Used
  <2> QED
    BY <1>1, <2>3, <2>4, SpentStays
<1> QED
  BY <1>2, <1>3
-----------------------------------------------------------------------------
(* What a get() returns                                                    *)

\* A step that neither reads the map nor frees anything.
LEMMA ReadableStays ==
    ASSUME TypeOK, Readable, UNCHANGED <<found, cleared, freed>>,
           \A w \in Workers :
               /\ worker[w] \in Over => worker'[w] \in Over
               /\ worker[w] = "close" => worker'[w] = "close"
               /\ worker'[w] = "get_exit" => worker[w] = "get_exit" /\ seen'[w] = seen[w]
    PROVE  Readable'
<1>1. NULL \notin freed
  BY MapValues DEF TypeOK
<1> QED
  BY <1>1 DEF Readable, Over

\* What was found is forgotten with the connection.
LEMMA CloseReadable ==
    ASSUME IInv, NEW w \in Workers, Closes(w)
    PROVE  Readable'
<1> USE DEF IInv
<1>1. /\ worker'[w] \in {"dequeue", "gone"} /\ found'[w] = NULL
      /\ \A v \in Workers \ {w} : /\ worker'[v] = worker[v] /\ found'[v] = found[v]
                                  /\ v \in cleared' <=> v \in cleared
      /\ UNCHANGED <<seen, freed>>
  BY DEF Closes, CloseAnd, Goto, TypeOK
<1> QED
  BY <1>1 DEF Readable, Over

\* A reader may see the buffers that are in the map: none of them is freed.
LEMMA EnterReadable ==
    ASSUME IInv, NEW w \in Workers, GetEnter(w)
    PROVE  Readable'
<1> USE DEF IInv
<1>1. /\ worker[w] = "get_enter" /\ worker'[w] = "get_exit" /\ seen'[w] = Buffers
      /\ \A v \in Workers \ {w} : worker'[v] = worker[v] /\ seen'[v] = seen[v]
      /\ UNCHANGED <<found, cleared, freed>>
  BY DEF GetEnter, Goto, TypeOK
<1>2. Buffers \cap freed = {}
  BY DEF Buffers, BuffersAreOwned
<1> QED
  BY <1>1, <1>2 DEF Readable, Over

\* What it returns is one of them, or one of those a writer put there meanwhile.
LEMMA GotReadable ==
    ASSUME IInv, NEW w \in Workers, GetQuiet(w) \/ GetOvertaken(w)
    PROVE  Readable'
<1> USE DEF IInv
<1>1. /\ worker[w] = "get_exit" /\ worker'[w] = "reply"
      /\ \A v \in Workers \ {w} : worker'[v] = worker[v] /\ seen'[v] = seen[v]
      /\ UNCHANGED <<cleared, freed>>
  BY DEF GetQuiet, GetOvertaken, Got, Goto, TypeOK
<1>2. NULL \notin freed
  BY MapValues DEF TypeOK
<1>3. PICK b : /\ found' = [found EXCEPT ![w] = b]
               /\ b \in Buffers \cup {NULL} \/ b \in seen[w] \cup {NULL}
  <2>1. CASE GetQuiet(w)
    <3>1. Table!Lookup(nodes, req[w].key) \in Buffers \cup {NULL}
      BY RequestKey, LookupIsBuffer, BuffersAreConns
    <3> QED
      BY <2>1, <3>1 DEF GetQuiet, Table!Get, Table!Return
  <2>2. CASE GetOvertaken(w)
    BY <2>2 DEF GetOvertaken
  <2> QED
    BY <2>1, <2>2
<1>4. w \notin cleared => b \notin freed
  <2>1. Buffers \cap freed = {}
    BY DEF Buffers, BuffersAreOwned
  <2> QED
    BY <1>1, <1>2, <1>3, <2>1 DEF Readable
<1>5. found'[w] = b /\ \A v \in Workers \ {w} : found'[v] = found[v]
  BY <1>3 DEF TypeOK
<1> QED
  BY <1>1, <1>4, <1>5 DEF Readable, Over

\* A writer shows the readers it overtakes what is in the map now, and clear_map()
\* accounts for everybody whose buffer it may have freed.
LEMMA WriteReadable ==
    ASSUME IInv, NEW w \in Workers, Put(w) \/ Evict(w) \/ Clear(w)
    PROVE  Readable'
<1> USE DEF IInv
<1>1. /\ worker[w] = "write" /\ worker'[w] = "reply"
      /\ \A v \in Workers \ {w} : worker'[v] = worker[v]
      /\ \A v \in Workers : \/ seen'[v] = seen[v]
                            \/ v \in Getting /\ seen'[v] = seen[v] \cup Buffers'
  BY DEF Put, Evict, Clear, Written, Overtake, Goto, TypeOK
<1>2. NULL \notin freed' /\ OK \notin freed'
  BY WriteTypes, MapValues DEF TypeOK
<1>3. Buffers' \cap freed' = {}
  <2>1. BuffersAreOwned'
    BY PutStored, WriteStored
  <2> QED
    BY <2>1 DEF Buffers, BuffersAreOwned
<1>4. found[w] = NULL
  BY <1>1 DEF Readable, Over
<1>5. CASE Put(w) \/ Evict(w)
  <2>1. UNCHANGED <<cleared, freed>>
    BY <1>5 DEF Put, Evict
  <2>2. PICK b : /\ found' = found \/ found' = [found EXCEPT ![w] = b]
                 /\ b \in {NULL, OK} \/ b \in Buffers
    <3>1. CASE Put(w)
      <4>1. serves[w] \in Conns
        BY <1>1, AtWork DEF Working, Cached
      <4> QED
        BY <3>1, <4>1, RequestKey, StoreWrites DEF Put
    <3>2. CASE Evict(w)
      <4>1. Table!Lookup(nodes, req[w].key) \in Buffers \cup {NULL}
        BY RequestKey, LookupIsBuffer, BuffersAreConns
      <4>2. found' = [found EXCEPT ![w] = Table!Lookup(nodes, req[w].key)]
        BY <3>2, RequestKey, DeleteWrites DEF Evict
      <4> QED
        BY <4>1, <4>2
    <3> QED
      BY <1>5, <3>1, <3>2
  <2>3. b \notin freed
    BY <1>2, <2>1, <2>2 DEF Buffers, BuffersAreOwned
  <2>4. /\ found'[w] \in {NULL, b}
        /\ \A v \in Workers \ {w} : found'[v] = found[v]
    BY <1>4, <2>2 DEF TypeOK
  <2> QED
    BY <1>1, <1>2, <1>3, <2>1, <2>3, <2>4 DEF Readable, Over
<1>6. CASE Clear(w)
  <2>1. /\ found' = [found EXCEPT ![w] = OK]
        /\ cleared' = cleared \cup Getting \cup Answering
    BY <1>6 DEF Clear, Table!ClearMap, Table!Return
  <2>2. found'[w] = OK /\ \A v \in Workers \ {w} : found'[v] = found[v]
    BY <2>1 DEF TypeOK
  <2> QED
    BY <1>1, <1>2, <2>1, <2>2 DEF Readable, Over, Getting, Answering
<1> QED
  BY <1>5, <1>6

\* The other steps of a worker.
LEMMA WithinReadable ==
    ASSUME IInv, NEW w \in Workers, Within(w)
    PROVE  Readable'
<1> USE DEF IInv
<1>1. \A v \in Workers \ {w} : worker'[v] = worker[v]
  BY WithinKeeps
<1>2. CASE Put(w) \/ Evict(w) \/ Clear(w)
  BY <1>2, WriteReadable
<1>3. CASE GetEnter(w) \/ GetQuiet(w) \/ GetOvertaken(w)
  BY <1>3, EnterReadable, GotReadable
<1>4. CASE ReadBody(w)
  <2>1. /\ worker[w] = "read_body"
        /\ worker'[w] \in {"refuse", "spin", "get_spin", "reply"}
    BY <1>4, Routes DEF ReadBody, Goto, Asked, TypeOK
  <2>2. UNCHANGED <<found, cleared, freed, seen>>
    BY <1>4 DEF ReadBody, map
  <2> QED
    BY <1>1, <2>1, <2>2, ReadableStays DEF Over
<1>5. CASE ReadHeader(w) \/ Refuse(w) \/ WriterSpin(w) \/ GetSpin(w) \/ Reply(w) \/ SendBody(w)
  <2>1. \/ /\ worker[w] \in {"read_header", "refuse", "spin", "get_spin"}
           /\ worker'[w] \in {"read_body", "refused", "write", "get_enter"}
        \/ worker[w] \in {"reply", "body"} /\ worker'[w] \in {"body", "close"}
    BY <1>5 DEF ReadHeader, Refuse, WriterSpin, GetSpin, Reply, SendBody, Goto, TypeOK
  <2>2. UNCHANGED <<found, cleared, freed, seen>>
    BY <1>5 DEF ReadHeader, Refuse, WriterSpin, GetSpin, Reply, SendBody, map
  <2> QED
    BY <1>1, <2>1, <2>2, ReadableStays DEF Over
<1> QED
  BY <1>2, <1>3, <1>4, <1>5 DEF Within
-----------------------------------------------------------------------------
(* Every step                                                              *)

\* A step that leaves the connections, the requests and the map alone, and takes a
\* worker to the queue at most.
LEMMA OthersKeep ==
    ASSUME IInv, TypeOK',
           UNCHANGED <<main, os, fds, connfd, queue, req, res, map, history>>,
           worker' = worker \/ \E w \in Workers : Goto(w, "unborn", "dequeue")
    PROVE  IInv'
<1> USE DEF IInv
<1>1. \A w \in Workers : \/ worker'[w] = worker[w]
                         \/ worker[w] = "unborn" /\ worker'[w] = "dequeue"
  BY DEF Goto, TypeOK
<1>2. \A w \in Workers : /\ worker'[w] \in Working <=> worker[w] \in Working
                         /\ worker[w] \in Over => worker'[w] \in Over
                         /\ worker'[w] \in After <=> worker[w] \in After
  BY <1>1 DEF Working, Cached, Over, After
<1>3. UNCHANGED <<main, backlog, arrived, arrival, fds, connfd, pending, taken, req, res,
                  nodes, found, seen, cleared, freed, serves, answers>>
  BY DEF os, queue, map, history
<1>4. Hands' /\ Wires' /\ Serving'
  BY <1>2, <1>3, HandsStay, WiresStay, ServingStays
<1>5. Asked'
  BY <1>1, <1>3, AskedStays DEF Working, Cached
<1>6. Answered'
  BY <1>2, <1>3, AnsweredStays
<1>7. BuffersAreOwned' /\ Spent'
  BY <1>2, <1>3, UsedStays, SpentStays
<1>8. Readable'
  BY <1>1, <1>2, <1>3, ReadableStays DEF Over
<1> QED
  BY <1>4, <1>5, <1>6, <1>7, <1>8

\* main() and the clients.
LEMMA MainInv ==
    ASSUME IInv, Connect \/ MainStep
    PROVE  IInv'
<1> USE DEF IInv
<1>1. TypeOK'
  BY MainTypes
<1>2. ASSUME CreateMap \/ AcceptFails \/ \E w \in Workers : Spawn(w)
      PROVE  IInv'
  <2>1. CASE CreateMap
    <3>1. main = "spawn" /\ main' = "accept"
          /\ UNCHANGED <<worker, backlog, arrived, arrival, fds, connfd, pending, taken, req,
                         res, nodes, found, seen, cleared, freed, serves, answers>>
      BY <2>1 DEF CreateMap, os, queue, map, history
    <3>2. Hands'
      BY <3>1 DEF Hands
    <3>3. Wires' /\ Serving' /\ Asked' /\ Answered'
      BY <3>1 DEF Wires, Serving, Asked, Answered
    <3>4. BuffersAreOwned' /\ Spent' /\ Readable'
      BY <3>1, UsedStays DEF Spent, Readable
    <3> QED
      BY <1>1, <3>2, <3>3, <3>4
  <2>2. CASE AcceptFails
    BY <1>1, <2>2, OthersKeep DEF AcceptFails
  <2>3. ASSUME NEW w \in Workers, Spawn(w)
        PROVE  IInv'
    BY <1>1, <2>3, OthersKeep DEF Spawn
  <2> QED
    BY <1>2, <2>1, <2>2, <2>3
<1>3. ASSUME Connect \/ DoAccept \/ Enqueue
      PROVE  IInv'
  <2>1. /\ UNCHANGED <<worker, arrival, req, res, nodes, found, seen, cleared, freed, serves,
                       answers>>
        /\ \A w \in Workers : taken'[w] = taken[w]
    <3>1. CASE Connect
      BY <3>1 DEF Connect, queue, map, history
    <3>2. CASE DoAccept
      BY <3>2 DEF DoAccept, queue, map, history
    <3>3. CASE Enqueue
      BY <3>3, MainAssumption DEF Enqueue, Fifo!Put, os, map, history, TypeOK
    <3> QED
      BY <1>3, <3>1, <3>2, <3>3
  <2>2. Hands' /\ Wires' /\ Serving'
    <3>1. CASE Connect
      BY <3>1, ConnectWires, HandsStay, ServingStays DEF Connect, queue, history
    <3>2. CASE DoAccept
      BY <3>2, AcceptHands, AcceptWires, AcceptServing
    <3>3. CASE Enqueue
      <4>1. UNCHANGED <<backlog, arrived, fds, arrival, serves, worker>>
        BY <3>3 DEF Enqueue, os, history
      <4> QED
        BY <2>1, <3>3, <4>1, EnqueueHands, WiresStay, ServingStays
    <3> QED
      BY <1>3, <3>1, <3>2, <3>3
  <2>3. Asked' /\ Answered' /\ Readable'
    BY <2>1 DEF Asked, Answered, Readable
  <2>4. BuffersAreOwned' /\ Used' = Used
    BY <2>1, UsedStays
  <2>5. Spent'
    <3>1. CASE Connect \/ DoAccept
      BY <3>1, MainSpent
    <3>2. CASE Enqueue
      <4>1. UNCHANGED <<backlog, arrived, fds>>
        BY <3>2 DEF Enqueue, os
      <4> QED
        BY <2>1, <2>4, <4>1, SpentStays
    <3> QED
      BY <1>3, <3>1, <3>2
  <2> QED
    BY <1>1, <2>2, <2>3, <2>4, <2>5
<1> QED
  BY <1>2, <1>3 DEF MainStep

\* A worker's dequeue() and close().
LEMMA ConnectionInv ==
    ASSUME IInv, NEW w \in Workers, Dequeue(w) \/ Closes(w)
    PROVE  IInv'
<1> USE DEF IInv
<1>1. TypeOK' /\ Serving' /\ Asked'
  BY ConnectionTypes, ConnectionServing, ConnectionAsked
<1>2. CASE Dequeue(w)
  <2>1. /\ worker[w] = "dequeue" /\ worker' = [worker EXCEPT ![w] = "read_header"]
        /\ taken' = [taken EXCEPT ![w] = Head(pending)]
        /\ serves' = [serves EXCEPT ![w] = fds[Head(pending)]]
        /\ UNCHANGED <<backlog, arrived, fds, req, nodes, found, seen, cleared, freed, answers>>
    BY <1>2 DEF Dequeue, Goto, Fifo!Take, clients, map
  <2>2. /\ worker'[w] = "read_header"
        /\ \A v \in Workers \ {w} : /\ worker'[v] = worker[v] /\ taken'[v] = taken[v]
                                    /\ serves'[v] = serves[v]
    BY <2>1 DEF TypeOK
  <2>3. Hands' /\ Wires'
    BY <1>2, <2>1, DequeueHands, WiresStay
  <2>4. Answered'
    BY <2>1, <2>2, AnsweredStays DEF After
  <2>5. BuffersAreOwned' /\ Spent'
    BY <2>1, <2>2, UsedStays, SpentStays DEF Over
  <2>6. Readable'
    BY <2>1, <2>2, ReadableStays DEF Over
  <2> QED
    BY <1>1, <2>3, <2>4, <2>5, <2>6
<1>3. CASE Closes(w)
  <2>1. UNCHANGED <<nodes, freed>>
    BY <1>3 DEF Closes, CloseAnd
  <2> QED
    BY <1>1, <1>3, <2>1, CloseHands, CloseWires, CloseAnswered, UsedStays, CloseSpent,
       CloseReadable
<1> QED
  BY <1>2, <1>3

\* What it does in between.
LEMMA WithinInv ==
    ASSUME IInv, NEW w \in Workers, Within(w)
    PROVE  IInv'
<1> USE DEF IInv
<1>1. /\ worker[w] \in Working /\ worker'[w] \in Working
      /\ \A v \in Workers \ {w} : worker'[v] = worker[v]
      /\ UNCHANGED <<main, backlog, arrived, arrival, fds, connfd, pending, taken, serves>>
  BY WithinKeeps
<1>2. Hands' /\ Wires' /\ Serving'
  BY <1>1, HandsStay, WiresStay, ServingStays
<1>3. TypeOK'
  BY RequestTypes, WriteTypes, ReadTypes DEF Within
<1>4. BuffersAreOwned' /\ Spent'
  <2>1. CASE Put(w) \/ Evict(w) \/ Clear(w)
    BY <2>1, PutStored, WriteStored
  <2>2. CASE ReadHeader(w) \/ ReadBody(w) \/ Refuse(w) \/ Reply(w) \/ SendBody(w)
             \/ WriterSpin(w) \/ GetSpin(w) \/ GetEnter(w) \/ GetQuiet(w) \/ GetOvertaken(w)
    <3>1. UNCHANGED <<nodes, freed>>
      BY <2>2 DEF ReadHeader, ReadBody, Refuse, Reply, SendBody, WriterSpin, GetSpin,
                  GetEnter, GetQuiet, GetOvertaken, Got, Table!Get, map
    <3>2. worker[w] \in Over => worker'[w] \in Over
      BY <2>2 DEF ReadHeader, ReadBody, Refuse, Reply, SendBody, WriterSpin, GetSpin,
                  GetEnter, GetQuiet, GetOvertaken, Got, Goto, TypeOK, Over
    <3> QED
      BY <1>1, <3>1, <3>2, UsedStays, SpentStays
  <2> QED
    BY <2>1, <2>2 DEF Within
<1> QED
  BY <1>2, <1>3, <1>4, WithinAsked, WithinAnswered, WithinReadable

\* It holds at the start,
LEMMA InitInv == Init => IInv
<1> SUFFICES ASSUME Init PROVE IInv
  OBVIOUS
<1> USE DEF Init, Fifo!Init, Table!Init
<1>1. /\ nodes = [s \in MapSlots |-> Table!EmptyNode]
      /\ Table!EmptyNode \in MapNodes /\ Table!EmptyNode.val = NULL
  BY SameSearch DEF Table!EmptyNode, Table!Node, MapNodes
<1>2. TypeOK
  <2>1. nodes \in [0 .. Capacity - 1 -> [key : Keys \cup {NULL}, val : Conns \cup {NULL},
                                         tombstone : BOOLEAN]]
    BY <1>1 DEF MapSlots, MapNodes
  <2>2. NoRequest \in [code : {"other"}, fit : {"fits"}, key : Keys]
    BY ZeroKeyAssumption DEF NoRequest
  <2>3. size \in 0 .. SizeModulus - 1
    BY ModulusAssumption, CapacityAssumption
  <2>4. arrived \in 0 .. MaxConns
    BY ConnsAssumption
  <2>5. /\ backlog \in Seq(Conns) /\ pending \in Seq(FDs)
        /\ answers \in [Conns -> Seq(Codes \cup {"echo"})]
    BY EmptySeq
  <2>6. req \in [Workers -> Requests \cup [code : {"other"}, fit : {"fits"}, key : Keys]
                                    \cup {[r EXCEPT !.key = ZeroKey] : r \in Requests}]
    BY <2>2
  <2>7. /\ arrival \in [Conns -> Arrivals \cup {NULL}]
        /\ fds \in [FDs -> Conns \cup {NULL}]
        /\ taken \in [Workers \cup {Main} -> FDs \cup {NULL, OK}]
        /\ found \in [Workers -> Conns \cup {NULL, OK}]
        /\ serves \in [Workers -> Conns \cup {NULL}]
        /\ seen \in [Workers -> SUBSET Conns]
        /\ worker \in [Workers -> {"unborn", "dequeue", "gone"} \cup Working]
        /\ res \in [Workers -> Codes]
    BY DEF Codes
  <2>8. /\ main \in {"spawn", "accept", "enqueue"}
        /\ connfd \in FDs \cup {NULL} /\ num_readers \in Int
        /\ overtaken \subseteq Workers /\ cleared \subseteq Workers
        /\ freed \subseteq Conns /\ closed \subseteq Conns
    OBVIOUS
  <2>9. /\ crashed \in BOOLEAN /\ exited \in BOOLEAN
        /\ ~invalid /\ ~invalid_queue /\ destroyed = <<>>
    BY Zenon
  <2> HIDE DEF Init, Fifo!Init, Table!Init
  <2> QED
    BY <2>1, <2>3, <2>4, <2>5, <2>6, <2>7, <2>8, <2>9 DEF TypeOK
<1>3. Hands /\ Wires /\ Serving
  BY DEF Hands, Wires, Serving, Working, Cached
<1>4. Asked /\ Answered
  BY DEF Asked, Answered, After, Working, Cached
<1>5. BuffersAreOwned /\ Spent
  <2>1. DOMAIN nodes = MapSlots /\ \A s \in MapSlots : nodes[s].val = NULL
    BY <1>1
  <2>2. Buffers = {}
    BY <2>1 DEF Buffers
  <2> QED
    BY <2>1, <2>2 DEF BuffersAreOwned, Spent, Used
<1>6. Readable
  BY DEF Readable
<1> QED
  BY <1>2, <1>3, <1>4, <1>5, <1>6 DEF IInv

\* and every step keeps it.
LEMMA NextInv == IInv /\ [Next]_vars => IInv'
<1> SUFFICES ASSUME IInv, [Next]_vars PROVE IInv'
  OBVIOUS
<1>1. CASE Connect \/ MainStep
  BY <1>1, MainInv
<1>2. ASSUME NEW w \in Workers, WorkerStep(w)
      PROVE  IInv'
  <2>1. CASE Exits
    <3>1. TypeOK'
      BY <2>1 DEF Exits, IInv, TypeOK, os, queue, map, history
    <3> QED
      BY <2>1, <3>1, OthersKeep DEF Exits
  <2> QED
    BY <1>2, <2>1, Kinds, ConnectionInv, WithinInv
<1>3. CASE UNCHANGED vars
  <2>1. TypeOK'
    BY <1>3 DEF vars, IInv, TypeOK
  <2>2. /\ UNCHANGED <<main, os, fds, connfd, queue, req, res, map, history>>
        /\ worker' = worker
    BY <1>3 DEF vars, os, queue, map, history
  <2> QED
    BY <2>1, <2>2, OthersKeep
<1> QED
  BY <1>1, <1>2, <1>3 DEF Next

\* So the strengthened invariant holds for ever.
LEMMA Invariant == Spec => []IInv
BY InitInv, NextInv, PTL DEF Spec
-----------------------------------------------------------------------------
(* What follows from it                                                    *)

\* Every variable of the server keeps its type (cream.c:22-190).
THEOREM TypeCorrect == Spec => []TypeOK
BY Invariant, PTL DEF IInv

\* The hands that hold a descriptor, counted.
LEMMA CountHands ==
    ASSUME Hands, NEW f \in FDs
    PROVE  Cardinality(Holders(f)) + Cardinality(Places(f)) = IF fds[f] = NULL THEN 0 ELSE 1
<1>1. \A x : Cardinality({x}) = 1
  BY FS_Singleton
<1>2. Cardinality({}) = 0
  BY FS_EmptySet
<1>3. CASE fds[f] = NULL
  <2>1. Holders(f) = {} /\ Places(f) = {}
    BY <1>3 DEF Hands, Holders, Places
  <2> QED
    BY <1>2, <1>3, <2>1
<1>4. ASSUME NEW i \in DOMAIN pending, pending[i] = f
      PROVE  Holders(f) = {} /\ Places(f) = {i}
  BY <1>4 DEF Hands, Holders, Places
<1>5. ASSUME NEW w \in Workers, worker[w] \in Working, taken[w] = f
      PROVE  Holders(f) = {w} /\ Places(f) = {}
  BY <1>5 DEF Hands, Holders, Places
<1>6. ASSUME main = "enqueue", connfd = f
      PROVE  Holders(f) = {Main} /\ Places(f) = {}
  BY <1>6 DEF Hands, Holders, Places
<1>7. CASE fds[f] # NULL
  <2>1. \/ \E x : Holders(f) = {x} /\ Places(f) = {}
        \/ \E x : Holders(f) = {} /\ Places(f) = {x}
    BY <1>4, <1>5, <1>6, <1>7 DEF Hands
  <2>2. Cardinality(Holders(f)) + Cardinality(Places(f)) = 1
    <3>1. \/ Cardinality(Holders(f)) = 1 /\ Cardinality(Places(f)) = 0
          \/ Cardinality(Holders(f)) = 0 /\ Cardinality(Places(f)) = 1
      BY <1>1, <1>2, <2>1, Zenon
    <3> QED
      BY <3>1
  <2> QED
    BY <1>7, <2>2
<1> QED
  BY <1>3, <1>7

\* A descriptor that is open is in one pair of hands and one that is closed in
\* nobody's, however many workers and connections there are: no close() is the
\* second one, none is missing (cream.c:84-85, 97, 106, 119, 131, 146, 166, 176, 189).
THEOREM DescriptorsAreOwned == Spec => []OneOwner
<1>1. IInv => OneOwner
  BY CountHands DEF IInv, OneOwner
<1> QED
  BY <1>1, Invariant, PTL

\* A connection gets one answer at most, and one that its own request calls for
\* (cream.c:115-159).
THEOREM AnswersFit == Spec => []AnswerFits
<1>1. ASSUME IInv, NEW c \in Conns
      PROVE  /\ Len(answers[c]) <= 1
             /\ answers[c] # <<>> /\ arrival[c].sent = "all" =>
                   answers[c][1] \in Answer(arrival[c].req)
  <2> USE <1>1 DEF IInv
  <2>1. CASE answers[c] = <<>>
    BY <2>1
  <2>2. CASE answers[c] # <<>>
    <3>1. PICK w \in Workers : worker[w] \in After /\ serves[w] = c
      BY <2>2 DEF Answered
    <3>2. PICK x \in Answer(req[w]) : answers[c] = <<x>>
      BY <3>1 DEF Answered, Said
    <3>3. Whole(req[w], arrival[c])
      BY <3>1 DEF Asked, After, Working, Cached
    <3>4. arrival[c].sent = "all" => Answer(req[w]) = Answer(arrival[c].req)
      BY <3>3, Routes DEF Whole
    <3> QED
      BY <3>2, <3>4
  <2> QED
    BY <2>1, <2>2
<1>2. IInv => AnswerFits
  BY <1>1, Zenon DEF AnswerFits, Answer
<1> QED
  BY <1>2, Invariant, PTL

\* A buffer is in one slot at most and is not freed while it is there, so clear_map()
\* never frees one twice, whatever the table's size and its searches do
\* (cream.c:90-93, 122; hashmap.c:217).
THEOREM BuffersHaveOneSlot == Spec => []BuffersAreOwned
BY Invariant, PTL DEF IInv

\* Only a clear_map() between the get() and the write takes the body away from an
\* answer (cream.c:134, 162; hashmap.c:217).
THEOREM BodiesAreAllocated == Spec => []BodyIsAllocated
<1>1. IInv => BodyIsAllocated
  BY DEF IInv, Readable, BodyIsAllocated
<1> QED
  BY <1>1, Invariant, PTL
=============================================================================
