------------------------------- MODULE Cream -------------------------------
(***************************************************************************)
(* hw5/src/cream.c: main() accepts connections and queues their file       *)
(* descriptors, the worker threads take them off the queue, read one       *)
(* request, carry it out on the shared map, answer and close.              *)
(*                                                                         *)
(* The queue is FifoQueue, which Queue.tla implements.  The map is         *)
(* HashTable for the calls that write, which is what HashMap.tla shows     *)
(* them to be, with the num_readers protocol around it: a get() that a     *)
(* writer overtakes may return anything, and leaves num_readers too low.   *)
(*                                                                         *)
(* The clients, the kernel's descriptor table and the outcome of reads and *)
(* writes are the environment.  A value in the map is the buffer that was  *)
(* allocated for it, named after the connection it was read from.          *)
(***************************************************************************)
EXTENDS Integers, Sequences, FiniteSets

CONSTANTS Workers,     \* the threads main() creates: NUM_WORKERS of them
          Main,        \* the thread that runs main()
          MaxConns,    \* bound on the connections clients make
          FDs,         \* the descriptors accept() can return, lowest first
          Requests,    \* what a client may send: [code, fit, key]
          Arrivals,    \* what may arrive on a connection: [req, sent, end]
          Keys, ZeroKey, Capacity, Home, SizeModulus,
          NULL, OK

\* The connections are numbered in the order in which they are made.
Conns == 1 .. MaxConns

ASSUME ConnsAssumption == MaxConns \in Nat
ASSUME WorkersAssumption == Workers # {} /\ IsFiniteSet(Workers)
ASSUME MainAssumption == Main \notin Workers
ASSUME FDsAssumption == FDs \subseteq Nat
ASSUME ZeroKeyAssumption == ZeroKey \in Keys
ASSUME CapacityAssumption == Capacity \in Nat \ {0}
ASSUME HomeAssumption == Home \in [Keys -> 0 .. Capacity - 1]
ASSUME ModulusAssumption == SizeModulus \in Nat /\ SizeModulus > Capacity
ASSUME NamesAssumption == /\ NULL \notin Nat \cup Keys \cup Workers \cup {Main}
                          /\ OK \notin Nat

\* fit: do the sizes in the header pass the checks, or is one below the minimum
\* or above the maximum?  Codes that are none of the four are "other".
ASSUME RequestsAssumption ==
    Requests \subseteq [code : {"PUT", "GET", "EVICT", "CLEAR", "other"},
                        fit  : {"fits", "small", "big"},
                        key  : Keys]

\* sent: how much of the request arrives before the client stops sending; end:
\* whether a read behind that finds the end of the input, an error, or waits for
\* ever.
ASSUME ArrivalsAssumption ==
    Arrivals \subseteq [req : Requests, sent : {"all", "header", "nothing"},
                        end : {"eof", "reset", "silent"}]

VARIABLES main,        \* where main() is
          worker,      \* worker -> where it is in worker_thread()
          backlog,     \* connections accept() has not returned yet
          arrived,     \* the number of connections clients have made
          arrival,     \* connection -> what arrives on it, NULL when it is not
                       \* being served: nobody can tell before it is read from
          fds,         \* descriptor -> the connection it is open on, or NULL
          connfd,      \* what the last accept() returned
          pending,     \* the descriptors in the queue
          taken,       \* thread -> what its last queue operation returned
          destroyed, invalid_queue, \* fields nothing here changes
          req,         \* worker -> the request it works on
          res,         \* worker -> the response code
          nodes, size, \* the map
          invalid,     \* a field nothing here changes
          crashed,     \* put() has dereferenced NULL
          found,       \* worker -> what its last map operation returned
          num_readers, \* the map's reader count
          seen,        \* history: worker -> the values its get() may have read
          overtaken,   \* history: the workers whose get() a writer overtook
          cleared,     \* history: the workers a clear_map() has run under
          freed,       \* history: the buffers that were freed
          serves,      \* history: worker -> the connection it took on
          answers,     \* history: connection -> the codes it was sent while open
          closed,      \* history: the connections the server closed
          exited       \* has exit() been called?

clients == <<backlog, arrived>>
os == <<backlog, arrived, arrival>>
queue == <<pending, taken, destroyed, invalid_queue>>
history == <<serves, answers, closed>>
map == <<nodes, size, invalid, crashed, found, num_readers, seen,
         overtaken, cleared, freed>>
vars == <<main, worker, backlog, arrived, arrival, fds, connfd, pending, taken, destroyed,
          invalid_queue, req, res, nodes, size, invalid, crashed, found, num_readers, seen,
          overtaken, cleared, freed, serves, answers, closed, exited>>

Fifo == INSTANCE FifoQueue WITH
           Threads <- Workers \cup {Main}, Items <- FDs, result <- taken,
           closed <- invalid_queue

Table == INSTANCE HashTable WITH
            Threads <- Workers, ValuesOf <- [k \in Keys |-> Conns],
            ret <- found

NoRequest == [code |-> "other", fit |-> "fits", key |-> ZeroKey]

Init == /\ main = "spawn"
        /\ worker = [w \in Workers |-> "unborn"]
        /\ backlog = <<>>
        /\ arrived = 0
        /\ arrival = [c \in Conns |-> NULL]
        /\ fds = [f \in FDs |-> NULL]
        /\ connfd = NULL
        /\ Fifo!Init
        /\ req = [w \in Workers |-> NoRequest]
        /\ res = [w \in Workers |-> "UNSUPPORTED"]
        /\ Table!Init
        /\ num_readers = 0
        /\ seen = [w \in Workers |-> {}]
        /\ overtaken = {}
        /\ cleared = {}
        /\ freed = {}
        /\ serves = [w \in Workers |-> NULL]
        /\ answers = [c \in Conns |-> <<>>]
        /\ closed = {}
        /\ exited = FALSE

Goto(w, from, to) == /\ worker[w] = from
                     /\ worker' = [worker EXCEPT ![w] = to]
-----------------------------------------------------------------------------
(* Clients                                                                 *)

\* Once Open_listenfd() has returned a client may connect.
Connect == /\ main # "spawn"
           /\ arrived < MaxConns
           /\ arrived' = arrived + 1
           /\ backlog' = Append(backlog, arrived + 1)
           /\ UNCHANGED <<main, worker, arrival, fds, connfd, queue, req, res,
                          map, history, exited>>
-----------------------------------------------------------------------------
(* main()                                                                  *)

\* pthread_create(), in a loop before the map exists
Spawn(w) == /\ main = "spawn"
            /\ Goto(w, "unborn", "dequeue")
            /\ UNCHANGED <<main, os, fds, connfd, queue, req, res, map,
                           history, exited>>

CreateMap == /\ main = "spawn"
             /\ \A w \in Workers : worker[w] # "unborn"
             /\ main' = "accept"
             /\ UNCHANGED <<worker, os, fds, connfd, queue, req, res, map, history,
                            exited>>

Free == {f \in FDs : fds[f] = NULL}

\* The kernel picks the lowest descriptor that is not open.
DoAccept == /\ main = "accept"
            /\ backlog # <<>>
            /\ \E f \in Free :
                  /\ \A g \in Free : f <= g
                  /\ fds' = [fds EXCEPT ![f] = Head(backlog)]
                  /\ connfd' = f
            /\ backlog' = Tail(backlog)
            /\ main' = "enqueue"
            /\ UNCHANGED <<worker, arrived, arrival, queue, req, res, map, history,
                           exited>>

\* Faulty variant: the result of accept() is not checked.
AcceptUnchecked == /\ main = "accept"
                   /\ backlog # <<>>
                   /\ Free = {}
                   /\ connfd' = -1
                   /\ main' = "enqueue"
                   /\ UNCHANGED <<worker, os, fds, queue, req, res, map,
                                  history, exited>>

\* Accept() of csapp.c calls exit() when the process is out of descriptors.
AcceptFails == /\ main = "accept"
               /\ backlog # <<>>
               /\ Free = {}
               /\ exited' = TRUE
               /\ UNCHANGED <<main, worker, os, fds, connfd, queue, req, res,
                              map, history>>

\* Faulty variant: an enqueue() that found no memory is not noticed.
EnqueueDrops == /\ main = "enqueue"
                /\ main' = "accept"
                /\ UNCHANGED <<worker, os, fds, connfd, queue, req, res, map,
                               history, exited>>

Enqueue == /\ main = "enqueue"
           /\ Fifo!Put(Main, connfd)
           /\ main' = "accept"
           /\ UNCHANGED <<worker, os, fds, connfd, req, res, map, history,
                          exited>>
-----------------------------------------------------------------------------
(* worker_thread(): the connection                                         *)

Dequeue(w) == /\ Goto(w, "dequeue", "read_header")
              /\ Fifo!Take(w)
              /\ serves' = [serves EXCEPT ![w] = fds[Head(pending)]]
              /\ \E a \in Arrivals :
                    arrival' = [arrival EXCEPT ![fds[Head(pending)]] = a]
              /\ UNCHANGED <<main, clients, fds, connfd, req, res, map,
                             answers, closed, exited>>

\* What the descriptor of the worker is open on, and what arrives there.
Peer(w) == fds[taken[w]]
Input(w) == arrival[Peer(w)]

\* close(connfd); the locals of the iteration are gone with it.
CloseAnd(w, from, to) ==
    /\ Goto(w, from, to)
    /\ fds' = [fds EXCEPT ![taken[w]] = NULL]
    /\ closed' = closed \cup {Peer(w)}
    /\ arrival' = [arrival EXCEPT ![Peer(w)] = NULL]
    /\ answers' = [answers EXCEPT ![Peer(w)] = <<>>]
    /\ serves' = [serves EXCEPT ![w] = NULL]
    /\ req' = [req EXCEPT ![w] = NoRequest]
    /\ res' = [res EXCEPT ![w] = "UNSUPPORTED"]
    /\ found' = [found EXCEPT ![w] = NULL]
    /\ cleared' = cleared \ {w}
    /\ UNCHANGED <<main, clients, connfd, queue, nodes, size, invalid,
                   crashed, num_readers, seen, overtaken, freed, exited>>

CloseConn(w) == CloseAnd(w, "close", "dequeue")

\* Faulty variant: the thread goes on to the close at the end of the loop.
BrokenGoesOn(w, from) == CloseAnd(w, from, "close")

\* The client may be gone when it is written to: EPIPE, where Rio_writen_() closes
\* and the thread ends ...
Broken(w, from) == CloseAnd(w, from, "gone")

\* ... or another error, where unix_error() ends the process.
Exit(w, from) == /\ worker[w] = from
                 /\ exited' = TRUE
                 /\ UNCHANGED <<main, worker, os, fds, connfd, queue, req, res,
                                map, history>>

\* A header that did not arrive is what was on the stack before.
Headers(w) == IF Input(w).sent = "nothing" THEN Requests ELSE {Input(w).req}
HeaderDone(w) == Input(w).sent # "nothing" \/ Input(w).end = "eof"

ReadHeader(w) ==
    /\ Goto(w, "read_header", "read_body")
    /\ HeaderDone(w)
    /\ \E r \in Headers(w) : r.fit # "big" /\ req' = [req EXCEPT ![w] = r]
    /\ UNCHANGED <<main, os, fds, connfd, queue, res, map, history,
                   exited>>

\* A key or value size above the maximum: close, and the thread ends.
ReadOversize(w) == /\ worker[w] = "read_header"
                   /\ HeaderDone(w)
                   /\ \E r \in Headers(w) : r.fit = "big"
                   /\ Broken(w, "read_header")

\* Where the sizes are checked, and what the request leads to.
Route(r) == CASE r.code \in {"PUT", "GET", "EVICT"} /\ r.fit = "small" -> "refuse"
              [] r.code \in {"PUT", "EVICT"} /\ r.fit = "fits" -> "spin"
              [] r.code = "CLEAR" -> "spin"
              [] r.code = "GET" /\ r.fit = "fits" -> "get_spin"
              [] r.code = "other" -> "reply"

\* A key that did not arrive is the zeros calloc() left.
ReadBody(w) ==
    /\ Goto(w, "read_body", Route(req[w]))
    /\ Input(w).sent = "all" \/ Input(w).end = "eof"
    /\ req' = IF Input(w).sent = "all" THEN req
              ELSE [req EXCEPT ![w].key = ZeroKey]
    /\ UNCHANGED <<main, os, fds, connfd, queue, res, map, history,
                   exited>>

\* A read() that fails: EPIPE as above, else the end of the process.
ReadFails(w) ==
    /\ \/ worker[w] = "read_header" /\ Input(w).sent = "nothing"
       \/ worker[w] = "read_body" /\ Input(w).sent # "all"
    /\ Input(w).end = "reset"
    /\ Broken(w, worker[w]) \/ Exit(w, worker[w])

\* A key or value size below the minimum: what is written is the request header,
\* not the response header; the thread ends.
Refuse(w) == /\ Goto(w, "refuse", "refused")
             /\ answers' = [answers EXCEPT ![Peer(w)] = Append(@, "echo")]
             /\ UNCHANGED <<main, os, fds, connfd, queue, req, res, map,
                            serves, closed, exited>>

\* Faulty variant: a return is missing and the response follows.
RefuseGoesOn(w) == /\ Goto(w, "refused", "reply")
                   /\ UNCHANGED <<main, os, fds, connfd, queue, req, res, map,
                                  history, exited>>

RefuseClose(w) == Broken(w, "refused")

RefuseFails(w) == Exit(w, "refuse")

\* A body follows the header only when get() set its size.
Reply(w) == /\ Goto(w, "reply", IF req[w].code = "GET" /\ res[w] = "OK"
                                THEN "body" ELSE "close")
            /\ answers' = [answers EXCEPT ![Peer(w)] = Append(@, res[w])]
            /\ UNCHANGED <<main, os, fds, connfd, queue, req, res, map,
                           serves, closed, exited>>

SendBody(w) == /\ Goto(w, "body", "close")
               /\ UNCHANGED <<main, os, fds, connfd, queue, req, res, map,
                              history, exited>>

WriteFails(w) == \E p \in {"reply", "body"} : Broken(w, p) \/ Exit(w, p)
-----------------------------------------------------------------------------
(* worker_thread(): the request                                            *)

\* A writer waits until num_readers counts no reader.
WriterSpin(w) == /\ num_readers <= 0
                 /\ Goto(w, "spin", "write")
                 /\ UNCHANGED <<main, os, fds, connfd, queue, req, res, map, history,
                                exited>>

Buffers == {nodes[s].val : s \in DOMAIN nodes} \ {NULL}
Getting == {w \in Workers : worker[w] = "get_exit"}
Answering == {w \in Workers : worker[w] \in {"reply", "body"}}

\* What a writer does to the readers that went past it.
Overtake(w) == /\ num_readers' = 0
               /\ overtaken' = overtaken \cup Getting
               /\ seen' = [g \in Workers |-> IF g \in Getting
                                             THEN seen[g] \cup Buffers' ELSE seen[g]]

Written(w, code) == /\ Goto(w, "write", "reply")
                    /\ res' = [res EXCEPT ![w] = code]
                    /\ Overtake(w)
                    /\ UNCHANGED <<main, os, fds, connfd, queue, req, history, exited>>

\* Faulty variants: the request's own buffer, or the buffers the new one pushes
\* out, are freed.
PutFreesOwn(w) == /\ req[w].code = "PUT"
                  /\ Table!Store(w, req[w].key, serves[w], TRUE)
                  /\ Written(w, "OK")
                  /\ freed' = freed \cup {serves[w]}
                  /\ UNCHANGED cleared

PutFreesOld(w) == /\ req[w].code = "PUT"
                  /\ Table!Store(w, req[w].key, serves[w], TRUE)
                  /\ Written(w, "OK")
                  /\ freed' = freed \cup (Buffers \ Buffers')
                  /\ UNCHANGED cleared

\* put() with force; a buffer it overwrites is not freed.
Put(w) == /\ req[w].code = "PUT"
          /\ Table!Store(w, req[w].key, serves[w], TRUE)
          /\ Written(w, "OK")
          /\ UNCHANGED <<cleared, freed>>

Evict(w) == /\ req[w].code = "EVICT"
            /\ Table!Delete(w, req[w].key)
            /\ Written(w, "OK")
            /\ UNCHANGED <<cleared, freed>>

\* clear_map() frees the buffer of every slot.
Clear(w) == /\ req[w].code = "CLEAR"
            /\ Table!ClearMap(w)
            /\ Written(w, "OK")
            /\ cleared' = cleared \cup Getting \cup Answering
            /\ freed' = freed \cup Buffers

\* A reader waits until num_readers is not negative.
GetSpin(w) == /\ num_readers >= 0
              /\ Goto(w, "get_spin", "get_enter")
              /\ UNCHANGED <<main, os, fds, connfd, queue, req, res, map,
                             history, exited>>

GetEnter(w) == /\ Goto(w, "get_enter", "get_exit")
               /\ num_readers' = num_readers + 1
               /\ seen' = [seen EXCEPT ![w] = Buffers]
               /\ UNCHANGED <<main, os, fds, connfd, queue, req, res, nodes, size,
                              invalid, crashed, found, overtaken, cleared,
                              freed,
                              history, exited>>

Got(w) == /\ Goto(w, "get_exit", "reply")
          /\ num_readers' = num_readers - 1
          /\ res' = [res EXCEPT ![w] = IF found'[w] # NULL THEN "OK" ELSE "NOT_FOUND"]
          /\ seen' = [seen EXCEPT ![w] = {}]
          /\ overtaken' = overtaken \ {w}
          /\ UNCHANGED <<main, os, fds, connfd, queue, req, cleared,
                         freed, history, exited>>

\* What HashMap!QuietGet says of a get() that no writer overtook ...
GetQuiet(w) == /\ w \notin overtaken
               /\ Table!Get(w, req[w].key)
               /\ Got(w)

\* ... and what is left of it when one did.
GetOvertaken(w) ==
    /\ w \in overtaken
    /\ \E v \in seen[w] \cup {NULL} : found' = [found EXCEPT ![w] = v]
    /\ Got(w)
    /\ UNCHANGED <<nodes, size, invalid, crashed>>
-----------------------------------------------------------------------------
MainStep == CreateMap \/ DoAccept \/ AcceptFails \/ Enqueue
            \/ \E w \in Workers : Spawn(w)

WorkerStep(w) == \/ Dequeue(w) \/ ReadHeader(w) \/ ReadOversize(w) \/ ReadBody(w)
                 \/ ReadFails(w) \/ Refuse(w) \/ RefuseFails(w) \/ RefuseClose(w)
                 \/ WriterSpin(w)
                 \/ Put(w) \/ Evict(w) \/ Clear(w) \/ GetSpin(w) \/ GetEnter(w)
                 \/ GetQuiet(w) \/ GetOvertaken(w) \/ Reply(w) \/ SendBody(w)
                 \/ WriteFails(w) \/ CloseConn(w)

Running == ~exited /\ ~crashed

Next == Running /\ \/ Connect
                   \/ MainStep
                   \/ \E w \in Workers : WorkerStep(w)

Spec == Init /\ [][Next]_vars

\* Every thread of the server is scheduled; nothing makes a client connect.
Fairness == /\ WF_vars(Running /\ MainStep)
            /\ \A w \in Workers : WF_vars(Running /\ WorkerStep(w))

FairSpec == Spec /\ Fairness
-----------------------------------------------------------------------------
Cached == {"spin", "write", "get_spin", "get_enter", "get_exit"}
Working == {"read_header", "read_body", "refuse", "refused", "reply", "body", "close"}
           \cup Cached
Codes == {"UNSUPPORTED", "OK", "NOT_FOUND", "BAD_REQUEST"}

\* The type of every variable.
TypeOK == /\ main \in {"spawn", "accept", "enqueue"}
          /\ worker \in [Workers -> {"unborn", "dequeue", "gone"} \cup Working]
          /\ backlog \in Seq(Conns)
          /\ arrived \in 0 .. MaxConns
          /\ arrival \in [Conns -> Arrivals \cup {NULL}]
          /\ fds \in [FDs -> Conns \cup {NULL}]
          /\ connfd \in FDs \cup {NULL}
          /\ pending \in Seq(FDs)
          /\ taken \in [Workers \cup {Main} -> FDs \cup {NULL, OK}]
          /\ req \in [Workers -> Requests \cup [code : {"other"}, fit : {"fits"},
                                                key : Keys]
                                 \cup {[r EXCEPT !.key = ZeroKey] : r \in Requests}]
          /\ res \in [Workers -> Codes]
          /\ nodes \in [0 .. Capacity - 1 ->
                           [key : Keys \cup {NULL}, val : Conns \cup {NULL},
                            tombstone : BOOLEAN]]
          /\ size \in 0 .. SizeModulus - 1
          /\ ~invalid /\ ~invalid_queue /\ destroyed = <<>>
          /\ crashed \in BOOLEAN
          /\ found \in [Workers -> Conns \cup {NULL, OK}]
          /\ num_readers \in Int
          /\ seen \in [Workers -> SUBSET Conns]
          /\ overtaken \subseteq Workers
          /\ cleared \subseteq Workers
          /\ freed \subseteq Conns
          /\ serves \in [Workers -> Conns \cup {NULL}]
          /\ answers \in [Conns -> Seq(Codes \cup {"echo"})]
          /\ closed \subseteq Conns
          /\ exited \in BOOLEAN

Holders(f) == {w \in Workers : worker[w] \in Working /\ taken[w] = f}
              \cup {m \in {Main} : main = "enqueue" /\ connfd = f}
Places(f) == {i \in DOMAIN pending : pending[i] = f}

\* An open descriptor is in one pair of hands: main()'s, the queue's or one
\* worker's, and one that is closed in nobody's; so none is closed twice, leaked,
\* or used after it was closed and accept() returned it again
\* (cream.c:84-85, 97, 106, 119, 131, 146, 166, 176, 189).
OneOwner == \A f \in FDs : Cardinality(Holders(f)) + Cardinality(Places(f))
                              = IF fds[f] = NULL THEN 0 ELSE 1

\* A connection gets at most one answer, and the one its own request calls for,
\* whatever other workers do and whichever descriptors are used again
\* (cream.c:115-159).
AnswerFits == \A c \in Conns :
    /\ Len(answers[c]) <= 1
    /\ answers[c] # <<>> /\ arrival[c].sent = "all" =>
          answers[c][1] \in CASE Route(arrival[c].req) = "refuse"   -> {"echo"}
                              [] Route(arrival[c].req) = "spin"     -> {"OK"}
                              [] Route(arrival[c].req) = "get_spin" ->
                                     {"OK", "NOT_FOUND"}
                              [] Route(arrival[c].req) = "reply"    -> {"UNSUPPORTED"}

\* A buffer is in one slot at most and not freed as long as it is there, so that
\* clear_map() frees nothing twice (cream.c:90-93, 122).
BuffersAreOwned == \A s \in DOMAIN nodes : nodes[s].val # NULL =>
    /\ nodes[s].val \notin freed
    /\ \A t \in DOMAIN nodes \ {s} : nodes[t].val # nodes[s].val

\* The body of an answer is written from a freed buffer only if a CLEAR was carried
\* out between the get() and the write (cream.c:134, 162; hashmap.c:217).
BodyIsAllocated == \A w \in Workers :
    worker[w] = "body" /\ w \notin cleared => found[w] \notin freed

\* A worker that will never go on: its thread is over, it reads from a client that
\* is silent, or it waits for num_readers to come up from below zero.
Hung(w) == worker[w] = "get_spin" /\ num_readers < 0
Mute(w) == /\ worker[w] \in {"read_header", "read_body"}
           /\ Input(w).end = "silent"
Lost(w) == worker[w] = "gone" \/ Mute(w) \/ Hung(w)

\* As often as clients stop connecting, every connection made is in the end accepted,
\* served and closed, as long as the server runs and has a worker that is not lost,
\* but for those whose client is silent or whose worker is hung (cream.c:81-86,
\* 96-168).
Settled == \/ ~Running
           \/ \A w \in Workers : Lost(w)
           \/ \A c \in 1 .. arrived :
                 \/ c \in closed
                 \/ \E w \in Workers : serves[w] = c /\ (Mute(w) \/ Hung(w))
ConnectionsAreClosed == []<>Settled
=============================================================================
