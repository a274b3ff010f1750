# Formal models of System-Fundamentals-C-Programs

This directory holds TLA+ specifications of the programs in this repository, the
TLC configurations that check them and the TLAPS proofs about them. The names of
actions and variables follow the C code; every action names the step of the
function it stands for, and `PROJECT.json` maps every definition to its lines.

## The system

The repository is six homework programs in C. They share no code.

| Program | State | Operations | What is hard |
|---|---|---|---|
| hw5 request queue (`queue.c`) | linked list with an empty node at the tail, semaphore, mutex, `invalid` | `enqueue`, `dequeue`, `invalidate_queue` | token taken outside the lock; nodes freed under waiting threads |
| hw5 hash map (`hashmap.c`) | open-addressing table, `size`, `num_readers`, two mutexes, `invalid` | `put`, `get`, `delete`, `clear_map`, `invalidate_map` | a readers/writers protocol with a gap between the test of `num_readers` and the lock; tombstones; a size check without a lock |
| hw5 server (`cream.c`) | descriptor table, queue, map, one connection per worker | accept loop, worker loop: PUT, GET, EVICT, CLEAR, refusals | many workers, clients that go away, descriptors and buffers with an owner |
| hw3 allocator (`sfmm.c`) | heap of blocks with headers and footers, four free lists | `sf_malloc`, `sf_realloc`, `sf_free` | long sequences of calls; splitting and coalescing |
| hw4 shell (`main.c`; `execute.c` is one comment) | job list, what the handler was told last, pending SIGCHLD, children | run in foreground or background, `jobs`, `fg`, `kill`, `exit`, SIGCHLD handler, reaping loop | a handler that frees what the main loop uses; children that stop and end at any moment; one signal for many children |
| hw4 inside a job (`main.c`) | two pipes at a time, `childpid` and `pid` in each process | find the program, pipe, fork twice for each stage, redirect, wait | three levels of processes, who holds which end of which pipe, handlers between `fork()` and wait |
| hw2 UTF converter (`utf*.c`, `args.c`, `main.c`, `wrappers.c`) | the program's options, files, a glyph and what the glyph before left | parse, recognise the mark, six conversion loops | boundaries of the encodings; short reads; stale buffers |
| hw1 ciphers (`hw1.c`, `main.c`, `const.c`) | options, key tables, eight-character Morse buffer | parse, generate tables, encrypt and decrypt | keys that crowd letters out; codes that run across the buffer, blanks and lines |
| hw0 | none | prints a greeting | nothing |

In hw5, `main()` and the workers of `cream.c` share the queue and the map. `main()`
puts the descriptor `accept()` returned into the queue, a worker takes it, reads one
request, calls the map and answers. The map's destructor frees keys and values. The
semaphore and mutex wrappers are in `hashmap.c`, the I/O wrappers in `csapp.c`.
The other programs are single-threaded; only the shell has asynchrony, from signals.

What makes each part correct:

* queue: every item is taken once, in order, or destroyed once; nobody follows a
  freed node; a consumer let past the semaphore finds an item; items are not left
  behind; nothing is touched after invalidation.
* map: a stored key is found, by whatever chain of tombstones; calls on one key leave
  other keys alone; writers are atomic and finish; a reader sees one state of the table.
* server: one owner for each descriptor and each buffer; one answer for each connection,
  the one its request calls for; every connection is served and closed.
* allocator: blocks tile the heap; header and footer agree; the free lists hold exactly the free
  blocks and can be walked both ways; what a client wrote stays; a client that keeps to the rules
  is never aborted.
* shell: a process that runs is in the job list; a foreground wait ends; a job is used after a
  wait only if it was not freed; every stage of a pipeline, and the job, ends.
* converter: the output is the text of the input in the other encoding, in order, with
  nothing lost or added but what can be said exactly.
* ciphers: decrypting what was encrypted gives the text back, and a search leaves its table only for what has no place in it.

## Modules

| Module | Models |
|---|---|
| `FifoQueue` | what the request queue promises: an atomic FIFO queue that can be closed |
| `Queue` | `queue.c` with its mutex, semaphore and every node of the list |
| `QueueProofs` | the theorems about `Queue`, among them that it implements `FifoQueue` |
| `Probing` | the searches of `put`, `get` and `delete` along the table, as operators |
| `HashTable` | the table as a caller sees it, one call at a time; for the concurrent map, what it promises |
| `HashTableProofs` | what those searches find in any table, and the theorems about `HashTable` |
| `HashMap` | `hashmap.c` with `write_lock`, `fields_lock` and `num_readers`, one shared access a step |
| `HashMapProofs` | the theorems about `HashMap`, among them that it implements `HashTable` |
| `Cream` | `cream.c`: `main()`, the workers, the clients and the descriptor table |
| `CreamProofs` | the theorems about `Cream` |
| `Sfmm` | `sfmm.c`: the heap word by word, the four free lists, a client that allocates, resizes and frees |
| `SfmmProofs` | the theorems about `Sfmm` |
| `Shell` | hw4 `main()`: job list, waits, SIGCHLD handler, `fg`, `kill`, `exit`, reaping loop, with the children as processes that stop and end |
| `ShellProofs` | the theorems about `Shell` |
| `Pipeline` | hw4 inside one job: `findexecutable()`, `execute()`, pipes, redirection and the waits of all its processes |
| `PipelineProofs` | the theorems about `Pipeline` |
| `Glyphs` | hw2: encoders, decoders and surrogate tests as operators on numbers |
| `Converter` | hw2: `parse_args()`, `check_bom()`, `main()` and the six conversion loops |
| `ConverterProofs` | what those operators do for every code point, and the loops for every text |
| `Ciphers` | hw1: `validargs()`, the two tables and the four loops of `main()` |
| `MCQueue`, `MCHashTable`, `MCHashMap`, `MCCream`, `MCSfmm`, `MCShell`, `MCPipeline`, `MCConverter`, `MCCiphers` | the small instances for TLC |

How they are composed:

* `Queue` implements `FifoQueue` (checked as a property, and proved). The refinement
  maps the items in the list to `pending`. An `enqueue` takes effect when it links
  the new node, a `dequeue` when it unlinks one, `invalidate_queue` when it sets
  `invalid`.
* The writers of `HashMap` implement `HashTable!OverlappingSpec` (checked, and proved). The mapping
  shows the table as it was before a writer began until that writer is done. `Overlapping`
  stands for the one thing that is not atomic: the test for a full map.
* `Cream` uses `FifoQueue` for its queue and the actions of `HashTable` for PUT, EVICT and
  CLEAR. It keeps the `num_readers` protocol, because that is where the map is not atomic:
  a `get` no writer overtook reads the table (`HashMap!QuietGet`), one that was overtaken may
  return any value a slot held in the meantime, or none. What `Cream` shows of the server so rests
  on what the other runs show of the queue and the map.
* `Pipeline` is what happens inside one process of `Shell`. `Shell` lets a job end or never end;
  `Pipeline` says when it does. The shell touches the inside of a job once, when it moves it to a process
  group of its own (`SetPgid`).
* `Converter` is built from the operators of `Glyphs`. `ConverterProofs` shows of them what they do for every code point, and then of
  the loops around them what they do for every text; the run `converter` has the texts at the boundaries.

### State and actions

**Queue.** Nodes are numbered in the order of their allocation, so `rear .. front` are
the addresses of the live list; the code's names are kept (`front` is the tail, where `enqueue`
works). `lock` and `items` are the mutex and the semaphore. `EnqueueCall`,
`EnqueueLock`, `EnqueueLink`, `EnqueuePost` and `Unlock` are the steps of `enqueue`;
`DequeueCall`, `DequeueWait`, `DequeueLock`, `DequeuePop` of `dequeue`; the `Invalidate...`
actions of `invalidate_queue`, with one step per node freed. `Reject` is the
early return on an invalid queue, which gives the mutex back. What runs under the mutex and
nobody else can look at is one step.

**HashTable.** A slot is a key, a value and a tombstone. The first free slot, the first
tombstone and the wrap at the end of the table are those of the loops in `hashmap.c`; `Home` is any function from
keys to slots, in place of the hash. `size` counts modulo `SizeModulus`, the
code modulo 2^32: `delete` of a missing key on an empty map wraps it.

**HashMap.** A writer takes `write_lock`, spins on `num_readers`, takes `fields_lock`, sets
`num_readers` to -1, writes one word of the node a step, resets `num_readers` to 0 and
leaves. A reader spins, counts itself, and reads one word a step. The gap between the spin and
`fields_lock` is there. `invalidate_map` frees the nodes and sets the capacity to 0, so a
reader inside faults: `fault` ends the program. `raced` is a history variable: the readers
a writer overtook.

**Cream.** Each worker is at one place in `worker_thread()`. A connection carries one request,
all of it, only its header or nothing, and then ends, fails or is silent.
A value in the map is the buffer that was allocated for it, named after the connection it was
read from, so that frees can be followed. `Broken` is the path where the connection is
found broken or the sizes out of bounds: close and end the thread; `Exit` is `unix_error()`.

**Sfmm.** `mem` is the heap, one value for each 8 bytes: a header or footer, a link, or what the
client wrote. Links lie in the words that were a payload, as in the code, so what a block that is split off has for `next` and `prev`
is what the last owner of these words left. `head`, `brk` and `errno` are the heads of `seg_free_list`, `get_heap_end()` and
`sf_errno`. A call is one step, since nothing runs beside it; `sf_malloc`, `sf_realloc` and `sf_free`
are operators from one state of the allocator to the next, built from the parts of the C functions (`Search`, `Unlink`,
`Split`, `Extend`, `MergeNext`, `Cut`, ...), with the same order of writes. The C loops are turns of `While`. Where the
code follows a word that is no pointer, `end` becomes "wild" and the run is over, as it is
when a check aborts ("abort") or a search meets a block it can leave no more ("hang"). `live` and `data` are the client's own
notes: its blocks and what it wrote. The client frees and resizes only what it holds.

`slip` is a history variable: it is set when the code takes a list for what it is not. There are three places: a split takes the words
of the new block for links though they are something else, or though the list has other blocks (sfmm.c:155-164); a merge
takes a block out of another list than the one it is the head of (sfmm.c:210, 367); an added page
goes to the head of a list with a `prev` that is not NULL (sfmm.c:228). The properties of the
run `sfmm` hold of every state before the first slip: these three places are all that is wrong with the lists, for
heaps of any size and any calls (`SfmmProofs`). The run `sfmm_region` shows what comes of them, without regard to `slip`.

**Shell.** A job is the number of its process, in the order of the forks. `list` is `joblist`; `stopped`, `childpid`, `pid` and
`status` are the code's. `proc` is the kernel's view of a process, `news` the stops `waitpid(WUNTRACED)` has not
told yet, `pending` the one bit of a blocked SIGCHLD. SIGCHLD is let in only by `sigsuspend()`, so `Handler` is enabled
in the two waits only; it then stays in its `waitpid(childpid)` (`inHandler`) until that child has something to tell
(`HandlerReports`) or is gone (`HandlerFails`). `RunForeground`, `RunBackground`, `Fg`, `KillJob`, `KillPid`, `KillGroup` (`kill 0` ends the shell itself), `Builtin`, `Exit` and
`EndOfFile` are the commands, `Resume` is the end of either wait. The loop after each command visits the jobs in turn (`rest`):
`ReapGone`, `ReapChild(j, k)` (at job j, `waitpid(-1)` tells of child k), `ReapNothing`. `taken` is a history variable: the jobs whose
news the loop took in the turn of another one.

**Pipeline.** J is the forked job, P[s] the process of stage s, X[s] the program it runs. `fds` says for each process which
ends of which pipe it has open: `fork()` copies, `JClose` closes one, an exit all. `childpid` and `pid` are J's; in P the two
come down to whether it was told (`told`). A program reads its input to the end and passes it on, a "quitter" may stop at any
time, a "builtin" is run by P itself, "missing" and "badpath" are the two ways `findexecutable()` gives up. `hasty` is a history variable: a
SIGCHLD came in between the last `fork()` and the blocking of SIGCHLD before the wait.

**Converter.** A file is its bytes, and so is the output. `bytes`, `upper` and `lower` are the buffers of the loops, which start
with anything (`Garbage`) and keep what a short read or a turn does not overwrite. One turn of a loop is one action;
the two loops from UTF-8 and the two to UTF-8 differ in byte order only and share theirs, the two between the UTF-16 formats
do different things and have their own. `lseek()` is called with its arguments in the wrong order (main.c:19), so the mark is converted
like any other character; `Skipped` is where that is.

**Ciphers.** Arguments, text and tables are sequences of ASCII codes. The options are parsed one by one, and what `validargs()` leaves in the
tables is modelled, as `isvalidchar()` uses them to find repeated letters. `Places` is where the loops of `generatepolybiustable()` and
`generatemorsetable()` write: their negative offset is a count of the key's letters met so far. `polybius_table` is also the buffer of
the Morse decryption, as in the code, and `validargs()` clears only the table of the cipher chosen last: a key that stands before `-f` is still in that buffer when the
decryption begins and spoils it (`KeyAfterCipher`). "lost" is the end of a run that reads behind its tables, whose outcome the build decides. After an encryption the
program runs again with `-d` on its output.

## Runs

| Run | Instance | What it shows |
|---|---|---|
| `queue` | 2 producers, 2 consumers, a closer, 2 items, 3 calls of `enqueue` | list, semaphore and mutex agree in every interleaving; the queue is an atomic FIFO; no item is left behind |
| `hashtable` | 3 slots, 4 keys (two of one home, two wrapping), size modulo 5 | all sequences of calls: a stored key is found, other keys are left alone, only `delete` and an overwrite make `size` wrong |
| `hashmap` | 2 writers, 2 readers, 2 slots, 3 keys, 3 calls | writers are atomic and finish; a reader no writer overtook returns what the table holds |
| `cream` | 2 workers, 2 descriptors, 3 connections, a map of one slot, 2 keys | one owner for descriptors and buffers, answers that fit, all connections served and closed |
| `sfmm` | 3 pages of 10 words, sizes 0, 2, 3, 8 and 12, 6 calls | up to the first slip: blocks tile the heap, the lists hold the free blocks, payloads stay, nobody is aborted |
| `shell` | 3 commands | running jobs stay listed; a wait has its job, or the loop took its news; a job is freed exactly if it ended; a foreground command gives the prompt back |
| `pipeline` | 1 to 3 stages of every kind, with redirections, 2 units of data, pipes of one unit | who has which end of a pipe open, which stage a job is over with, and when a job and its stages end: always but for two windows of a handler and for readers that are gone |
| `converter` | texts of up to 2 of 16 code points, 3 encodings, a last byte cut off, 3 values of garbage, 14 command lines, a file without a mark | what each conversion keeps, and exactly what it adds or loses |
| `ciphers` | 9 command lines with keys and table sizes, 21 odd ones, texts of up to 3 characters, Morse lines of 4 | which texts come back; that the decryption of whole Morse lines does not fail; that an encryption leaves its tables only for a character without a place in them, or, in Morse, for a key with the last letter and a text with two blanks in a row |
| `hashtable_doc` | as `hashtable` | `delete` removes another entry when the key is not in its home slot |
| `hashmap_crash` | 1 slot | two `put` calls without force pass the check for a full map together; the second dereferences NULL |
| `sfmm_region` | as `sfmm` | three calls of `sf_malloc` write a list link into a payload |

The last three check a sentence of a comment or header against the code and end in a
counterexample; `PROJECT.json` quotes the sentences under "findings".

**Bounds.** Two threads of each kind give every pair of roles a race, and in the queue also
every triple: a producer, a consumer and the closer. Three calls of `enqueue` let the
list be empty, hold one and hold two items, with a token taken while others are posted. Three slots and
four keys let a chain wrap, pass through a tombstone and be full. Two slots and three keys in the
concurrent map give collisions, a full map and an overwritten entry within three calls, and
three calls are needed and enough for a reader to be overtaken by one writer while another
waits. Three connections on two descriptors make a descriptor be used again while
a worker holds the other, and run `accept()` out of descriptors; three are
also enough for a buffer to be stored, read and cleared by three requests. The constants that
bound are `MaxEnqueues`, `MaxCalls`, `MaxConns` and `SizeModulus`; in the code the first three are unbounded
and the last is 2^32. In the allocator a page has 10 words where the code has 512, and there are three where `sf_sbrk`
gives four; the maxima of the lists (6, 8, 9 and 64 words) are scaled so that blocks of every list but the third fit in a page, and a page
and blocks over two pages are in the fourth. The third list is empty: no multiple of two words lies between
8 and 9, but it is searched. The sizes give blocks of 2, 3, 5 and 7 units: a smallest block, one
with a splinter, a whole page and one that needs two. Six calls allocate three blocks, free them in any order and allocate again. The run
stops at states with a slip (`CONSTRAINT NoSlip`), which loses nothing, as
every one of its invariants is true of such a state and a slip is never taken back. 

Three commands in the shell let one job be waited for while another ends and a third is stopped, which is what the handler and the loop
can confuse; a second round of the loop over what the first left needs no fourth. The process ids are bounded by `MaxJobs`, the number of times a
job is stopped and continued is not. Three stages have a first, a middle and a last one; the last is the only one waited for, the middle one
both reads and writes. Two units in pipes of one make a writer block. The code points of `MCConverter` are the
first and last of each length in both encodings, the edges of the surrogates, U+FEFF, and U+01DC, which turned round looks like a
surrogate; two of them in a row suffice because no loop keeps more than one glyph, and the mark is a third. The keys of `MCCiphers` are from both ends
of the alphabet, one fills more places than the table has to spare, one is longer than its checked part, one has the last letter, which lets the Morse encryption leave its tables for texts with two blanks in a row; the Morse letters
have codes of one to six characters, so letters end at every place of a triple and a buffer is filled beyond its
eight characters' use. `morse_table` has five of the characters of const.c, the alphabets are whole.

No run uses symmetry: the keys and workers are told apart by home slots
and by the liveness properties.

**Deadlock** is not checked. In each system it is legal to stop: consumers wait on an empty queue, calls
are over, the server waits for clients or is gone, the shell has exited or `fg` waits for a job that is gone, a pipeline is
held up, the converter and the ciphers are done. The liveness properties say
what may not stop.

**Fairness.** In `Queue` a thread that is inside an operation is scheduled until it is over, and a
consumer calls again, because `worker_thread()` is a loop around `dequeue()`;
nobody has to call `enqueue` or `invalidate_queue`. In `HashMap` a thread inside a call is scheduled.
In `Cream` `main()` and the workers are scheduled and clients need not connect. All of
it is weak fairness of a thread's steps, what a pre-emptive scheduler gives. That `EveryItemLeaves`
and `WritersFinish` hold under it is due to bounds on the number of calls: with endless
calls a mutex that is not fair may starve a thread, and the code does nothing against it.
In `Shell` the shell is scheduled in its waits and its loop, and a process that got SIGKILL dies; nobody has to type a command and no job has to
stop or end. In `Pipeline` each process is scheduled, and a quitter quits in the end. The converter and the ciphers have no
liveness property: their loops take one character off a finite file.

## Proofs

`QueueProofs` proves for any finite or infinite sets of producers, consumers,
closers and items that meet the assumptions of `Queue`, and any `MaxEnqueues`:

* `TypeCorrect`: every variable keeps its type.
* `ListIsWhole`: the allocated nodes are the chain from `rear` to `front`.
* `TokensAreCounted`: the semaphore counts the items nobody is on the way to.
* `PopsFindItems`: a pop finds an item, an enqueue the empty node.
* `InvalidStaysFinal`: nothing touches the list after invalidation (like the one before, proved and not part of a run: what the run needs of
  it is in `ListShape` and the refinement).
* `Refinement`: `Queue` implements `FifoQueue`.

The assumptions are those named in `Queue`: the roles are disjoint, `NULL` and `OK` are no items
or threads, `MaxEnqueues` is a natural number; `MCQueue` evaluates them.

The inductive invariant is `IInv`: the types, `LockInv` (who is in a critical section holds the mutex), `ArgInv`
(what waits to be linked is an item), `ShapeInv` and `TokenCount`. It is needed
because none of the properties is inductive alone. That the list is whole after a pop
needs that the pop found an item, and `dequeue` does not look; it follows from the token count by way
of the consumers that hold a token (`ItemAtRear`). The token count is kept only if no two threads change the
list together, which needs the mutex. While `invalidate_queue` frees the list node by
node neither "whole" nor "gone" is true, so `Partial` says how much is left. There is a lemma for
every action; `NextIInv` puts them together and the theorems follow.

The refinement proof first describes the mapped queue as a sequence (`PendingIsSeq`,
`DiscardedIsSeq`), then shows that linking a node is `Put`, unlinking one is `Take`, setting
`invalid` is `Close`, an early return is `Refuse` and every other step stutters,
freeing a node included, since the item moves from the list to `destroyed` and
the mapped queue stays as it is.

`ShellProofs` proves for any number of commands (`JobsAssumption`: `MaxJobs` is a positive natural number):

* `TypeCorrect`: the types; `waitpid()` has news of stopped children only, the list holds forked jobs only.
* `NoRunningJobIsLost`: a process that runs is in the job list, until exit.
* `WaitsAreForTheGoing`: only the loop's `waitpid(-1)` can lose what a wait is for.
* `FreedExactlyIfEnded`: after a wait its job is in the list exactly if it stopped.

`WaitsForTheGoing` is not inductive: whether a wait that begins now can end depends on what happened to the job long before. The invariant
says it of every listed job: a stop nobody knows of (`StopsAreKnown`) and an end nobody acted on (`EndsAreKnown`)
are in `taken`; no listed job is dying (`NoneDying`); what was taken neither runs nor has an end to tell (`TakenAreStill`), which
is why the handler never frees a job that is still in `taken`; and the job of a wait stays listed until the handler reports it
(`WaitInv`), which is why a job that stopped is still there. There is one lemma for every action; `NextInv` puts them together.

`ConverterProofs` proves for texts of any length in code points that are no surrogates (`TextsAssumption`; UTF-16 cannot write others), any
command lines and anything in the buffers that are not initialised (`GarbageAssumption`: it is made of units):

* `Utf8RoundTrip`: decoding the encoded code point gives it back, and the first byte tells how many follow.
* `SurrogateRoundTrip`: so do the two surrogates, except for the first and the last 1024 supplementary code points, of which
  only the lower surrogate is left.
* `TurnedTwice`: turning a unit round twice gives it back.
* `TextFromUtf8IsKept`: what `Utf8IsKept` says, the stale glyph of a file that is cut included.
* `TextFromUtf16IsKept`: what `Utf16IsKept` says, the edges of the supplementary planes included.
* `TextIsTurned`: what `UnitsAreTurned` says, whichever way the stale test of the loop goes in each turn.

The first three are arithmetic on quotients and remainders, one lemma for each length of a glyph; they hold of the operators. The other three are
invariants. Each of the loops takes a text in pieces (code points from UTF-8, units between the two formats in UTF-16, and to UTF-8 code points
except on the edge, where it takes the surrogates one by one: `Item`), and the invariant says that it is `Halfway`: there is a place in the text such that what is left of the
file is what the pieces behind that place are spelled as in one encoding, and the output is what those before it are spelled as in the other. A turn moves the place by one
piece, or two: that needs that a spelled piece tells its own length (`Utf8Glyph`, `HeadUnit`, `ItemKinds`) and that nothing is read of the piece behind. At
the end the place is the end of the text. Beside it the invariant says of the buffers that `lower` is 0 or the mark once the mark has
been read (`WidePart`), which is why what was in it at first does not matter, and of a file that was cut or a unit that was alone that it leaves one stale glyph (`Utf8Over`,
`StaleUnit`). That the encoders of the code write what the Unicode standard says is a lemma (`Utf8BytesAre`, `UnitsAre`).

The texts are put together with `FlattenSeq` of the community modules, a recursive function. What the proofs need of it
(`FlattenAppend`, `FlattenConcat`) is shown first, by a smallest counterexample: the set of the sequences for which it holds has the empty one and is
closed under `Append` (`AppendInduction`).

`HashTableProofs` begins with the facts about the searches of the hash map that its own theorems, `HashMapProofs` and `CreamProofs` rest on, for every array of
nodes: a search that stops does so at its first stop (`FoundAtEnd`), the slot found has the key (`FoundIsSlot`), and two tables that agree up to
the stop give the same result. The loops of the code go round the table; their offsets are natural numbers, and a
nonempty set of these has a smallest element (`SmallestExists`, from the library's theorem that < is well-founded on the
naturals). That is the induction all of it needs.

It then proves for any capacity, keys, values and hash, under the assumptions of `Probing` and `HashTable` (`CapacityAssumption`:
there is a slot; `HomeAssumption`: the hash ends in a slot, which `% capacity` sees to; `NoKeyAssumption`: `NULL` is no key or value;
`ModulusAssumption`: the counter can hold the capacity):

* `TypeCorrect`: no call leaves a slot that is no node or a size outside its counter (proved; no run repeats it).
* `LiveFound`: an entry that is no tombstone is found, whatever was stored, overwritten, deleted and cleared before.
* `WritesAreRead`: after a `put` that returned, `get` returns its value.
* `OthersAreKept`: what a call on one key may change for another is exactly what `OthersKept` names.
* `OnlyDeletesMiscount`: `put` finds a slot until a `delete` has made `size` too small.

`LiveIsFound` is not inductive: it says that a search ends at some entry of the key, and when that one goes there may be another behind
an empty slot. The invariant `Reached` says of every live entry that no slot on the way to it is empty; `OthersAreKept` and
`WritesAreRead` rest on it too.

`HashMapProofs` proves for any number of writers and finite number of readers (`FiniteAssumption`: `num_readers` counts them, and a process has finitely many
threads), any table and any number of calls:

* `ReadersAreCounted`: `num_readers` counts no reader that is not there, and is -1 under a writer.
* `QuietGets`: a `get` no writer overtook reads one table, not freed, and returns what it holds.
* `Atomicity`: the calls that write implement `HashTable!OverlappingSpec`.

The inductive invariant has six parts: the types, with the places a writer and a reader may be at (`TypeInv`); who holds which lock (`LockInv`);
the count (`CountInv`); what the writer at work has made of the table it found, for each place in `put`, `delete`, `clear_map` and `invalidate_map`
(`BodyInv`); the offset of each reader (`ReaderInv`); and how far a search that was not overtaken has got (`SearchInv`). `QuietGet` speaks of the end of a
search and needs `SearchInv` for its way there; `SearchInv` is kept by a writer's step because under `fields_lock` every reader inside is
overtaken, which is `LockInv` and `BodyInv`. The refinement needs `BodyInv` to say that the word by word writes of a call add up to the one write
of `HashTable`; every step but the last of a call stutters.

`CreamProofs` proves for any number of workers (at least one), descriptors, connections, requests, slots and keys:

* `TypeCorrect`: every variable keeps its type.
* `DescriptorsAreOwned`: an open descriptor is in one pair of hands, a closed one in nobody's.
* `AnswersFit`: one answer at most on a connection, and one that its request calls for.
* `BuffersHaveOneSlot`: a buffer is in one slot at most and not freed while it is there.
* `BodiesAreAllocated`: a body is written from a freed buffer only if a CLEAR came between the `get` and the write.

Its assumptions are those named in `Cream`. Those on the map are the ones of `Probing` and `HashTable` again: `create_map` refuses a capacity of 0
(hashmap.c:21), and `cream.c:65` reads it from the command line.

The inductive invariant says of every descriptor who has it (`Hands`; `OneOwner` counts them), that a connection is in the backlog or open on one descriptor (`Wires`), that a
worker serves what its descriptor is open on (`Serving`), what it knows of its request at each place (`Asked`), that whoever answered has done so
once and still holds the connection (`Answered`), that a buffer the map has or had belongs to a request whose call on the map is over (`Spent`), and that
what a reader may return is not freed unless it was warned (`Readable`). Each part needs the ones before: an answer is the first one because the worker that
gave another on this connection would serve it too, which `Hands` and `Wires` exclude; a buffer that `put` stores is a new one
because a worker that stored it before would have the same descriptor. The steps are sorted into four kinds (`Kinds`): `dequeue()`, `close()`,
the end of the process, and the work in between, which leaves descriptors and queue alone (`WithinKeeps`). The search in the map enters as one fact, that it
returns a slot's value or NULL (`LookupIsBuffer`).

`PipelineProofs` proves for command lines of any length, pipes of any capacity and any number of units, under the assumptions of `Pipeline` (no line is
empty, a pipe holds something):

* `TypeCorrect`: in particular J stops at the last stage, and no stage takes more than the first program made.
* `InputsEnd`: only the processes of its own stage have a write end open while they run, and J until it forks the next stage.
* `NoWriteFails`: whoever can write to a pipe can read from it, so no stage is told that its reader is gone.
* `LastOneEnds`: a job whose last stage was started is over only after that one, whatever its handler was told in between.

`InputsEnd` and `NoWriteFails` are inductive together: a process inherits what J has at its fork, and that is one write end at most because J closed the
one before. One lemma says for each way of opening and closing (fork, pipe, close, exit) that it keeps them (`Ends`). The bound on `made` needs `Flow`: what stage s has
taken and what is in its pipe is no more than the stage before has given. `LastOneEnds` needs `Turns`: the stages behind `k` are not started, and `pid`
names a stage that is gone, which `JPipe` and a late handler both leave true; a `pid` that is stale is thus never the last stage while it still runs.

`SfmmProofs` proves for pages of any even size of at least four words, any number of them, any maxima of the lists (`ListMaxAssumption`: they rise, and a
whole page and anything larger is in the fourth list) and any sizes, contents and number of calls:

* `HeapIsSound`: the inductive invariant below.
* `TypeCorrect`: no word in the heap or in a head of `seg_free_list` points out of the heap or is larger than it.
* `BlocksAreTiled`: no word of the heap is without a block and none is in two, header and footer agree, and the client's blocks are the allocated ones.
* `ListsAreComplete`: each list holds the free blocks of its class, each once and nothing else, with every `prev` where it belongs.
* `PayloadIsKept`: no call writes to a word a client holds.
* `NoClientIsAborted`: no check of `sf_free` or `sf_realloc` stops a client that keeps to the rules; no search goes on for ever.

All six are about states without a slip, and the three places where a slip is set are real (`sfmm_region`): the theorems say that nothing else can go wrong.
None of the five properties is inductive. What `sf_free` does to the tiling depends on the links, what a search finds depends on the tiling, and none of it can be said
by way of `Starts` and `Chain`, which are what a walk of so many turns finds. The invariant says instead that there is a set of blocks `B` that tile the heap (`Tiling`),
the client's among them tagged so that `sf_free` accepts them (`Allocated`), the others free and linked both ways in the list of their class (`Linked`), upward in some rank; that
the run goes on and the heap ends with a page (`HeapOk`); and that the client's blocks have the room it asked for and hold what it wrote (`ClientOk`). The rank is there because
without one a ring that hangs off no head would be linked as well.

Each part of the C functions has its lemma, which says what it makes of `B` and of the rank: `TakeOk` of the block taken and split, `FreeOk` of `sf_free`, `MallocOk`, `ReallocOk`.
A loop that merges is followed with one free block in the tiling that is in no list and whose tags are not yet written (`Loose`); every turn leaves one such block, a longer one, so
the number of turns does not matter (`Gathering`, `Stacking`). A search ends because it climbs in rank and a heap has at most `MaxBlocks` blocks (`FewBlocks`). A split without a slip
undoes links that change nothing: the `prev` of the rest is NULL and its `next` the head of the list, which is what the code needs and does not see to. In the end `Starts` is read off as `B` and `brk` (`StartsAre`), by
induction from the left, and a `Chain` as the listed blocks of its class (`ChainEnds`, `ChainIsAll`): the smallest rank it does not meet would have a `prev` that it meets.

TLC checked the inductive invariants on the instance of their runs before they were proved; for `Sfmm` with the blocks that `Starts` finds for the set `B` and
the place in the list for the rank. That of `ConverterProofs` speaks of infinite sets of pieces, and TLC checked the three properties that follow from it. The theorems state `Spec`; `FairSpec`, which `cream` runs, implies it.

Only model-checked, and why:

* Every liveness property (`EveryItemLeaves`, `WritersFinish`, `ConnectionsAreClosed`, those of `Shell` and `Pipeline`): fairness and ENABLED are beyond the prover.
* `Ciphers`: a round trip goes through two processes, tables filled in place from a key, and folds over the text; `PolybiusIsKept` and `MorseIsKept` say of the output which texts come back, by induction over
  all of these, which for the tables needs to know what the eight characters of the buffer can be after any text. They are checked at the boundaries of the tables.
* In `Pipeline`, when a job and its stages end (`JobEnds`, `StagesEnd`). What these rest on is proved: `InputsEnd` for the end of the input, `NoWriteFails` for the
  stage that never ends, `LastOneEnds` for the wait.

## What is not modelled, and why

* Failing `calloc`, `malloc`, `pthread_create` and `sem_init`: the code does not handle them; each
  would end in the first dereference.
* Null arguments (`EINVAL`): a test of one line at the top of each function that changes no state, and no caller passes them.
* The hash itself: `Home` is any function. The layout of bytes in keys, and that `strcmp` runs past keys that are not terminated: keys are abstract values.
* Interrupted system calls, partial writes that are resumed: `rio_readn` and `rio_writen` hide them.
* The rest of `csapp.c`: textbook wrappers that no program here calls.
* The command line of each program; `extracredit.c`, whose functions are stubs; hw0.
* Requests of other than whole words in the allocator: the words tell padding and splinters apart, which is what bytes
  would. `sf_sbrk` and `sf_mem_init` are in an object file without source; the heap is taken as a fixed number of pages that start as zeros.
* Wrong pointers given to `sf_free` and `sf_realloc`: the client of `Sfmm` has none.
* Shell: a failing `fork()` or `pipe()`; process ids that come round again (then `kill(pid, 0)` would find a stranger); a child that another program continues; the settings of the terminal, the prompt and colours; the directories of `cd` and `pwd`, which nothing else reads;
  `kill` without an argument, which tests an uninitialised variable and at most prints a wrong message. A job is one process for the shell:
  stages outside its process group (`SetPgid` comes late) are seen in `Pipeline` only.
* Pipeline: `>` before `<` on one stage (`a > x < y`), where the input is opened after the program has run and copied to the output;
  a line that ends in an empty stage; the exit status, which changes nothing but that of the job.
* Converter: failing reads and writes, input that is not well-formed but for its last byte or a missing mark, a big-endian host, messages.
* Ciphers: characters above 127; decrypting what no encryption made, but for two lines of the instance; outcomes of reads behind the tables ("lost").

## Where code and documentation differ, without a run

Met while modelling, and part of the models as the code has it:

* `queue.h:60-61` says `dequeue` returns NULL for an empty queue; it waits (`queue.c:69`), also after `invalidate_queue`.
* `hashmap.h:77-78` says `get` returns the corresponding value; overtaken by a writer it may return another key's (`hashmap.c:51`; `HashMap`'s `raced`).
* `cream.c:34` says NUM_WORKERS threads service requests; a bad request or broken connection ends a worker for good (`cream.c:104`; `Broken`).
* `cream.h:29` lists the response codes; a size below the minimum is answered with the request header (`cream.c:118`; `Refuse`).
* `utf.h:171-172` says the output contains a byte order mark; UTF-8 output has none (`utf8.c`'s mark is commented out in `utf16le.c:55`), UTF-16 output has two.
* From UTF-16BE to UTF-16LE the mark's bytes are written in place of every unit (`utf16be.c:31`; `BeToLeUnit`).
* `hw1.c:22-24` says that of rows and columns the one given is kept; the other one is then left at 0 and the arguments are rejected (`hw1.c:111-124`).
  `const.h:48-51` says rows and columns are between 10 and 16; 9 to 15 are accepted (`hw1.c:82`).
  `const.c:5-6` says characters outside the alphabet are preserved; the search runs past the table (`hw1.c:210`).

## Plan

Done, in the order of importance: queue, map, server, the proofs about the queue, the allocator, the shell with its proofs, the inside
of a job, the converter with its proofs, the ciphers, the proofs about the table, the map, the server, the pipeline and the allocator. What is left:

1. The shell with two processes to a job, so that a stage outside the process group is missed by `fg` and `kill` (main.c:503).
2. An abstract table of jobs (running, stopped, gone) that `Shell` implements up to `taken`.
