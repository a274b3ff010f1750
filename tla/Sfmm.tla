-------------------------------- MODULE Sfmm --------------------------------
(***************************************************************************)
(* hw3/src/sfmm.c: sf_malloc(), sf_realloc() and sf_free() on a heap of    *)
(* words.  A word is 8 bytes: a header, a footer, a next or prev pointer,  *)
(* or what the client wrote.  The heap starts at address 0, a block at an  *)
(* even address, and block sizes are in units of two words, as in the      *)
(* code.                                                                   *)
(*                                                                         *)
(* The links of a free block lie where the payload was, so a block that is *)
(* split off has the links its words happen to be.  Where the code follows *)
(* a word that is no pointer, or takes one that is no header for a header, *)
(* the program is at the mercy of what is there: "wild" ends the run.      *)
(***************************************************************************)
EXTENDS Integers, SequencesExt, FiniteSetsExt, Functions

CONSTANTS PageWords,   \* PAGE_SZ
          MaxPages,    \* the pages sf_sbrk() has, 4 in the code
          ListMax,     \* the maxima of the four lists
          Sizes,       \* the sizes clients ask for
          MaxCalls,    \* bound on the calls
          Fills        \* what clients write: Data, or Zero, which is NULL too

Lists == 1 .. 4
MaxWords == PageWords * MaxPages

ASSUME PageAssumption == PageWords \in Nat /\ PageWords % 2 = 0 /\ PageWords >= 4
ASSUME PagesAssumption == MaxPages \in Nat
ASSUME ListMaxAssumption == /\ ListMax \in [Lists -> Nat]
                            /\ \A l \in 1 .. 3 : ListMax[l] < ListMax[l + 1]
                            /\ ListMax[3] < PageWords
                            /\ ListMax[4] >= 2 * MaxWords
ASSUME SizesAssumption == Sizes \subseteq Nat
ASSUME CallsAssumption == MaxCalls \in Nat

\* n: the size in a header or footer, or the address in a pointer
Word(kind, n, alloc, padded, req) ==
    [kind |-> kind, n |-> n, alloc |-> alloc, padded |-> padded, req |-> req]
Meta(n, alloc, padded, req) == Word("meta", n, alloc, padded, req)
Ptr(a) == Word("ptr", a, FALSE, FALSE, 0)
Zero == Meta(0, FALSE, FALSE, 0)
Data == Word("data", 0, FALSE, FALSE, 0)

ASSUME FillsAssumption == Fills \subseteq {Zero, Data}

VARIABLES mem,         \* the heap, address -> word
          head,        \* seg_free_list: list -> the word in its head
          brk,         \* get_heap_end()
          end,         \* "none", "abort", "wild" or "hang": what ended the run
          errno,       \* sf_errno
          live,        \* the client's blocks: block -> the size it asked for
          data,        \* history: block -> what the client's payload holds
          slip,        \* history: have links that were none been followed?
          calls        \* the calls so far

vars == <<mem, head, brk, end, errno, live, data, slip, calls>>

\* A call is carried out on the state of the allocator as one value.
State == [mem |-> mem, head |-> head, brk |-> brk, end |-> end, slip |-> slip]

Init == /\ mem = [a \in 0 .. MaxWords - 1 |-> Zero]
        /\ head = [l \in Lists |-> Zero]
        /\ brk = 0
        /\ end = "none"
        /\ errno = "none"
        /\ live = <<>>
        /\ data = <<>>
        /\ slip = FALSE
        /\ calls = 0
-----------------------------------------------------------------------------
(* Words, pointers and blocks                                              *)

\* History: the lists were treated as they are not.
Slip(S, wrong) == [S EXCEPT !.slip = S.slip \/ wrong]

Fail(S, how) == IF S.end = "none" THEN [S EXCEPT !.end = how] ELSE S

SetMem(S, m) == [S EXCEPT !.mem = m]

\* A field of the block a word points to is written.
SetField(S, w, offset, v) == IF w.kind = "ptr"
                             THEN SetMem(S, [S.mem EXCEPT ![w.n + offset] = v])
                             ELSE Fail(S, "wild")
SetNext(S, w, v) == SetField(S, w, 1, v)
SetPrev(S, w, v) == SetField(S, w, 2, v)
SetHead(S, l, w) == [S EXCEPT !.head[l] = w]
Next_(S, b) == S.mem[b + 1]
Prev(S, b) == S.mem[b + 2]

\* Is there a header at b?
IsBlock(S, b) == S.mem[b].kind = "meta" /\ S.mem[b].n > 0

\* Faulty variant: the allocated bit is not looked at.
IsAny(S, b) == IsBlock(S, b)

IsFree(S, b) == IsBlock(S, b) /\ ~S.mem[b].alloc
Footer(S, b) == b + 2 * S.mem[b].n - 1

\* Header and footer of a free block.  What the code leaves of their other
\* fields is not read before it is written.
MakeFree(S, b, n) ==
    SetMem(S, [S.mem EXCEPT ![b] = Meta(n, FALSE, FALSE, 0),
                            ![b + 2 * n - 1] = Meta(n, FALSE, FALSE, 0)])

\* Faulty variant: the requested size is scaled as block sizes are.
MakeLiveScaled(S, b, n, padded, size) ==
    SetMem(S, [S.mem EXCEPT ![b] = Meta(n, TRUE, padded, 0),
                            ![b + 2 * n - 1] = Meta(n, TRUE, padded, 16 * size)])

MakeLive(S, b, n, padded, size) ==
    SetMem(S, [S.mem EXCEPT ![b] = Meta(n, TRUE, padded, 0),
                            ![b + 2 * n - 1] = Meta(n, TRUE, padded, size)])

\* The list for a block of n units: its maximum is inclusive here.
ListOf(n) == Min({l \in Lists : ListMax[l] >= 2 * n})

\* Faulty variant: the old head does not point back.
PushOneWay(S, b, l) == SetHead(SetNext(S, Ptr(b), S.head[l]), l, Ptr(b))

\* Put the block first in list l; its own prev is left as it is.
PushOn(S, b, l) ==
    SetHead(SetNext(IF S.head[l] = Zero THEN S ELSE SetPrev(S, S.head[l], Ptr(b)),
                    Ptr(b), S.head[l]),
            l, Ptr(b))
Push(S, b) == PushOn(S, b, ListOf(S.mem[b].n))

\* What is before and behind b is linked past it; if nothing seems to be before
\* it, it is taken for the head of list l.
LinkBack(S, next, back) == IF next = Zero THEN S ELSE SetPrev(S, next, back)
LinkNext(S, prev, next, l) == IF prev = Zero THEN SetHead(S, l, next)
                              ELSE SetNext(S, prev, next)
Detach(S, b, l, back) ==
    LinkBack(LinkNext(S, Prev(S, b), Next_(S, b), l), Next_(S, b), back)

ClearLinks(S, b) == SetPrev(SetNext(S, Ptr(b), Zero), Ptr(b), Zero)

\* sf_malloc() takes a block out of the list it was found in.
Unlink(S, b, l) == ClearLinks(Detach(S, b, l, Prev(S, b)), b)

\* The links a split-off block happens to have are undone in the list its other
\* half was in: a slip if there are any, or others in that list.
UnlinkRest(S, b, l) ==
    Slip(ClearLinks(Detach(S, b, l, Zero), b),
         Prev(S, b) # Zero \/ Next_(S, b) # S.head[l])

\* A block of have units that is merged with a neighbour is taken out of the list
\* for n units, and its links stay where they are: a slip if it is the head of
\* another list.
UnlinkMerged(S, b, have, n) ==
    Slip(Detach(S, b, ListOf(n), Prev(S, b)),
         Prev(S, b) = Zero /\ ListOf(n) # ListOf(have))

\* while(More(x)) x = Step(x), which turns n times at most.
While(n, More(_), Step(_), x) ==
    LET turn[k \in 0 .. n] ==
            IF k = 0 THEN x
            ELSE LET y == turn[k - 1] IN IF More(y) THEN Step(y) ELSE y
    IN  turn[n]

MaxBlocks == MaxWords \div 4
-----------------------------------------------------------------------------
(* sf_malloc()                                                             *)

\* The units a request takes, and whether they are more than it needs.
Units(size) == (size + 3) \div 2
Padded(size) == size % 2 = 1

\* Faulty variant: blocks of one unit are split off.
NoSplinter(have, need) == FALSE

\* One unit is too small to be a block and stays with the block.
Splinter(have, need) == have - need = 1
Given(have, need) == IF Splinter(have, need) THEN have ELSE need

\* Along the list from its head: the word the search of list l ends at, NULL, a
\* block that fits or something that is no block.
Fits(S, b, size) == IsFree(S, b) /\ S.mem[b].n >= Units(size)
Search(S, l, size) ==
    While(MaxBlocks,
          LAMBDA w : w.kind = "ptr" /\ IsBlock(S, w.n) /\ ~Fits(S, w.n, size),
          LAMBDA w : Next_(S, w.n),
          S.head[l])

\* The lists that are searched: here their maximum is exclusive.
Searched(size) == {l \in Lists : ListMax[l] > 2 * Units(size)}
Hits(S, size) == {l \in Searched(size) : Search(S, l, size) # Zero}

\* A request takes n units of the block at b, which was found in list l and has
\* some more; they become a block of their own.
Split(S, l, b, have, n, padded, size) ==
    IF have = n THEN MakeLive(S, b, n, padded, size)
    ELSE Push(UnlinkRest(MakeFree(MakeLive(S, b, n, padded, size), b + 2 * n, have - n),
                         b + 2 * n, l),
              b + 2 * n)
Take(S, l, b, have, size) ==
    Split(Unlink(S, b, l), l, b, have, Given(have, Units(size)),
          Padded(size) \/ Splinter(have, Units(size)), size)

\* The page that starts at the old end of the heap is merged with the free blocks
\* before it, all but the first of the heap, and becomes a free block, first in its
\* list whatever its prev is: a slip if that is not NULL.
Before(S, b) == b - 2 * S.mem[b - 1].n
Page(S, at, n) == [S |-> S, at |-> at, n |-> n, prev |-> Before(S, at)]
Merged(S, p, have, n) == Page(UnlinkMerged(MakeFree(S, p, n), p, have, n), p, n)
MergeBack(x) == Merged(x.S, x.prev, x.S.mem[x.prev].n, x.S.mem[x.prev].n + x.n)
AddPage(x) ==
    IF x.prev > 0 /\ ~IsBlock(x.S, x.prev) THEN Fail(x.S, "wild")
    ELSE Slip(Push(MakeFree(x.S, x.at, x.n), x.at), Prev(x.S, x.at) # Zero)

Extend(S) ==
    IF S.mem[S.brk - 1].kind # "meta" THEN Fail(S, "wild")
    ELSE AddPage(While(MaxBlocks, LAMBDA y : y.prev > 0 /\ IsFree(y.S, y.prev), MergeBack,
                       Page([S EXCEPT !.brk = S.brk + PageWords], S.brk,
                            PageWords \div 2)))

\* The first call makes the first page one free block.
FirstPage(S) == SetHead(MakeFree([S EXCEPT !.brk = PageWords], 0, PageWords \div 2),
                        4, Ptr(0))

\* Pages are added until a block is found, or something else, or no page is left.
Grow(S, size) ==
    While(MaxPages,
          LAMBDA X : X.end = "none" /\ Hits(X, size) = {} /\ X.brk < MaxWords,
          Extend,
          IF S.brk = 0 THEN FirstPage(S) ELSE S)

\* A call: the state it leaves and the block it returns, or NULL and why.
Result(S, block, why) == [S |-> S, block |-> block, errno |-> why]

\* The search of list l ended at w.
Answer(S, l, w, size) ==
    IF w.kind # "ptr" \/ ~IsBlock(S, w.n) THEN Result(Fail(S, "wild"), Zero, "none")
    ELSE IF ~Fits(S, w.n, size) THEN Result(Fail(S, "hang"), Zero, "none")
    ELSE Result(Take(S, l, w.n, S.mem[w.n].n, size), w, "none")
First(S, hits, size) ==
    IF S.end # "none" THEN Result(S, Zero, "none")
    ELSE IF hits = {} THEN Result(S, Zero, "ENOMEM")
    ELSE Answer(S, Min(hits), Search(S, Min(hits), size), size)
Allocate(S, size) == First(S, Hits(S, size), size)
sf_malloc(S, size) == IF size = 0 \/ size > MaxWords THEN Result(S, Zero, "EINVAL")
                      ELSE Allocate(Grow(S, size), size)
-----------------------------------------------------------------------------
(* sf_free() and sf_realloc()                                              *)

\* What the code checks of a block before it aborts.
Sane(S, b) ==
    /\ S.mem[b].alloc
    /\ Footer(S, b) < S.brk
    /\ LET foot == S.mem[Footer(S, b)]
           room == 2 * S.mem[b].n
       IN  /\ foot.alloc
           /\ foot.padded = S.mem[b].padded
           /\ foot.req + 2 <= room
           /\ (foot.req + 2 = room) = ~foot.padded

\* The free blocks behind are merged, each out of the list for its own size.
MergeNext(x) == LET n == x.S.mem[x.next].n
                IN  [S    |-> UnlinkMerged(x.S, x.next, n, n),
                     n    |-> x.n + n,
                     next |-> x.next + 2 * n]
Release(x, b) ==
    IF x.next < x.S.brk /\ ~IsBlock(x.S, x.next) THEN Fail(x.S, "wild")
    ELSE Push(ClearLinks(MakeFree(x.S, b, x.n), b), b)
sf_free(S, b) ==
    IF ~IsBlock(S, b) THEN Fail(S, "wild")
    ELSE IF ~Sane(S, b) THEN Fail(S, "abort")
    ELSE Release(While(MaxBlocks, LAMBDA y : y.next < y.S.brk /\ IsFree(y.S, y.next),
                       MergeNext,
                       [S |-> MakeFree(S, b, S.mem[b].n), n |-> S.mem[b].n,
                        next |-> Footer(S, b) + 1]),
                 b)

\* The copy starts at the old block's header, not at its payload.
Copy(S, from, to, size) ==
    SetMem(S, [a \in DOMAIN S.mem |-> IF a \in to + 1 .. to + size
                                       THEN S.mem[from + a - (to + 1)]
                                       ELSE S.mem[a]])

\* A larger block: get one, copy, free the old one.
Move(R, b) ==
    IF R.block = Zero THEN R
    ELSE [R EXCEPT !.S = sf_free(Copy(R.S, b, R.block.n, R.S.mem[Footer(R.S, b)].req),
                                 b)]

\* Faulty variant: the size that is left over is not made a requested size.
CutNoRequest(S, b, have, n, padded, size) ==
    IF have = n THEN MakeLive(S, b, n, padded, size)
    ELSE sf_free(MakeLive(MakeLive(S, b, n, padded, size), b + 2 * n, have - n, FALSE,
                          2 * (have - n)),
                 b + 2 * n)

\* A smaller one: what is over becomes a block that is freed.
Cut(S, b, have, n, padded, size) ==
    IF have = n THEN MakeLive(S, b, n, padded, size)
    ELSE sf_free(MakeLive(MakeLive(S, b, n, padded, size), b + 2 * n, have - n, FALSE,
                          2 * (have - n) - 2),
                 b + 2 * n)
Shrink(S, b, have, size) ==
    Cut(S, b, have, Given(have, Units(size)),
        Padded(size) \/ Splinter(have, Units(size)), size)

sf_realloc(S, b, size) ==
    IF size = 0 THEN Result(sf_free(S, b), Zero, errno)
    ELSE IF ~IsBlock(S, b) THEN Result(Fail(S, "wild"), Zero, errno)
    ELSE IF ~Sane(S, b) THEN Result(Fail(S, "abort"), Zero, errno)
    ELSE IF 2 * S.mem[b].n < size + 2 THEN Move(sf_malloc(S, size), b)
    ELSE IF 2 * S.mem[b].n > size + 2
         THEN Result(Shrink(S, b, S.mem[b].n, size), Ptr(b), errno)
    ELSE Result(S, Ptr(b), errno)
-----------------------------------------------------------------------------
(* The client: it frees and resizes only what it holds, and writes all of  *)
(* what it asks for.                                                       *)

Payload(b, size) == b + 1 .. b + size
Contents(m, b, size) == [i \in 1 .. size |-> m[b + i]]
Drop(f, b) == [c \in DOMAIN f \ {b} |-> f[c]]
With(f, b, v) == [c \in DOMAIN f \cup {b} |-> IF c = b THEN v ELSE f[c]]

\* What the call makes of the allocator, after which the client writes.
After(R, m) == /\ mem' = m
               /\ head' = R.S.head
               /\ brk' = R.S.brk
               /\ end' = R.S.end
               /\ slip' = R.S.slip
               /\ errno' = R.errno
               /\ calls' = calls + 1

Filled(R, size, fill) == [a \in DOMAIN mem |-> IF a \in Payload(R.block.n, size)
                                               THEN fill ELSE R.S.mem[a]]
Got(R, size) == IF R.block = Zero
                THEN After(R, R.S.mem) /\ UNCHANGED <<live, data>>
                ELSE \E fill \in Fills :
                        /\ After(R, Filled(R, size, fill))
                        /\ live' = With(live, R.block.n, size)
                        /\ data' = With(data, R.block.n, [i \in 1 .. size |-> fill])
Malloc(size) == \E R \in {sf_malloc(State, size)} : Got(R, size)

Free(b) == /\ b \in DOMAIN live
           /\ \E S \in {sf_free(State, b)} : After(Result(S, Zero, errno), S.mem)
           /\ live' = Drop(live, b)
           /\ data' = Drop(data, b)

\* What the client goes by: what it wrote if the block is where it was, else what
\* it finds in the new one.
Carried(m, b, c, size) ==
    [i \in 1 .. size |-> IF c = b /\ i <= live[b] THEN data[b][i] ELSE m[c + i]]

\* A call that fails leaves the old block to the client.
Resized(R, b, size) ==
    /\ After(R, R.S.mem)
    /\ CASE R.block # Zero -> /\ live' = With(Drop(live, b), R.block.n, size)
                              /\ data' = With(Drop(data, b), R.block.n,
                                              Carried(R.S.mem, b, R.block.n, size))
         [] R.block = Zero /\ size = 0 -> live' = Drop(live, b) /\ data' = Drop(data, b)
         [] OTHER -> UNCHANGED <<live, data>>
Realloc(b, size) == /\ b \in DOMAIN live
                    /\ \E R \in {sf_realloc(State, b, size)} : Resized(R, b, size)

Next == /\ end = "none"
        /\ calls < MaxCalls
        /\ \/ \E size \in Sizes : Malloc(size)
           \/ \E b \in DOMAIN live : Free(b)
           \/ \E b \in DOMAIN live, size \in Sizes : Realloc(b, size)

Spec == Init /\ [][Next]_vars
-----------------------------------------------------------------------------
Words == [kind : {"meta"}, n : 0 .. MaxWords \div 2, alloc : BOOLEAN, padded : BOOLEAN,
          req : 0 .. MaxWords]
         \cup {Ptr(a) : a \in 0 .. MaxWords - 1} \cup {Data}

\* As long as there was no slip, the type of every variable: no word is larger than
\* the heap, and no pointer leads out of it.
TypeOK == ~slip =>
    /\ mem \in [0 .. MaxWords - 1 -> Words]
    /\ head \in [Lists -> Words]
    /\ brk \in {p * PageWords : p \in 0 .. MaxPages}
    /\ end \in {"none", "abort", "wild", "hang"}
    /\ errno \in {"none", "EINVAL", "ENOMEM"}
    /\ DOMAIN live \subseteq 0 .. MaxWords - 1
    /\ DOMAIN data = DOMAIN live
    /\ \A b \in DOMAIN live : /\ live[b] \in Sizes
                             /\ data[b] \in Seq(Words) /\ Len(data[b]) = live[b]
    /\ calls \in 0 .. MaxCalls

\* The addresses at which the blocks start, one behind the other.
Starts == LET start[k \in 0 .. MaxBlocks] ==
                 IF k = 0 THEN {0}
                 ELSE LET known == start[k - 1]
                      IN  known \cup {b + 2 * mem[b].n : b \in {c \in known : c < brk}}
          IN  start[MaxBlocks]
Blocks == Starts \ {brk}
FreeBlocks == {b \in Blocks : ~mem[b].alloc}

\* The list as the links have it, up to its end.
Chain(l) ==
    LET link[k \in 0 .. MaxBlocks] ==
            IF k = 0 THEN <<head[l]>>
            ELSE LET c == link[k - 1]
                 IN  IF Last(c).kind = "ptr" THEN Append(c, mem[Last(c).n + 1]) ELSE c
    IN  link[MaxBlocks]

\* As long as there was no slip, the blocks fill the heap from its start to its end,
\* the sizes in header and footer agree and exactly the client's are allocated
\* (sfmm.c:106-139, 194-225, 341-397).
HeapIsTiled == ~slip =>
    /\ brk \in Starts
    /\ \A b \in Starts : b <= brk
    /\ \A b \in Blocks :
          /\ IsBlock(State, b)
          /\ mem[Footer(State, b)].kind = "meta"
          /\ mem[Footer(State, b)].n = mem[b].n
          /\ mem[b].alloc = (b \in DOMAIN live)

\* As long as there was no slip, every free block is in the list for its size and
\* nothing else is, and the lists can be walked both ways (sfmm.c:92-102, 155-170,
\* 205-231, 362-406).
ListsAreFree == ~slip => \A l \in Lists :
    LET c == Chain(l)
        at == [i \in 1 .. Len(c) - 1 |-> c[i].n]
    IN  /\ Last(c) = Zero
        /\ IsInjective(at)
        /\ Range(at) = {b \in FreeBlocks : ListOf(mem[b].n) = l}
        /\ \A i \in DOMAIN at : mem[at[i] + 2] = IF i = 1 THEN Zero ELSE Ptr(at[i - 1])

Kept == \A b \in DOMAIN live : Contents(mem, b, live[b]) = data[b]

\* As long as there was no slip, no call changes what the client wrote to a block it
\* holds, whatever is split, merged or cut next to it (sfmm.c:92-171, 296-317).
PayloadKept == ~slip => Kept

\* As long as there was no slip, a client that frees only what it holds is never
\* aborted, and no search follows a wrong word or goes in circles
\* (sfmm.c:87-180, 248-263, 336-354).
ClientsGoOn == ~slip => end = "none"

\* What sfmm.h:122-123 says of sf_malloc(): it returns a valid region of the requested
\* size; so the words in it are the client's until it is freed.
RegionIsValid == Kept

\* The states from which a run that asks only of slipless ones has to go on.
NoSlip == ~slip
=============================================================================
