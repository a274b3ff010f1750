----------------------------- MODULE SfmmProofs -----------------------------
(***************************************************************************)
(* The heap of Sfmm for pages of any size, as many as there are, any lists *)
(* and any calls.                                                          *)
(***************************************************************************)
EXTENDS Sfmm, NaturalsInduction, WellFoundedInduction, FiniteSetTheorems, TLAPS

-----------------------------------------------------------------------------
(* The state of the allocator as a value: what each operation makes of its *)
(* fields, and that a slip is never taken back.                            *)

IsState(S) == /\ S = [mem |-> S.mem, head |-> S.head, brk |-> S.brk, end |-> S.end,
                      slip |-> S.slip]
              /\ S.slip \in BOOLEAN

\* T is a state that comes after S: it has the slips of S.
Later(S, T) == IsState(T) /\ (S.slip => T.slip)

Put(f, x, v) == [f EXCEPT ![x] = v]

LEMMA SetMemIs ==
    ASSUME NEW S, IsState(S), NEW m
    PROVE  LET T == SetMem(S, m)
           IN  /\ IsState(T) /\ T.mem = m
               /\ T.head = S.head /\ T.brk = S.brk /\ T.end = S.end /\ T.slip = S.slip
BY DEF IsState, SetMem

LEMMA SetHeadIs ==
    ASSUME NEW S, IsState(S), NEW l, NEW w
    PROVE  LET T == SetHead(S, l, w)
           IN  /\ IsState(T) /\ T.head = Put(S.head, l, w)
               /\ T.mem = S.mem /\ T.brk = S.brk /\ T.end = S.end /\ T.slip = S.slip
BY DEF IsState, SetHead, Put

LEMMA SetBrkIs ==
    ASSUME NEW S, IsState(S), NEW e
    PROVE  LET T == [S EXCEPT !.brk = e]
           IN  /\ IsState(T) /\ T.brk = e
               /\ T.mem = S.mem /\ T.head = S.head /\ T.end = S.end /\ T.slip = S.slip
BY DEF IsState

LEMMA SlipIs ==
    ASSUME NEW S, IsState(S), NEW wrong \in BOOLEAN
    PROVE  LET T == Slip(S, wrong)
           IN  /\ IsState(T) /\ (T.slip <=> S.slip \/ wrong)
               /\ T.mem = S.mem /\ T.head = S.head /\ T.brk = S.brk /\ T.end = S.end
BY DEF IsState, Slip

LEMMA FailIs ==
    ASSUME NEW S, IsState(S), NEW how
    PROVE  IsState(Fail(S, how)) /\ Fail(S, how).slip = S.slip
BY DEF IsState, Fail

LEMMA SetFieldIs ==
    ASSUME NEW S, IsState(S), NEW w, NEW offset, NEW v
    PROVE  LET T == SetField(S, w, offset, v)
           IN  /\ IsState(T) /\ T.slip = S.slip
               /\ w.kind = "ptr" =>
                     /\ T.mem = Put(S.mem, w.n + offset, v)
                     /\ T.head = S.head /\ T.brk = S.brk /\ T.end = S.end
BY SetMemIs, FailIs DEF SetField, Put

LEMMA SetNextIs ==
    ASSUME NEW S, IsState(S), NEW w, NEW v
    PROVE  LET T == SetNext(S, w, v)
           IN  /\ IsState(T) /\ T.slip = S.slip
               /\ w.kind = "ptr" =>
                     /\ T.mem = Put(S.mem, w.n + 1, v)
                     /\ T.head = S.head /\ T.brk = S.brk /\ T.end = S.end
BY SetFieldIs DEF SetNext

LEMMA SetPrevIs ==
    ASSUME NEW S, IsState(S), NEW w, NEW v
    PROVE  LET T == SetPrev(S, w, v)
           IN  /\ IsState(T) /\ T.slip = S.slip
               /\ w.kind = "ptr" =>
                     /\ T.mem = Put(S.mem, w.n + 2, v)
                     /\ T.head = S.head /\ T.brk = S.brk /\ T.end = S.end
BY SetFieldIs DEF SetPrev

\* The memory with the header and footer of a free block.
FreeTag(n) == Meta(n, FALSE, FALSE, 0)
FreeMem(m, b, n) == Put(Put(m, b, FreeTag(n)), b + 2 * n - 1, FreeTag(n))

LEMMA MakeFreeIs ==
    ASSUME NEW S, IsState(S), NEW b, NEW n
    PROVE  LET T == MakeFree(S, b, n)
           IN  /\ IsState(T) /\ T.mem = FreeMem(S.mem, b, n)
               /\ T.head = S.head /\ T.brk = S.brk /\ T.end = S.end /\ T.slip = S.slip
BY SetMemIs DEF MakeFree, FreeMem, FreeTag, Put

LiveTag(n, padded, size) == Meta(n, TRUE, padded, size)
LiveMem(m, b, n, padded, size) ==
    Put(Put(m, b, LiveTag(n, padded, 0)), b + 2 * n - 1, LiveTag(n, padded, size))

LEMMA MakeLiveIs ==
    ASSUME NEW S, IsState(S), NEW b, NEW n, NEW padded, NEW size
    PROVE  LET T == MakeLive(S, b, n, padded, size)
           IN  /\ IsState(T) /\ T.mem = LiveMem(S.mem, b, n, padded, size)
               /\ T.head = S.head /\ T.brk = S.brk /\ T.end = S.end /\ T.slip = S.slip
BY SetMemIs DEF MakeLive, LiveMem, LiveTag, Put

LEMMA PtrIs == \A a : Ptr(a).kind = "ptr" /\ Ptr(a).n = a
BY DEF Ptr, Word

LEMMA ZeroIs == Zero.kind = "meta" /\ Zero.n = 0
BY DEF Zero, Meta, Word

LEMMA PtrsDiffer == \A a : Ptr(a) # Zero /\ \A c : Ptr(a) = Ptr(c) => a = c
BY PtrIs, ZeroIs

LEMMA ClearLinksIs ==
    ASSUME NEW S, IsState(S), NEW b
    PROVE  LET T == ClearLinks(S, b)
           IN  /\ IsState(T) /\ T.mem = Put(Put(S.mem, b + 1, Zero), b + 2, Zero)
               /\ T.head = S.head /\ T.brk = S.brk /\ T.end = S.end /\ T.slip = S.slip
<1> DEFINE R == SetNext(S, Ptr(b), Zero)
<1>1. /\ IsState(R) /\ R.mem = Put(S.mem, b + 1, Zero)
      /\ R.head = S.head /\ R.brk = S.brk /\ R.end = S.end /\ R.slip = S.slip
  BY SetNextIs, PtrIs
<1> HIDE DEF R
<1>2. LET T == SetPrev(R, Ptr(b), Zero)
      IN /\ IsState(T) /\ T.mem = Put(R.mem, b + 2, Zero)
         /\ T.head = R.head /\ T.brk = R.brk /\ T.end = R.end /\ T.slip = R.slip
  BY <1>1, SetPrevIs, PtrIs
<1> QED
  BY <1>1, <1>2 DEF ClearLinks, R

LEMMA PushIs ==
    ASSUME NEW S, IsState(S), NEW b
    PROVE  LET T == Push(S, b)
               l == ListOf(S.mem[b].n)
               w == S.head[l]
           IN  /\ IsState(T) /\ T.slip = S.slip
               /\ w = Zero \/ w.kind = "ptr" =>
                     /\ T.mem = Put(IF w = Zero THEN S.mem ELSE Put(S.mem, w.n + 2, Ptr(b)),
                                 b + 1, w)
                     /\ T.head = Put(S.head, l, Ptr(b))
                     /\ T.brk = S.brk /\ T.end = S.end
<1> DEFINE l == ListOf(S.mem[b].n)
           w == S.head[l]
           Q == IF w = Zero THEN S ELSE SetPrev(S, w, Ptr(b))
           R == SetNext(Q, Ptr(b), w)
           T == SetHead(R, l, Ptr(b))
<1>1. /\ IsState(Q) /\ Q.slip = S.slip
      /\ w = Zero \/ w.kind = "ptr" =>
            /\ Q.mem = IF w = Zero THEN S.mem ELSE Put(S.mem, w.n + 2, Ptr(b))
            /\ Q.head = S.head /\ Q.brk = S.brk /\ Q.end = S.end
  BY SetPrevIs
<1>2. Push(S, b) = T
  BY DEF Push, PushOn
<1> HIDE DEF Q
<1>3. /\ IsState(R) /\ R.slip = Q.slip /\ R.mem = Put(Q.mem, b + 1, w)
      /\ R.head = Q.head /\ R.brk = Q.brk /\ R.end = Q.end
  BY <1>1, SetNextIs, PtrIs
<1> HIDE DEF R, w, l
<1>4. /\ IsState(T) /\ T.slip = R.slip /\ T.head = Put(R.head, l, Ptr(b))
      /\ T.mem = R.mem /\ T.brk = R.brk /\ T.end = R.end
  BY <1>3, SetHeadIs
<1> HIDE DEF T
<1>5. /\ IsState(T) /\ T.slip = S.slip
      /\ w = Zero \/ w.kind = "ptr" =>
            /\ T.mem = Put(IF w = Zero THEN S.mem ELSE Put(S.mem, w.n + 2, Ptr(b)), b + 1, w)
            /\ T.head = Put(S.head, l, Ptr(b))
            /\ T.brk = S.brk /\ T.end = S.end
  BY <1>1, <1>3, <1>4
<1> QED
  BY <1>2, <1>5 DEF w, l

\* prev and next are pointers or NULL.
LEMMA DetachIs ==
    ASSUME NEW S, IsState(S), NEW b, NEW l, NEW back
    PROVE  LET T == Detach(S, b, l, back)
               p == Prev(S, b)
               c == Next_(S, b)
           IN  /\ IsState(T) /\ T.slip = S.slip
               /\ (p = Zero \/ p.kind = "ptr") /\ (c = Zero \/ c.kind = "ptr") =>
                     /\ T.mem = LET m == IF p = Zero THEN S.mem
                                         ELSE Put(S.mem, p.n + 1, c)
                                IN  IF c = Zero THEN m ELSE Put(m, c.n + 2, back)
                     /\ T.head = IF p = Zero THEN Put(S.head, l, c) ELSE S.head
                     /\ T.brk = S.brk /\ T.end = S.end
<1> DEFINE p == Prev(S, b)
           c == Next_(S, b)
           R == LinkNext(S, p, c, l)
           T == LinkBack(R, c, back)
<1>2. Detach(S, b, l, back) = T
  BY DEF Detach
<1> HIDE DEF p, c
<1>1. /\ IsState(R) /\ R.slip = S.slip
      /\ p = Zero \/ p.kind = "ptr" =>
            /\ R.mem = IF p = Zero THEN S.mem ELSE Put(S.mem, p.n + 1, c)
            /\ R.head = IF p = Zero THEN Put(S.head, l, c) ELSE S.head
            /\ R.brk = S.brk /\ R.end = S.end
  BY SetNextIs, SetHeadIs DEF LinkNext
<1> HIDE DEF R
<1>3. /\ IsState(T) /\ T.slip = R.slip
      /\ c = Zero \/ c.kind = "ptr" =>
            /\ T.mem = IF c = Zero THEN R.mem ELSE Put(R.mem, c.n + 2, back)
            /\ T.head = R.head /\ T.brk = R.brk /\ T.end = R.end
  BY <1>1, SetPrevIs DEF LinkBack
<1> HIDE DEF T
<1>4. /\ IsState(T) /\ T.slip = S.slip
      /\ (p = Zero \/ p.kind = "ptr") /\ (c = Zero \/ c.kind = "ptr") =>
            /\ T.mem = LET m == IF p = Zero THEN S.mem ELSE Put(S.mem, p.n + 1, c)
                       IN  IF c = Zero THEN m ELSE Put(m, c.n + 2, back)
            /\ T.head = IF p = Zero THEN Put(S.head, l, c) ELSE S.head
            /\ T.brk = S.brk /\ T.end = S.end
  BY <1>1, <1>3
<1> QED
  BY <1>2, <1>4 DEF p, c
-----------------------------------------------------------------------------
(* Loops                                                                   *)

\* A nonempty set of natural numbers has a smallest element.
LEMMA SmallestExists ==
    ASSUME NEW S \in SUBSET Nat, S # {}
    PROVE  \E d \in S : \A e \in S : d <= e
<1> DEFINE Less == {ss \in Nat \X Nat : ss[1] < ss[2]}
<1>1. IsWellFoundedOn(Less, Nat)
  BY NatLessThanWellFounded DEF OpToRel
<1>2. PICK d \in S : \A e \in S : <<e, d>> \notin Less
  <2> HIDE DEF Less
  <2> QED
    BY <1>1, WFMin
<1>3. \A e \in S : d <= e
  <2> TAKE e \in S
  <2>1. e \in Nat /\ d \in Nat /\ ~(e < d)
    BY <1>2
  <2> QED
    BY <2>1
<1> QED
  BY <1>3

\* Induction with the set of the numbers for which the claim holds.
LEMMA SetInduction ==
    ASSUME NEW S, 0 \in S, \A n \in Nat : n \in S => n + 1 \in S
    PROVE  \A n \in Nat : n \in S
<1> SUFFICES ASSUME ~ \A n \in Nat : n \in S
             PROVE  FALSE
  OBVIOUS
<1> DEFINE Bad == {n \in Nat : n \notin S}
<1>1. PICK d \in Bad : \A e \in Bad : d <= e
  <2>1. Bad \in SUBSET Nat /\ Bad # {}
    OBVIOUS
  <2> HIDE DEF Bad
  <2> QED
    BY <2>1, SmallestExists
<1>2. d \in Nat /\ d # 0
  OBVIOUS
<1>3. d - 1 \in Nat /\ d - 1 \notin Bad
  BY <1>1, <1>2
<1>4. (d - 1) + 1 \in S
  BY <1>3
<1> QED
  BY <1>2, <1>4

\* Up to a bound.
LEMMA BoundedInduction ==
    ASSUME NEW n \in Nat, NEW S, 0 \in S, \A k \in 0 .. n - 1 : k \in S => k + 1 \in S
    PROVE  n \in S
<1> DEFINE T == {k \in Nat : k <= n => k \in S}
<1>1. 0 \in T
  OBVIOUS
<1>2. \A k \in Nat : k \in T => k + 1 \in T
  OBVIOUS
<1> HIDE DEF T
<1>3. n \in T
  BY <1>1, <1>2, SetInduction
<1> QED
  BY <1>3 DEF T

\* One turn of the loop of sf_free(), and that the loop consists of them.
NextsTurn(y) == IF y.next < y.S.brk /\ IsFree(y.S, y.next) THEN MergeNext(y) ELSE y

LEMMA NextsLoop ==
    ASSUME NEW n \in Nat, NEW x
    PROVE  \E t : /\ t[0] = x
                  /\ \A k \in 0 .. n - 1 : t[k + 1] = NextsTurn(t[k])
                  /\ While(n, LAMBDA y : y.next < y.S.brk /\ IsFree(y.S, y.next), MergeNext, x) = t[n]
<1> DEFINE Upto(k, f) == f = [i \in 0 .. k |-> IF i = 0 THEN x ELSE NextsTurn(f[i - 1])]
           Reached == {k \in Nat : \E f : Upto(k, f)}
<1>1. 0 \in Reached
  <2>1. Upto(0, [i \in 0 .. 0 |-> x])
    OBVIOUS
  <2> QED
    BY <2>1
<1>2. ASSUME NEW k \in Nat, k \in Reached
      PROVE  k + 1 \in Reached
  <2>1. PICK f : Upto(k, f)
    BY <1>2
  <2> DEFINE g == [i \in 0 .. k + 1 |-> IF i <= k THEN f[i] ELSE NextsTurn(f[i - 1])]
  <2>2. \A i \in 0 .. k : f[i] = IF i = 0 THEN x ELSE NextsTurn(f[i - 1])
    BY <2>1
  <2>3. ASSUME NEW i \in 0 .. k + 1
        PROVE  g[i] = IF i = 0 THEN x ELSE NextsTurn(g[i - 1])
    <3>1. CASE i = 0
      BY <3>1, <2>2
    <3>2. CASE i # 0
      <4>1. i - 1 \in 0 .. k /\ g[i - 1] = f[i - 1]
        BY <3>2
      <4>2. g[i] = NextsTurn(f[i - 1])
        BY <3>2, <2>2
      <4> QED
        BY <4>1, <4>2, <3>2
    <3> QED
      BY <3>1, <3>2
  <2>4. g = [i \in 0 .. k + 1 |-> g[i]]
    OBVIOUS
  <2> HIDE DEF g
  <2>5. Upto(k + 1, g)
    BY <2>3, <2>4
  <2> HIDE DEF Upto
  <2> QED
    BY <2>5
<1> HIDE DEF Reached
<1>3. n \in Reached
  BY <1>1, <1>2, SetInduction
<1> DEFINE f == CHOOSE f : Upto(n, f)
<1>4. Upto(n, f)
  BY <1>3 DEF Reached
<1>5. While(n, LAMBDA y : y.next < y.S.brk /\ IsFree(y.S, y.next), MergeNext, x) = f[n]
  BY DEF While, NextsTurn
<1> HIDE DEF f
<1>6. f[0] = x /\ \A k \in 0 .. n - 1 : f[k + 1] = NextsTurn(f[k])
  BY <1>4
<1> QED
  BY <1>5, <1>6

\* The loop of a page that is added.
BacksTurn(y) == IF y.prev > 0 /\ IsFree(y.S, y.prev) THEN MergeBack(y) ELSE y

LEMMA BacksLoop ==
    ASSUME NEW n \in Nat, NEW x
    PROVE  \E t : /\ t[0] = x
                  /\ \A k \in 0 .. n - 1 : t[k + 1] = BacksTurn(t[k])
                  /\ While(n, LAMBDA y : y.prev > 0 /\ IsFree(y.S, y.prev), MergeBack, x) = t[n]
<1> DEFINE Upto(k, f) == f = [i \in 0 .. k |-> IF i = 0 THEN x ELSE BacksTurn(f[i - 1])]
           Reached == {k \in Nat : \E f : Upto(k, f)}
<1>1. 0 \in Reached
  <2>1. Upto(0, [i \in 0 .. 0 |-> x])
    OBVIOUS
  <2> QED
    BY <2>1
<1>2. ASSUME NEW k \in Nat, k \in Reached
      PROVE  k + 1 \in Reached
  <2>1. PICK f : Upto(k, f)
    BY <1>2
  <2> DEFINE g == [i \in 0 .. k + 1 |-> IF i <= k THEN f[i] ELSE BacksTurn(f[i - 1])]
  <2>2. \A i \in 0 .. k : f[i] = IF i = 0 THEN x ELSE BacksTurn(f[i - 1])
    BY <2>1
  <2>3. ASSUME NEW i \in 0 .. k + 1
        PROVE  g[i] = IF i = 0 THEN x ELSE BacksTurn(g[i - 1])
    <3>1. CASE i = 0
      BY <3>1, <2>2
    <3>2. CASE i # 0
      <4>1. i - 1 \in 0 .. k /\ g[i - 1] = f[i - 1]
        BY <3>2
      <4>2. g[i] = BacksTurn(f[i - 1])
        BY <3>2, <2>2
      <4> QED
        BY <4>1, <4>2, <3>2
    <3> QED
      BY <3>1, <3>2
  <2>4. g = [i \in 0 .. k + 1 |-> g[i]]
    OBVIOUS
  <2> HIDE DEF g
  <2>5. Upto(k + 1, g)
    BY <2>3, <2>4
  <2> HIDE DEF Upto
  <2> QED
    BY <2>5
<1> HIDE DEF Reached
<1>3. n \in Reached
  BY <1>1, <1>2, SetInduction
<1> DEFINE f == CHOOSE f : Upto(n, f)
<1>4. Upto(n, f)
  BY <1>3 DEF Reached
<1>5. While(n, LAMBDA y : y.prev > 0 /\ IsFree(y.S, y.prev), MergeBack, x) = f[n]
  BY DEF While, BacksTurn
<1> HIDE DEF f
<1>6. f[0] = x /\ \A k \in 0 .. n - 1 : f[k + 1] = BacksTurn(f[k])
  BY <1>4
<1> QED
  BY <1>5, <1>6

\* The loop that adds pages.
GrowsTurn(y, size) == IF y.end = "none" /\ Hits(y, size) = {} /\ y.brk < MaxWords
                       THEN Extend(y) ELSE y

Growing(n, size, x) ==
    While(n, LAMBDA y : y.end = "none" /\ Hits(y, size) = {} /\ y.brk < MaxWords, Extend, x)

LEMMA GrowsLoop ==
    ASSUME NEW size, NEW n \in Nat, NEW x
    PROVE  \E t : /\ t[0] = x
                  /\ \A k \in 0 .. n - 1 : t[k + 1] = GrowsTurn(t[k], size)
                  /\ Growing(n, size, x) = t[n]
<1> DEFINE Upto(k, f) == f = [i \in 0 .. k |-> IF i = 0 THEN x ELSE GrowsTurn(f[i - 1], size)]
           Reached == {k \in Nat : \E f : Upto(k, f)}
<1>1. 0 \in Reached
  <2>1. Upto(0, [i \in 0 .. 0 |-> x])
    OBVIOUS
  <2> QED
    BY <2>1
<1>2. ASSUME NEW k \in Nat, k \in Reached
      PROVE  k + 1 \in Reached
  <2>1. PICK f : Upto(k, f)
    BY <1>2
  <2> DEFINE g == [i \in 0 .. k + 1 |-> IF i <= k THEN f[i] ELSE GrowsTurn(f[i - 1], size)]
  <2>2. \A i \in 0 .. k : f[i] = IF i = 0 THEN x ELSE GrowsTurn(f[i - 1], size)
    BY <2>1
  <2>3. ASSUME NEW i \in 0 .. k + 1
        PROVE  g[i] = IF i = 0 THEN x ELSE GrowsTurn(g[i - 1], size)
    <3>1. CASE i = 0
      BY <3>1, <2>2
    <3>2. CASE i # 0
      <4>1. i - 1 \in 0 .. k /\ g[i - 1] = f[i - 1]
        BY <3>2
      <4>2. g[i] = GrowsTurn(f[i - 1], size)
        BY <3>2, <2>2
      <4> QED
        BY <4>1, <4>2, <3>2
    <3> QED
      BY <3>1, <3>2
  <2>4. g = [i \in 0 .. k + 1 |-> g[i]]
    OBVIOUS
  <2> HIDE DEF g
  <2>5. Upto(k + 1, g)
    BY <2>3, <2>4
  <2> HIDE DEF Upto
  <2> QED
    BY <2>5
<1> HIDE DEF Reached
<1>3. n \in Reached
  BY <1>1, <1>2, SetInduction
<1> DEFINE f == CHOOSE f : Upto(n, f)
<1>4. Upto(n, f)
  BY <1>3 DEF Reached
<1>5. Growing(n, size, x) = f[n]
  BY DEF While, Growing, GrowsTurn
<1> HIDE DEF f
<1>6. f[0] = x /\ \A k \in 0 .. n - 1 : f[k + 1] = GrowsTurn(f[k], size)
  BY <1>4
<1> QED
  BY <1>5, <1>6

\* The search along a list.
SearchTurn(y, S, size) == IF y.kind = "ptr" /\ IsBlock(S, y.n) /\ ~Fits(S, y.n, size)
                           THEN Next_(S, y.n) ELSE y

Searching(n, S, size, x) ==
    While(n, LAMBDA y : y.kind = "ptr" /\ IsBlock(S, y.n) /\ ~Fits(S, y.n, size),
          LAMBDA y : Next_(S, y.n), x)

LEMMA SearchLoop ==
    ASSUME NEW S, NEW size, NEW n \in Nat, NEW x
    PROVE  \E t : /\ t[0] = x
                  /\ \A k \in 0 .. n - 1 : t[k + 1] = SearchTurn(t[k], S, size)
                  /\ Searching(n, S, size, x) = t[n]
<1> DEFINE Upto(k, f) == f = [i \in 0 .. k |-> IF i = 0 THEN x ELSE SearchTurn(f[i - 1], S, size)]
           Reached == {k \in Nat : \E f : Upto(k, f)}
<1>1. 0 \in Reached
  <2>1. Upto(0, [i \in 0 .. 0 |-> x])
    OBVIOUS
  <2> QED
    BY <2>1
<1>2. ASSUME NEW k \in Nat, k \in Reached
      PROVE  k + 1 \in Reached
  <2>1. PICK f : Upto(k, f)
    BY <1>2
  <2> DEFINE g == [i \in 0 .. k + 1 |-> IF i <= k THEN f[i] ELSE SearchTurn(f[i - 1], S, size)]
  <2>2. \A i \in 0 .. k : f[i] = IF i = 0 THEN x ELSE SearchTurn(f[i - 1], S, size)
    BY <2>1
  <2>3. ASSUME NEW i \in 0 .. k + 1
        PROVE  g[i] = IF i = 0 THEN x ELSE SearchTurn(g[i - 1], S, size)
    <3>1. CASE i = 0
      BY <3>1, <2>2
    <3>2. CASE i # 0
      <4>1. i - 1 \in 0 .. k /\ g[i - 1] = f[i - 1]
        BY <3>2
      <4>2. g[i] = SearchTurn(f[i - 1], S, size)
        BY <3>2, <2>2
      <4> QED
        BY <4>1, <4>2, <3>2
    <3> QED
      BY <3>1, <3>2
  <2>4. g = [i \in 0 .. k + 1 |-> g[i]]
    OBVIOUS
  <2> HIDE DEF g
  <2>5. Upto(k + 1, g)
    BY <2>3, <2>4
  <2> HIDE DEF Upto
  <2> QED
    BY <2>5
<1> HIDE DEF Reached
<1>3. n \in Reached
  BY <1>1, <1>2, SetInduction
<1> DEFINE f == CHOOSE f : Upto(n, f)
<1>4. Upto(n, f)
  BY <1>3 DEF Reached
<1>5. Searching(n, S, size, x) = f[n]
  BY DEF While, Searching, SearchTurn
<1> HIDE DEF f
<1>6. f[0] = x /\ \A k \in 0 .. n - 1 : f[k + 1] = SearchTurn(f[k], S, size)
  BY <1>4
<1> QED
  BY <1>5, <1>6

-----------------------------------------------------------------------------
(* Slips stay, whatever the heap is.                                       *)

LEMMA LaterTrans ==
    ASSUME NEW S, NEW T, NEW U, Later(S, T), Later(T, U)
    PROVE  Later(S, U)
BY DEF Later

LEMMA LaterSame ==
    ASSUME NEW S, IsState(S)
    PROVE  Later(S, S)
BY DEF Later

LEMMA PartsLater ==
    ASSUME NEW S, IsState(S)
    PROVE  /\ \A how : Later(S, Fail(S, how))
           /\ \A b, n : Later(S, MakeFree(S, b, n))
           /\ \A b, n, padded, size : Later(S, MakeLive(S, b, n, padded, size))
           /\ \A b : Later(S, Push(S, b)) /\ Later(S, ClearLinks(S, b))
           /\ \A b, l, back : Later(S, Detach(S, b, l, back))
           /\ \A wrong \in BOOLEAN : Later(S, Slip(S, wrong))
<1>1. \A how : Later(S, Fail(S, how))
  BY FailIs DEF Later
<1>2. \A b, n : Later(S, MakeFree(S, b, n))
  BY MakeFreeIs DEF Later
<1>3. \A b, n, padded, size : Later(S, MakeLive(S, b, n, padded, size))
  BY MakeLiveIs DEF Later
<1>4. \A b : Later(S, Push(S, b))
  BY PushIs DEF Later
<1>5. \A b : Later(S, ClearLinks(S, b))
  BY ClearLinksIs DEF Later
<1>6. \A b, l, back : Later(S, Detach(S, b, l, back))
  BY DetachIs DEF Later
<1>7. \A wrong \in BOOLEAN : Later(S, Slip(S, wrong))
  BY SlipIs DEF Later
<1> QED
  BY <1>1, <1>2, <1>3, <1>4, <1>5, <1>6, <1>7

LEMMA UnlinksLater ==
    ASSUME NEW S, IsState(S), NEW b
    PROVE  /\ \A l : Later(S, Unlink(S, b, l)) /\ Later(S, UnlinkRest(S, b, l))
           /\ \A have, n : Later(S, UnlinkMerged(S, b, have, n))
<1>1. \A l, back : LET T == Detach(S, b, l, back)
                   IN  Later(S, T) /\ Later(S, ClearLinks(T, b))
  BY PartsLater, LaterTrans DEF Later
<1>2. \A l : Later(S, Unlink(S, b, l))
  BY <1>1 DEF Unlink
<1>3. ASSUME NEW l
      PROVE  Later(S, UnlinkRest(S, b, l))
  <2> DEFINE T == ClearLinks(Detach(S, b, l, Zero), b)
             wrong == Prev(S, b) # Zero \/ Next_(S, b) # S.head[l]
  <2>1. Later(S, T)
    BY <1>1
  <2>2. UnlinkRest(S, b, l) = Slip(T, wrong) /\ wrong \in BOOLEAN
    BY DEF UnlinkRest
  <2> HIDE DEF T, wrong
  <2> QED
    BY <2>1, <2>2, PartsLater, LaterTrans DEF Later
<1>4. ASSUME NEW have, NEW n
      PROVE  Later(S, UnlinkMerged(S, b, have, n))
  <2> DEFINE T == Detach(S, b, ListOf(n), Prev(S, b))
             wrong == Prev(S, b) = Zero /\ ListOf(n) # ListOf(have)
  <2>1. Later(S, T)
    BY <1>1
  <2>2. UnlinkMerged(S, b, have, n) = Slip(T, wrong) /\ wrong \in BOOLEAN
    BY DEF UnlinkMerged
  <2> HIDE DEF T, wrong
  <2> QED
    BY <2>1, <2>2, PartsLater, LaterTrans DEF Later
<1> QED
  BY <1>2, <1>3, <1>4

LEMMA TakeLater ==
    ASSUME NEW S, IsState(S), NEW l, NEW b, NEW have, NEW size
    PROVE  Later(S, Take(S, l, b, have, size))
<1> DEFINE R == Unlink(S, b, l)
           n == Given(have, Units(size))
           padded == Padded(size) \/ Splinter(have, Units(size))
           L == MakeLive(R, b, n, padded, size)
           c == b + 2 * n
           F == MakeFree(L, c, have - n)
           U == UnlinkRest(F, c, l)
<1>1. Later(S, R)
  BY UnlinksLater
<1>2. Take(S, l, b, have, size) = IF have = n THEN L ELSE Push(U, c)
  BY DEF Take, Split
<1> HIDE DEF R, n, padded
<1>3. Later(R, L)
  BY <1>1, PartsLater DEF Later
<1> HIDE DEF L, c
<1>4. Later(L, F)
  BY <1>3, PartsLater DEF Later
<1> HIDE DEF F
<1>5. Later(F, U)
  BY <1>4, UnlinksLater DEF Later
<1> HIDE DEF U
<1>6. Later(U, Push(U, c))
  BY <1>5, PartsLater DEF Later
<1> QED
  BY <1>1, <1>2, <1>3, <1>4, <1>5, <1>6, LaterTrans

LEMMA MergeBackLater ==
    ASSUME NEW x, IsState(x.S)
    PROVE  Later(x.S, BacksTurn(x).S)
<1> DEFINE have == x.S.mem[x.prev].n
           n == have + x.n
           F == MakeFree(x.S, x.prev, n)
           U == UnlinkMerged(F, x.prev, have, n)
<1>1. MergeBack(x).S = U
  BY DEF MergeBack, Merged, Page
<1> HIDE DEF have, n
<1>2. Later(x.S, F)
  BY PartsLater
<1> HIDE DEF F
<1>3. Later(F, U)
  BY <1>2, UnlinksLater DEF Later
<1> QED
  BY <1>1, <1>2, <1>3, LaterTrans, LaterSame DEF BacksTurn

LEMMA AddPageLater ==
    ASSUME NEW x, IsState(x.S)
    PROVE  Later(x.S, AddPage(x))
<1> DEFINE F == MakeFree(x.S, x.at, x.n)
           T == Push(F, x.at)
           wrong == Prev(x.S, x.at) # Zero
<1>1. AddPage(x) = Slip(T, wrong) \/ AddPage(x) = Fail(x.S, "wild")
  BY DEF AddPage
<1>2. Later(x.S, F)
  BY PartsLater
<1> HIDE DEF F
<1>3. Later(F, T)
  BY <1>2, PartsLater DEF Later
<1> HIDE DEF T
<1>4. Later(T, Slip(T, wrong)) /\ Later(x.S, Fail(x.S, "wild"))
  BY <1>3, PartsLater DEF Later
<1> QED
  BY <1>1, <1>2, <1>3, <1>4, LaterTrans

LEMMA ExtendLater ==
    ASSUME NEW S, IsState(S)
    PROVE  Later(S, Extend(S))
<1> DEFINE R == [S EXCEPT !.brk = S.brk + PageWords]
           x == Page(R, S.brk, PageWords \div 2)
           y == While(MaxBlocks, LAMBDA z : z.prev > 0 /\ IsFree(z.S, z.prev), MergeBack, x)
<1>1. Extend(S) = Fail(S, "wild") \/ Extend(S) = AddPage(y)
  BY DEF Extend
<1>2. Later(S, R)
  BY SetBrkIs DEF Later
<1>3. x.S = R
  BY DEF Page
<1> HIDE DEF R, x
<1>4. Later(R, y.S)
  <2>1. MaxBlocks \in Nat
    BY PageAssumption, PagesAssumption DEF MaxBlocks, MaxWords
  <2>2. PICK t : /\ t[0] = x
                 /\ \A k \in 0 .. MaxBlocks - 1 : t[k + 1] = BacksTurn(t[k])
                 /\ y = t[MaxBlocks]
    BY <2>1, BacksLoop
  <2> DEFINE Good == {k \in 0 .. MaxBlocks : Later(R, t[k].S)}
  <2>3. 0 \in Good
    BY <1>2, <1>3, <2>1, <2>2, LaterSame DEF Later
  <2>4. ASSUME NEW k \in 0 .. MaxBlocks - 1, k \in Good
        PROVE  k + 1 \in Good
    BY <2>1, <2>2, <2>4, MergeBackLater, LaterTrans DEF Later
  <2> HIDE DEF Good
  <2>5. MaxBlocks \in Good
    BY <2>1, <2>3, <2>4, BoundedInduction
  <2> QED
    BY <2>2, <2>5 DEF Good
<1> HIDE DEF y
<1>5. Later(y.S, AddPage(y))
  BY <1>4, AddPageLater DEF Later
<1> QED
  BY <1>1, <1>2, <1>4, <1>5, PartsLater, LaterTrans

LEMMA GrowLater ==
    ASSUME NEW S, IsState(S), NEW size
    PROVE  Later(S, Grow(S, size))
<1> DEFINE R == [S EXCEPT !.brk = PageWords]
           F == MakeFree(R, 0, PageWords \div 2)
           x == IF S.brk = 0 THEN FirstPage(S) ELSE S
           y == Growing(MaxPages, size, x)
<1>1. Grow(S, size) = y
  BY DEF Grow, Growing
<1>2. Later(S, x)
  <2>1. FirstPage(S) = SetHead(F, 4, Ptr(0))
    BY DEF FirstPage
  <2>2. Later(S, R)
    BY SetBrkIs DEF Later
  <2> HIDE DEF R
  <2>3. Later(R, F)
    BY <2>2, PartsLater DEF Later
  <2> HIDE DEF F
  <2>4. Later(F, SetHead(F, 4, Ptr(0)))
    BY <2>3, SetHeadIs DEF Later
  <2> QED
    BY <2>1, <2>2, <2>3, <2>4, LaterTrans, LaterSame
<1> HIDE DEF x
<1>3. PICK t : /\ t[0] = x
               /\ \A k \in 0 .. MaxPages - 1 : t[k + 1] = GrowsTurn(t[k], size)
               /\ y = t[MaxPages]
  BY PagesAssumption, GrowsLoop
<1> HIDE DEF y
<1> DEFINE Good == {k \in 0 .. MaxPages : Later(S, t[k])}
<1>4. 0 \in Good
  BY PagesAssumption, <1>2, <1>3
<1>5. ASSUME NEW k \in 0 .. MaxPages - 1, k \in Good
      PROVE  k + 1 \in Good
  <2>1. Later(S, t[k]) /\ t[k + 1] = GrowsTurn(t[k], size)
    BY <1>3, <1>5
  <2>2. Later(t[k], GrowsTurn(t[k], size))
    BY <2>1, ExtendLater, LaterSame DEF GrowsTurn, Later
  <2> QED
    BY <2>1, <2>2, LaterTrans, PagesAssumption
<1> HIDE DEF Good
<1>6. MaxPages \in Good
  BY <1>4, <1>5, PagesAssumption, BoundedInduction
<1> QED
  BY <1>1, <1>3, <1>6 DEF Good

LEMMA MallocLater ==
    ASSUME NEW S, IsState(S), NEW size
    PROVE  Later(S, sf_malloc(S, size).S)
<1> DEFINE G == Grow(S, size)
<1>1. Later(S, G)
  BY GrowLater
<1> HIDE DEF G
<1>2. ASSUME NEW l, NEW w
      PROVE  Later(G, Answer(G, l, w, size).S)
  BY <1>1, TakeLater, PartsLater DEF Answer, Result, Later
<1>3. Later(G, Allocate(G, size).S)
  BY <1>1, <1>2, LaterSame DEF Allocate, First, Result, Later
<1>4. /\ sf_malloc(S, size).S = S \/ sf_malloc(S, size).S = Allocate(G, size).S
  BY DEF sf_malloc, Result, G
<1> QED
  BY <1>1, <1>3, <1>4, LaterTrans, LaterSame

LEMMA MergeNextLater ==
    ASSUME NEW x, IsState(x.S)
    PROVE  Later(x.S, NextsTurn(x).S)
BY UnlinksLater, LaterSame DEF NextsTurn, MergeNext

LEMMA ReleaseLater ==
    ASSUME NEW x, IsState(x.S), NEW b
    PROVE  Later(x.S, Release(x, b))
<1> DEFINE F == MakeFree(x.S, b, x.n)
           C == ClearLinks(F, b)
<1>1. Release(x, b) = Push(C, b) \/ Release(x, b) = Fail(x.S, "wild")
  BY DEF Release
<1>2. Later(x.S, F) /\ Later(x.S, Fail(x.S, "wild"))
  BY PartsLater
<1> HIDE DEF F
<1>3. Later(F, C)
  BY <1>2, PartsLater DEF Later
<1> HIDE DEF C
<1>4. Later(C, Push(C, b))
  BY <1>3, PartsLater DEF Later
<1> QED
  BY <1>1, <1>2, <1>3, <1>4, LaterTrans

LEMMA FreeLater ==
    ASSUME NEW S, IsState(S), NEW b
    PROVE  Later(S, sf_free(S, b))
<1> DEFINE F == MakeFree(S, b, S.mem[b].n)
           x == [S |-> F, n |-> S.mem[b].n, next |-> Footer(S, b) + 1]
           y == While(MaxBlocks, LAMBDA z : z.next < z.S.brk /\ IsFree(z.S, z.next),
                      MergeNext, x)
<1>1. \/ sf_free(S, b) = Release(y, b)
      \/ \E how : sf_free(S, b) = Fail(S, how)
  BY DEF sf_free
<1>2. Later(S, F) /\ x.S = F
  BY PartsLater
<1> HIDE DEF F, x
<1>3. Later(S, y.S)
  <2>1. MaxBlocks \in Nat
    BY PageAssumption, PagesAssumption DEF MaxBlocks, MaxWords
  <2>2. PICK t : /\ t[0] = x
                 /\ \A k \in 0 .. MaxBlocks - 1 : t[k + 1] = NextsTurn(t[k])
                 /\ y = t[MaxBlocks]
    BY <2>1, NextsLoop
  <2> DEFINE Good == {k \in 0 .. MaxBlocks : Later(S, t[k].S)}
  <2>3. 0 \in Good
    BY <1>2, <2>1, <2>2
  <2>4. ASSUME NEW k \in 0 .. MaxBlocks - 1, k \in Good
        PROVE  k + 1 \in Good
    BY <2>1, <2>2, <2>4, MergeNextLater, LaterTrans DEF Later
  <2> HIDE DEF Good
  <2>5. MaxBlocks \in Good
    BY <2>1, <2>3, <2>4, BoundedInduction
  <2> QED
    BY <2>2, <2>5 DEF Good
<1> HIDE DEF y
<1>4. Later(y.S, Release(y, b))
  BY <1>3, ReleaseLater DEF Later
<1> QED
  BY <1>1, <1>3, <1>4, PartsLater, LaterTrans

LEMMA ReallocLater ==
    ASSUME NEW S, IsState(S), NEW b, NEW size
    PROVE  Later(S, sf_realloc(S, b, size).S)
<1>1. \A how : Later(S, Fail(S, how)) /\ Later(S, sf_free(S, b)) /\ Later(S, S)
  BY PartsLater, FreeLater, LaterSame
<1>2. Later(S, Move(sf_malloc(S, size), b).S)
  <2> DEFINE R == sf_malloc(S, size)
             C == Copy(R.S, b, R.block.n, R.S.mem[Footer(R.S, b)].req)
  <2>1. Later(S, R.S)
    BY MallocLater
  <2>2. R = [S |-> R.S, block |-> R.block, errno |-> R.errno]
    BY DEF sf_malloc, Allocate, First, Answer, Result
  <2> HIDE DEF R
  <2>3. Move(R, b).S = R.S \/ Move(R, b).S = sf_free(C, b)
    BY <2>2 DEF Move
  <2>4. Later(R.S, C)
    BY <2>1, SetMemIs DEF Copy, Later
  <2> HIDE DEF C
  <2>5. Later(C, sf_free(C, b))
    BY <2>4, FreeLater DEF Later
  <2>6. Later(S, Move(R, b).S)
    BY <2>1, <2>3, <2>4, <2>5, LaterTrans
  <2> QED
    BY <2>6 DEF R
<1>3. ASSUME NEW have
      PROVE  Later(S, Shrink(S, b, have, size))
  <2> DEFINE n == Given(have, Units(size))
             padded == Padded(size) \/ Splinter(have, Units(size))
             L == MakeLive(S, b, n, padded, size)
             c == b + 2 * n
             M == MakeLive(L, c, have - n, FALSE, 2 * (have - n) - 2)
  <2>1. Shrink(S, b, have, size) = L \/ Shrink(S, b, have, size) = sf_free(M, c)
    BY DEF Shrink, Cut
  <2> HIDE DEF n, padded
  <2>2. Later(S, L)
    BY PartsLater
  <2> HIDE DEF L, c
  <2>3. Later(L, M)
    BY <2>2, PartsLater DEF Later
  <2> HIDE DEF M
  <2>4. Later(M, sf_free(M, c))
    BY <2>3, FreeLater DEF Later
  <2> QED
    BY <2>1, <2>2, <2>3, <2>4, LaterTrans
<1>4. \/ sf_realloc(S, b, size).S = sf_free(S, b)
      \/ \E how : sf_realloc(S, b, size).S = Fail(S, how)
      \/ sf_realloc(S, b, size).S = Move(sf_malloc(S, size), b).S
      \/ sf_realloc(S, b, size).S = Shrink(S, b, S.mem[b].n, size)
      \/ sf_realloc(S, b, size).S = S
  BY DEF sf_realloc, Result
<1> QED
  BY <1>1, <1>2, <1>3, <1>4
-----------------------------------------------------------------------------
(* The heap: B are its blocks, A the allocated ones, F the free ones that  *)
(* are in a list, rank orders those of a list.                             *)

Addresses == 0 .. MaxWords - 1

\* The word behind a block, its footer, and its words.
Past(m, b) == b + 2 * m[b].n
Foot(m, b) == m[Past(m, b) - 1]
Extent(m, b) == b .. Past(m, b) - 1
Class(m, b) == ListOf(m[b].n)

\* The blocks lie one behind the other from the start of the heap to its end.
Tiling(m, e, B) ==
    /\ B \subseteq 0 .. e - 1
    /\ e > 0 => 0 \in B
    /\ \A b \in B : /\ m[b].kind = "meta" /\ m[b].n \in Nat /\ m[b].n >= 2
                    /\ Past(m, b) \in B \cup {e}
                    /\ Foot(m, b).kind = "meta" /\ Foot(m, b).n = m[b].n
    /\ \A c \in B \cup {e} : c # 0 => \E p \in B : Past(m, p) = c
    /\ \A b, c \in B : b < c => Past(m, b) <= c

\* The links of the listed blocks: a list holds blocks of its class, and can be
\* walked both ways, upwards in rank.
Linked(m, h, F, rank) ==
    /\ \A b \in F :
          /\ m[b + 2] = Zero => h[Class(m, b)] = Ptr(b)
          /\ m[b + 2] # Zero =>
                \E p \in F : /\ m[b + 2] = Ptr(p) /\ m[p + 1] = Ptr(b)
                             /\ Class(m, p) = Class(m, b)
          /\ m[b + 1] # Zero =>
                \E c \in F : /\ m[b + 1] = Ptr(c) /\ m[c + 2] = Ptr(b)
                             /\ Class(m, c) = Class(m, b) /\ rank[b] < rank[c]
    /\ \A l \in Lists : h[l] # Zero =>
          \E b \in F : h[l] = Ptr(b) /\ m[b + 2] = Zero /\ Class(m, b) = l

\* sf_free() takes the block for one of its own.
Allocated(m, b) ==
    /\ m[b].alloc /\ Foot(m, b).alloc
    /\ Foot(m, b).padded = m[b].padded
    /\ Foot(m, b).req + 2 <= 2 * m[b].n
    /\ (Foot(m, b).req + 2 = 2 * m[b].n) = ~Foot(m, b).padded

Idle(m, b) == m[b].alloc = FALSE

Heap(m, h, e, B, A, F, rank) ==
    /\ m \in [Addresses -> Words] /\ h \in [Lists -> Words]
    /\ e \in 0 .. MaxWords
    /\ Tiling(m, e, B)
    /\ A \subseteq B /\ F \subseteq B \ A
    /\ \A b \in A : Allocated(m, b)
    /\ \A b \in B \ A : Idle(m, b)
    /\ rank \in [Addresses -> Int]
    /\ Linked(m, h, F, rank)

\* Headers and footers are as they were.
SameTags(m1, m2, B) == \A b \in B : m2[b] = m1[b] /\ Foot(m2, b) = Foot(m1, b)

\* Every word of these blocks is as it was.
Untouched(m1, m2, B) == \A b \in B : \A a \in Extent(m1, b) : m2[a] = m1[a]

\* Sizes are natural numbers.
LEMMA Constants ==
    /\ PageWords \in Nat /\ PageWords >= 4 /\ PageWords \div 2 \in Nat
    /\ 2 * (PageWords \div 2) = PageWords
    /\ MaxPages \in Nat /\ MaxWords \in Nat
    /\ MaxBlocks \in Nat /\ 4 * MaxBlocks <= MaxWords /\ MaxWords < 4 * MaxBlocks + 4
    /\ MaxWords % 2 = 0 /\ MaxWords \div 2 \in Nat /\ 2 * (MaxWords \div 2) = MaxWords
<1>1. /\ PageWords \in Nat /\ PageWords >= 4 /\ PageWords \div 2 \in Nat
      /\ 2 * (PageWords \div 2) = PageWords /\ MaxPages \in Nat
  BY PageAssumption, PagesAssumption
<1> DEFINE half == PageWords \div 2
<1>2. MaxWords = 2 * (half * MaxPages) /\ half * MaxPages \in Nat
  <2> HIDE DEF half
  <2>1. \A x, y \in Nat : (2 * x) * y = 2 * (x * y) /\ x * y \in Nat
    OBVIOUS
  <2>2. half \in Nat /\ PageWords = 2 * half
    BY <1>1 DEF half
  <2> QED
    BY <1>1, <2>1, <2>2 DEF MaxWords
<1> DEFINE w == half * MaxPages
<1> HIDE DEF w
<1>3. MaxWords = 2 * w /\ w \in Nat
  BY <1>2 DEF w
<1>4. MaxWords % 2 = 0 /\ MaxWords \div 2 = w
  BY <1>3
<1>5. MaxBlocks \in Nat /\ 4 * MaxBlocks <= MaxWords /\ MaxWords < 4 * MaxBlocks + 4
  BY <1>3 DEF MaxBlocks
<1> QED
  BY <1>1, <1>3, <1>4, <1>5

\* Where a block is.
LEMMA Room ==
    ASSUME NEW m, NEW e \in 0 .. MaxWords, NEW B, Tiling(m, e, B), NEW b \in B
    PROVE  /\ b \in Nat /\ m[b].n \in Nat /\ m[b].n >= 2
           /\ Past(m, b) \in Nat /\ Past(m, b) >= b + 4 /\ Past(m, b) <= e
           /\ b < e /\ e <= MaxWords
           /\ {b, b + 1, b + 2, Past(m, b) - 1} \subseteq Addresses
           /\ {b, b + 1, b + 2, Past(m, b) - 1} \subseteq Extent(m, b)
           /\ b + 2 < Past(m, b) - 1
<1>1. b \in 0 .. e - 1 /\ m[b].n \in Nat /\ m[b].n >= 2 /\ Past(m, b) \in B \cup {e}
  BY DEF Tiling
<1>2. Past(m, b) <= e
  <2>1. B \subseteq 0 .. e - 1
    BY DEF Tiling
  <2>2. e \in Nat
    BY Constants
  <2>3. Past(m, b) \in 0 .. e - 1 \/ Past(m, b) = e
    BY <1>1, <2>1
  <2> QED
    BY <2>2, <2>3
<1>3. Past(m, b) = b + 2 * m[b].n
  BY DEF Past
<1> HIDE DEF Past
<1>4. MaxWords \in Nat
  BY Constants
<1> QED
  BY <1>1, <1>2, <1>3, <1>4 DEF Addresses, Extent

\* Blocks do not overlap.
LEMMA Apart ==
    ASSUME NEW m, NEW e \in 0 .. MaxWords, NEW B, Tiling(m, e, B),
           NEW b \in B, NEW c \in B, b # c
    PROVE  Extent(m, b) \cap Extent(m, c) = {}
<1>1. b \in Nat /\ c \in Nat /\ Past(m, b) \in Nat /\ Past(m, c) \in Nat
  BY Room
<1>2. Past(m, b) <= c \/ Past(m, c) <= b
  BY <1>1 DEF Tiling
<1> QED
  BY <1>1, <1>2 DEF Extent

\* The list for a block is one of the four.
LEMMA ListOfIs ==
    ASSUME NEW n \in Nat, n <= MaxWords
    PROVE  ListOf(n) \in Lists
<1> DEFINE fits == {l \in Lists : ListMax[l] >= 2 * n}
<1>1. 4 \in fits /\ fits \subseteq 1 .. 4
  BY ListMaxAssumption, Constants DEF Lists
<1>2. \E x \in fits : \A y \in fits : x <= y
  <2> HIDE DEF fits
  <2>1. CASE 1 \in fits
    BY <2>1, <1>1
  <2>2. CASE 1 \notin fits /\ 2 \in fits
    BY <2>2, <1>1
  <2>3. CASE 1 \notin fits /\ 2 \notin fits /\ 3 \in fits
    BY <2>3, <1>1
  <2>4. CASE 1 \notin fits /\ 2 \notin fits /\ 3 \notin fits
    BY <2>4, <1>1
  <2> QED
    BY <2>1, <2>2, <2>3, <2>4
<1>3. ListOf(n) = Min(fits)
  BY DEF ListOf
<1> HIDE DEF fits
<1>4. Min(fits) \in fits
  BY <1>2 DEF Min
<1> QED
  BY <1>1, <1>3, <1>4 DEF Lists

\* Only headers and footers matter for the tiling.
LEMMA TilingKept ==
    ASSUME NEW m1, NEW m2, NEW e, NEW B, Tiling(m1, e, B), SameTags(m1, m2, B)
    PROVE  Tiling(m2, e, B)
<1>1. \A b \in B : /\ m2[b] = m1[b] /\ Past(m2, b) = Past(m1, b)
                   /\ Foot(m2, b) = Foot(m1, b)
  BY DEF SameTags, Past
<1> HIDE DEF SameTags, Past, Foot
<1> QED
  BY <1>1 DEF Tiling

\* A block that is not touched is allocated as before.
LEMMA AllocatedKept ==
    ASSUME NEW m1, NEW m2, NEW b, m2[b] = m1[b], Foot(m2, b) = Foot(m1, b),
           Allocated(m1, b)
    PROVE  Allocated(m2, b)
BY DEF Allocated

\* Two neighbours become one block.
LEMMA Merging ==
    ASSUME NEW m1, NEW m2, NEW e \in 0 .. MaxWords, NEW B, Tiling(m1, e, B),
           NEW b \in B, NEW c \in B, Past(m1, b) = c,
           m2[b].kind = "meta", m2[b].n = m1[b].n + m1[c].n,
           Foot(m2, b).kind = "meta", Foot(m2, b).n = m2[b].n,
           SameTags(m1, m2, B \ {b, c})
    PROVE  Tiling(m2, e, B \ {c})
<1> DEFINE D == B \ {c}
<1>1. /\ b \in Nat /\ c \in Nat /\ m1[b].n \in Nat /\ m1[c].n \in Nat
      /\ m1[b].n >= 2 /\ m1[c].n >= 2 /\ b < c
      /\ Past(m1, c) \in Nat /\ Past(m1, c) > c
  BY Room
<1>2. Past(m2, b) = Past(m1, c) /\ m2[b].n \in Nat /\ m2[b].n >= 2
  BY <1>1 DEF Past
<1>3. \A a \in D : a # b => /\ m2[a] = m1[a] /\ Past(m2, a) = Past(m1, a)
                            /\ Foot(m2, a) = Foot(m1, a)
  BY DEF SameTags, Past
<1>4. \A a \in D : a # b => Past(m1, a) # c
  <2> SUFFICES ASSUME NEW a \in D, a # b, Past(m1, a) = c
               PROVE  FALSE
    OBVIOUS
  <2>1. a \in Nat /\ Past(m1, a) \in Nat /\ Past(m1, b) \in Nat /\ a < Past(m1, a)
    BY Room
  <2>2. b < Past(m1, b)
    BY Room
  <2>3. a < b => Past(m1, a) <= b
    BY DEF Tiling
  <2>4. b < a => Past(m1, b) <= a
    BY DEF Tiling
  <2> QED
    BY <2>1, <2>2, <2>3, <2>4, <1>1
<1>5. Past(m1, c) \in D \cup {e}
  BY <1>1 DEF Tiling
<1>6. D \subseteq 0 .. e - 1 /\ (e > 0 => 0 \in D)
  BY <1>1 DEF Tiling
<1>7. ASSUME NEW a \in D
      PROVE  /\ m2[a].kind = "meta" /\ m2[a].n \in Nat /\ m2[a].n >= 2
             /\ Past(m2, a) \in D \cup {e}
             /\ Foot(m2, a).kind = "meta" /\ Foot(m2, a).n = m2[a].n
  <2>1. CASE a = b
    BY <2>1, <1>2, <1>5
  <2>2. CASE a # b
    BY <2>2, <1>3, <1>4, <1>7 DEF Tiling
  <2> QED
    BY <2>1, <2>2
<1>8. ASSUME NEW a \in D \cup {e}, a # 0
      PROVE  \E p \in D : Past(m2, p) = a
  <2>1. PICK p \in B : Past(m1, p) = a
    BY <1>8 DEF Tiling
  <2>2. CASE p = c
    BY <2>1, <2>2, <1>1, <1>2
  <2>3. CASE p = b
    <3>1. a = c
      BY <2>1, <2>3
    <3>2. a = e /\ e \in Nat
      BY <3>1, <1>8
    <3> QED
      BY <3>1, <3>2, <1>6, Room
  <2>4. CASE p # c /\ p # b
    BY <2>1, <2>4, <1>3
  <2> QED
    BY <2>2, <2>3, <2>4
<1>9. ASSUME NEW a \in D, NEW d \in D, a < d
      PROVE  Past(m2, a) <= d
  <2>1. a \in Nat /\ d \in Nat
    BY Room
  <2>2. CASE a = b
    <3>1. c <= d
      BY <1>9, <2>2 DEF Tiling
    <3>2. c < d
      BY <3>1, <2>1, <1>1, <1>9
    <3> QED
      BY <3>2, <2>2, <1>2 DEF Tiling
  <2>3. CASE a # b
    BY <1>9, <2>3, <1>3 DEF Tiling
  <2> QED
    BY <2>2, <2>3
<1> QED
  BY <1>6, <1>7, <1>8, <1>9 DEF Tiling

\* A block becomes two.
LEMMA Parting ==
    ASSUME NEW m1, NEW m2, NEW e \in 0 .. MaxWords, NEW B, Tiling(m1, e, B),
           NEW b \in B, NEW n \in Nat, NEW r \in Nat, n >= 2, r >= 2,
           m1[b].n = n + r, NEW c, c = b + 2 * n,
           m2[b].kind = "meta", m2[b].n = n, m2[c].kind = "meta", m2[c].n = r,
           Foot(m2, b).kind = "meta", Foot(m2, b).n = n,
           Foot(m2, c).kind = "meta", Foot(m2, c).n = r,
           SameTags(m1, m2, B \ {b})
    PROVE  Tiling(m2, e, B \cup {c}) /\ c \notin B
<1> DEFINE D == B \cup {c}
<1>1. b \in Nat /\ Past(m1, b) \in Nat /\ e \in Nat
  BY Room
<1>2. /\ Past(m2, b) = c /\ Past(m2, c) = Past(m1, b)
      /\ c \in Nat /\ b < c /\ c < Past(m1, b)
  BY <1>1 DEF Past
<1>3. c \notin B
  BY <1>1, <1>2 DEF Tiling
<1>4. \A a \in B : a # b => /\ m2[a] = m1[a] /\ Past(m2, a) = Past(m1, a)
                            /\ Foot(m2, a) = Foot(m1, a)
  BY DEF SameTags, Past
<1>5. D \subseteq 0 .. e - 1 /\ (e > 0 => 0 \in D)
  <2>1. Past(m1, b) <= e
    BY Room
  <2>2. B \subseteq 0 .. e - 1 /\ (e > 0 => 0 \in B)
    BY DEF Tiling
  <2> QED
    BY <1>1, <1>2, <2>1, <2>2
<1>6. ASSUME NEW a \in D
      PROVE  /\ m2[a].kind = "meta" /\ m2[a].n \in Nat /\ m2[a].n >= 2
             /\ Past(m2, a) \in D \cup {e}
             /\ Foot(m2, a).kind = "meta" /\ Foot(m2, a).n = m2[a].n
  <2>1. CASE a = b
    BY <2>1, <1>2
  <2>2. CASE a = c
    <3>1. Past(m1, b) \in B \cup {e}
      BY DEF Tiling
    <3> QED
      BY <2>2, <3>1, <1>2
  <2>3. CASE a # b /\ a # c
    BY <2>3, <1>4, <1>6 DEF Tiling
  <2> QED
    BY <2>1, <2>2, <2>3
<1>7. ASSUME NEW a \in D \cup {e}, a # 0
      PROVE  \E p \in D : Past(m2, p) = a
  <2>1. CASE a = c
    BY <2>1, <1>2
  <2>2. CASE a # c
    <3>1. PICK p \in B : Past(m1, p) = a
      BY <1>7, <2>2 DEF Tiling
    <3>2. CASE p = b
      BY <3>1, <3>2, <1>2
    <3>3. CASE p # b
      BY <3>1, <3>3, <1>4
    <3> QED
      BY <3>2, <3>3
  <2> QED
    BY <2>1, <2>2
<1>8. ASSUME NEW a \in D, NEW d \in D, a < d
      PROVE  Past(m2, a) <= d
  <2>1. a \in Nat /\ d \in Nat
    BY <1>2, Room
  <2>2. CASE a = b
    <3>1. d = c \/ Past(m1, b) <= d
      BY <1>8, <2>2 DEF Tiling
    <3> QED
      BY <3>1, <2>1, <2>2, <1>1, <1>2
  <2>3. CASE a = c
    <3>1. d \in B /\ b < d
      BY <1>8, <2>1, <2>3, <1>1, <1>2
    <3> QED
      BY <3>1, <2>3, <1>2 DEF Tiling
  <2>4. CASE a # b /\ a # c /\ d = c
    <3>1. a < b
      <4>1. b < a => Past(m1, b) <= a
        BY <2>4 DEF Tiling
      <4> QED
        BY <4>1, <2>1, <2>4, <1>1, <1>2, <1>8
    <3>2. Past(m1, a) <= b /\ Past(m1, a) \in Nat
      BY <3>1, <2>4, Room DEF Tiling
    <3> QED
      BY <3>2, <2>4, <1>1, <1>2, <1>4
  <2>5. CASE a # b /\ a # c /\ d # c
    BY <1>8, <2>5, <1>4 DEF Tiling
  <2> QED
    BY <2>2, <2>3, <2>4, <2>5
<1> QED
  BY <1>3, <1>5, <1>6, <1>7, <1>8 DEF Tiling

\* A block is added at the end.
LEMMA Adding ==
    ASSUME NEW m1, NEW m2, NEW e \in Nat, NEW B, Tiling(m1, e, B), e > 0,
           NEW n \in Nat, n >= 2, NEW e2, e2 = e + 2 * n,
           m2[e].kind = "meta", m2[e].n = n,
           Foot(m2, e).kind = "meta", Foot(m2, e).n = n,
           SameTags(m1, m2, B)
    PROVE  Tiling(m2, e2, B \cup {e}) /\ e \notin B
<1>1. Past(m2, e) = e2 /\ e < e2 /\ e2 \in Nat
  BY DEF Past
<1>2. \A a \in B : /\ m2[a] = m1[a] /\ Past(m2, a) = Past(m1, a)
                   /\ Foot(m2, a) = Foot(m1, a)
  BY DEF SameTags, Past
<1>3. B \subseteq 0 .. e - 1 /\ 0 \in B
  BY DEF Tiling
<1>4. \A a \in B : /\ a \in Nat /\ a < e /\ Past(m1, a) \in B \cup {e}
                   /\ Past(m1, a) \in Nat /\ Past(m1, a) <= e
  <2> TAKE a \in B
  <2>1. Past(m1, a) \in B \cup {e}
    BY DEF Tiling
  <2>2. CASE Past(m1, a) \in B
    BY <2>2, <1>3
  <2>3. CASE Past(m1, a) = e
    BY <2>3, <1>3
  <2> QED
    BY <2>1, <2>2, <2>3
<1>5. \A a \in B \cup {e} :
         /\ m2[a].kind = "meta" /\ m2[a].n \in Nat /\ m2[a].n >= 2
         /\ Past(m2, a) \in B \cup {e} \cup {e2}
         /\ Foot(m2, a).kind = "meta" /\ Foot(m2, a).n = m2[a].n
  BY <1>1, <1>2 DEF Tiling
<1>6. \A a \in B \cup {e} \cup {e2} : a # 0 => \E p \in B \cup {e} : Past(m2, p) = a
  <2>1. \A a \in B \cup {e} : a # 0 => \E p \in B : Past(m1, p) = a
    BY DEF Tiling
  <2> QED
    BY <1>1, <1>2, <2>1
<1>7. ASSUME NEW a \in B \cup {e}, NEW d \in B \cup {e}, a < d
      PROVE  Past(m2, a) <= d
  <2>1. a \in B
    BY <1>4, <1>7
  <2>2. CASE d = e
    BY <2>1, <2>2, <1>2, <1>4
  <2>3. CASE d \in B
    BY <2>1, <2>3, <1>2, <1>7 DEF Tiling
  <2> QED
    BY <2>2, <2>3
<1>8. B \cup {e} \subseteq 0 .. e2 - 1 /\ 0 \in B \cup {e} /\ e \notin B
  BY <1>1, <1>3
<1> QED
  BY <1>5, <1>6, <1>7, <1>8 DEF Tiling

\* Sizes and links are all that matters for the lists.
LEMMA LinkedKept ==
    ASSUME NEW m1, NEW m2, NEW h, NEW F, NEW rank, Linked(m1, h, F, rank),
           \A b \in F : m2[b] = m1[b] /\ m2[b + 1] = m1[b + 1] /\ m2[b + 2] = m1[b + 2]
    PROVE  Linked(m2, h, F, rank)
<1>1. \A b \in F : Class(m2, b) = Class(m1, b)
  BY DEF Class
<1> HIDE DEF Class
<1> QED
  BY <1>1 DEF Linked

LEMMA PutIs ==
    /\ \A f, x, v, y : y \in DOMAIN f => Put(f, x, v)[y] = IF y = x THEN v ELSE f[y]
    /\ \A f, x, v : DOMAIN Put(f, x, v) = DOMAIN f
    /\ \A S, T, f, x, v : f \in [S -> T] /\ v \in T => Put(f, x, v) \in [S -> T]
BY DEF Put

\* The blocks before and behind b are linked to each other, and b is in no list.
LEMMA Unlinking ==
    ASSUME NEW m1, NEW h1, NEW F \in SUBSET Addresses, NEW rank \in [Addresses -> Int],
           Linked(m1, h1, F, rank), NEW b \in F,
           DOMAIN h1 = Lists, \A c \in F : Class(m1, c) \in Lists,
           NEW m2, NEW h2,
           \A c \in F \ {b} :
              /\ m2[c] = m1[c]
              /\ m2[c + 1] = IF m1[b + 2] = Ptr(c) THEN m1[b + 1] ELSE m1[c + 1]
              /\ m2[c + 2] = IF m1[b + 1] = Ptr(c) THEN m1[b + 2] ELSE m1[c + 2],
           h2 = IF m1[b + 2] = Zero THEN Put(h1, Class(m1, b), m1[b + 1]) ELSE h1
    PROVE  Linked(m2, h2, F \ {b}, rank)
<1> DEFINE G == F \ {b}
           P(c) == m1[c + 2]
           N(c) == m1[c + 1]
           K(c) == Class(m1, c)
<1>1. \A c \in G : Class(m2, c) = K(c)
  BY DEF Class
<1>2. \A c \in F : /\ P(c) = Zero => h1[K(c)] = Ptr(c)
                   /\ P(c) # Zero => \E p \in F : P(c) = Ptr(p) /\ N(p) = Ptr(c) /\ K(p) = K(c)
                   /\ N(c) # Zero => \E d \in F : /\ N(c) = Ptr(d) /\ P(d) = Ptr(c)
                                                  /\ K(d) = K(c) /\ rank[c] < rank[d]
  BY DEF Linked
<1>3. \A l \in Lists : h1[l] # Zero =>
         \E c \in F : h1[l] = Ptr(c) /\ P(c) = Zero /\ K(c) = l
  BY DEF Linked
<1>4. \A c \in G : m2[c + 1] = IF P(b) = Ptr(c) THEN N(b) ELSE N(c)
  OBVIOUS
<1>5. \A c \in G : m2[c + 2] = IF N(b) = Ptr(c) THEN P(b) ELSE P(c)
  OBVIOUS
<1>6. \A l \in Lists : h2[l] = IF P(b) = Zero /\ l = K(b) THEN N(b) ELSE h1[l]
  BY PutIs
<1>7. \A c \in F : K(c) \in Lists
  OBVIOUS
<1>8. \A c, d \in F : rank[c] \in Int /\ rank[d] \in Int
  OBVIOUS
<1> HIDE DEF P, N, K
<1>9. ASSUME NEW c \in G
      PROVE  /\ m2[c + 2] = Zero => h2[K(c)] = Ptr(c)
             /\ m2[c + 2] # Zero =>
                   \E p \in G : m2[c + 2] = Ptr(p) /\ m2[p + 1] = Ptr(c) /\ K(p) = K(c)
  <2>1. CASE N(b) = Ptr(c)
    <3>1. P(c) = Ptr(b) /\ K(c) = K(b) /\ m2[c + 2] = P(b)
      BY <2>1, <1>2, <1>5, PtrsDiffer
    <3>2. CASE P(b) = Zero
      BY <3>1, <3>2, <2>1, <1>6, <1>7
    <3>3. CASE P(b) # Zero
      <4>1. PICK p \in F : P(b) = Ptr(p) /\ N(p) = Ptr(b) /\ K(p) = K(b)
        BY <3>3, <1>2
      <4>2. p # b
        BY <4>1, <2>1, PtrsDiffer
      <4>3. m2[p + 1] = Ptr(c)
        BY <4>1, <4>2, <2>1, <1>4
      <4> QED
        BY <4>1, <4>2, <4>3, <3>1, <3>3
    <3> QED
      BY <3>2, <3>3
  <2>2. CASE N(b) # Ptr(c)
    <3>1. m2[c + 2] = P(c)
      BY <2>2, <1>5
    <3>2. CASE P(c) = Zero
      <4>1. h1[K(c)] = Ptr(c)
        BY <3>2, <1>2
      <4>2. ~(P(b) = Zero /\ K(c) = K(b))
        BY <4>1, <1>2, PtrsDiffer
      <4>3. h2[K(c)] = h1[K(c)]
        BY <4>2, <1>6, <1>7
      <4> QED
        BY <4>1, <4>3, <3>1, <3>2
    <3>3. CASE P(c) # Zero
      <4>1. PICK p \in F : P(c) = Ptr(p) /\ N(p) = Ptr(c) /\ K(p) = K(c)
        BY <3>3, <1>2
      <4>2. p # b
        BY <4>1, <2>2
      <4>3. P(b) # Ptr(p)
        BY <4>1, <1>2, PtrsDiffer
      <4>4. m2[p + 1] = Ptr(c)
        BY <4>1, <4>2, <4>3, <1>4
      <4> QED
        BY <4>1, <4>2, <4>4, <3>1, <3>3
    <3> QED
      BY <3>2, <3>3
  <2> QED
    BY <2>1, <2>2
<1>10. ASSUME NEW c \in G, m2[c + 1] # Zero
       PROVE  \E d \in G : /\ m2[c + 1] = Ptr(d) /\ m2[d + 2] = Ptr(c)
                           /\ K(d) = K(c) /\ rank[c] < rank[d]
  <2>1. CASE P(b) = Ptr(c)
    <3>1. m2[c + 1] = N(b) /\ N(b) # Zero
      BY <2>1, <1>4, <1>10
    <3>2. PICK d \in F : /\ N(b) = Ptr(d) /\ P(d) = Ptr(b)
                         /\ K(d) = K(b) /\ rank[b] < rank[d]
      BY <3>1, <1>2
    <3>3. N(c) = Ptr(b) /\ K(c) = K(b)
      BY <2>1, <1>2, PtrsDiffer
    <3>4. rank[c] < rank[b]
      BY <3>3, <1>2, PtrsDiffer
    <3>5. d # b
      BY <3>2, <1>8
    <3>6. m2[d + 2] = Ptr(c)
      BY <3>2, <3>5, <2>1, <1>5
    <3>7. rank[c] < rank[d]
      BY <3>2, <3>4, <1>8
    <3> QED
      BY <3>1, <3>2, <3>3, <3>5, <3>6, <3>7
  <2>2. CASE P(b) # Ptr(c)
    <3>1. m2[c + 1] = N(c) /\ N(c) # Zero
      BY <2>2, <1>4, <1>10
    <3>2. PICK d \in F : /\ N(c) = Ptr(d) /\ P(d) = Ptr(c)
                         /\ K(d) = K(c) /\ rank[c] < rank[d]
      BY <3>1, <1>2
    <3>3. d # b
      BY <3>2, <2>2
    <3>4. N(b) # Ptr(d)
      BY <3>2, <1>2, PtrsDiffer
    <3>5. m2[d + 2] = Ptr(c)
      BY <3>2, <3>3, <3>4, <1>5
    <3> QED
      BY <3>1, <3>2, <3>3, <3>5
  <2> QED
    BY <2>1, <2>2
<1>11. ASSUME NEW l \in Lists, h2[l] # Zero
       PROVE  \E c \in G : h2[l] = Ptr(c) /\ m2[c + 2] = Zero /\ K(c) = l
  <2>1. CASE P(b) = Zero /\ l = K(b)
    <3>1. h2[l] = N(b) /\ N(b) # Zero
      BY <2>1, <1>6, <1>11
    <3>2. PICK d \in F : /\ N(b) = Ptr(d) /\ P(d) = Ptr(b)
                         /\ K(d) = K(b) /\ rank[b] < rank[d]
      BY <3>1, <1>2
    <3>3. d # b
      BY <3>2, <1>8
    <3>4. m2[d + 2] = Zero
      BY <3>2, <3>3, <2>1, <1>5
    <3> QED
      BY <3>1, <3>2, <3>3, <3>4, <2>1
  <2>2. CASE ~(P(b) = Zero /\ l = K(b))
    <3>1. h2[l] = h1[l]
      BY <2>2, <1>6
    <3>2. PICK c \in F : h1[l] = Ptr(c) /\ P(c) = Zero /\ K(c) = l
      BY <3>1, <1>3, <1>11
    <3>3. c # b
      BY <3>2, <2>2
    <3>4. N(b) # Ptr(c)
      BY <3>2, <1>2, PtrsDiffer
    <3>5. m2[c + 2] = Zero
      BY <3>2, <3>3, <3>4, <1>5
    <3> QED
      BY <3>1, <3>2, <3>3, <3>5
  <2> QED
    BY <2>1, <2>2
<1> HIDE DEF G
<1>12. Linked(m2, h2, G, rank)
  BY <1>1, <1>9, <1>10, <1>11 DEF Linked
<1> QED
  BY <1>12 DEF G

Linkable(m, h, F) == \E rank \in [Addresses -> Int] : Linked(m, h, F, rank)

\* A block is put before the others of its list.
LEMMA Pushing ==
    ASSUME NEW m1, NEW h1, NEW F \in SUBSET Addresses, NEW rank \in [Addresses -> Int],
           Linked(m1, h1, F, rank), NEW b \in Addresses, b \notin F,
           NEW m2, NEW h2, NEW l \in Lists, l = Class(m2, b), DOMAIN h1 = Lists,
           \A c \in F : Class(m1, c) \in Lists,
           \A c \in F :
              /\ m2[c] = m1[c] /\ m2[c + 1] = m1[c + 1]
              /\ h1[l] = Ptr(c) => m2[c + 2] = Ptr(b)
              /\ h1[l] # Ptr(c) => m2[c + 2] = m1[c + 2],
           m2[b + 1] = h1[l], m2[b + 2] = Zero, h2 = Put(h1, l, Ptr(b))
    PROVE  Linkable(m2, h2, F \cup {b})
<1> DEFINE G == F \cup {b}
           r == Put(rank, b, IF h1[l] = Zero THEN 0 ELSE rank[h1[l].n] - 1)
           P(c) == m1[c + 2]
           N(c) == m1[c + 1]
           K(c) == Class(m1, c)
<1>1. \A c \in F : Class(m2, c) = K(c)
  BY DEF Class
<1>2. \A c \in F : /\ P(c) = Zero => h1[K(c)] = Ptr(c)
                   /\ P(c) # Zero => \E p \in F : P(c) = Ptr(p) /\ N(p) = Ptr(c) /\ K(p) = K(c)
                   /\ N(c) # Zero => \E d \in F : /\ N(c) = Ptr(d) /\ P(d) = Ptr(c)
                                                  /\ K(d) = K(c) /\ rank[c] < rank[d]
  BY DEF Linked
<1>3. h1[l] # Zero => \E c \in F : h1[l] = Ptr(c) /\ P(c) = Zero /\ K(c) = l
  BY DEF Linked
<1>4. \A c \in F : m2[c + 1] = N(c)
  OBVIOUS
<1>5. \A c \in F : m2[c + 2] = IF h1[l] = Ptr(c) THEN Ptr(b) ELSE P(c)
  OBVIOUS
<1>6. \A k \in Lists : h2[k] = IF k = l THEN Ptr(b) ELSE h1[k]
  BY PutIs
<1>7. \A c \in F : K(c) \in Lists
  OBVIOUS
<1>8. /\ r \in [Addresses -> Int]
      /\ \A c \in F : r[c] = rank[c] /\ rank[c] \in Int
      /\ \A c \in F : h1[l] = Ptr(c) => r[b] < rank[c]
  <2>1. h1[l] # Zero => h1[l].n \in Addresses
    BY <1>3, PtrIs
  <2> DEFINE v == IF h1[l] = Zero THEN 0 ELSE rank[h1[l].n] - 1
  <2>2. v \in Int
    BY <2>1
  <2>3. \A c \in F : h1[l] = Ptr(c) => v < rank[c]
    BY PtrIs, PtrsDiffer
  <2> HIDE DEF v
  <2>4. r = Put(rank, b, v)
    BY DEF v
  <2> HIDE DEF r
  <2> QED
    BY <2>2, <2>3, <2>4 DEF Put
<1>9. \A k \in Lists : h1[k] # Zero => \E c \in F : h1[k] = Ptr(c) /\ P(c) = Zero /\ K(c) = k
  BY DEF Linked
<1> HIDE DEF P, N, K, r
<1>10. ASSUME NEW c \in G
       PROVE  /\ m2[c + 2] = Zero => h2[Class(m2, c)] = Ptr(c)
              /\ m2[c + 2] # Zero =>
                    \E p \in G : /\ m2[c + 2] = Ptr(p) /\ m2[p + 1] = Ptr(c)
                                 /\ Class(m2, p) = Class(m2, c)
  <2>1. CASE c = b
    BY <2>1, <1>6
  <2>2. CASE c # b /\ h1[l] = Ptr(c)
    <3>1. c \in F /\ m2[c + 2] = Ptr(b) /\ K(c) = l
      BY <2>2, <1>3, <1>5, PtrsDiffer
    <3> QED
      BY <3>1, <2>2, <1>1, PtrsDiffer
  <2>3. CASE c # b /\ h1[l] # Ptr(c)
    <3>1. c \in F /\ m2[c + 2] = P(c)
      BY <2>3, <1>5
    <3>2. CASE P(c) = Zero
      <4>1. h1[K(c)] = Ptr(c) /\ K(c) # l
        BY <3>1, <3>2, <2>3, <1>2
      <4> QED
        BY <4>1, <3>1, <3>2, <1>1, <1>6, <1>7
    <3>3. CASE P(c) # Zero
      BY <3>1, <3>3, <1>1, <1>2, <1>4
    <3> QED
      BY <3>2, <3>3
  <2> QED
    BY <2>1, <2>2, <2>3
<1>11. ASSUME NEW c \in G, m2[c + 1] # Zero
       PROVE  \E d \in G : /\ m2[c + 1] = Ptr(d) /\ m2[d + 2] = Ptr(c)
                           /\ Class(m2, d) = Class(m2, c) /\ r[c] < r[d]
  <2>1. CASE c = b
    <3>1. m2[c + 1] = h1[l] /\ h1[l] # Zero
      BY <2>1, <1>11
    <3>2. PICK d \in F : h1[l] = Ptr(d) /\ P(d) = Zero /\ K(d) = l
      BY <3>1, <1>3
    <3>3. m2[d + 2] = Ptr(b) /\ r[b] < r[d] /\ Class(m2, d) = Class(m2, b)
      BY <3>2, <1>1, <1>5, <1>8
    <3> QED
      BY <3>1, <3>2, <3>3, <2>1
  <2>2. CASE c # b
    <3>1. c \in F /\ N(c) # Zero /\ m2[c + 1] = N(c)
      BY <2>2, <1>4, <1>11
    <3>2. PICK d \in F : /\ N(c) = Ptr(d) /\ P(d) = Ptr(c)
                         /\ K(d) = K(c) /\ rank[c] < rank[d]
      BY <3>1, <1>2
    <3>3. h1[l] # Ptr(d)
      BY <3>2, <1>3, PtrsDiffer
    <3>4. m2[d + 2] = Ptr(c)
      BY <3>2, <3>3, <1>5
    <3> QED
      BY <3>1, <3>2, <3>4, <1>1, <1>8
  <2> QED
    BY <2>1, <2>2
<1>12. ASSUME NEW k \in Lists, h2[k] # Zero
       PROVE  \E c \in G : h2[k] = Ptr(c) /\ m2[c + 2] = Zero /\ Class(m2, c) = k
  <2>1. CASE k = l
    BY <2>1, <1>6
  <2>2. CASE k # l
    <3>1. h2[k] = h1[k]
      BY <2>2, <1>6
    <3>2. PICK c \in F : h1[k] = Ptr(c) /\ P(c) = Zero /\ K(c) = k
      BY <3>1, <1>9, <1>12
    <3>3. h1[l] # Ptr(c)
      <4>1. h1[l] = Ptr(c) => K(c) = l
        BY <1>3, PtrsDiffer
      <4> QED
        BY <4>1, <3>2, <2>2
    <3> QED
      BY <3>1, <3>2, <3>3, <1>1, <1>5
  <2> QED
    BY <2>1, <2>2
<1> HIDE DEF G
<1>13. Linked(m2, h2, G, r)
  BY <1>10, <1>11, <1>12 DEF Linked
<1> QED
  BY <1>8, <1>13 DEF G, Linkable

-----------------------------------------------------------------------------
(* What the operations on blocks do to the heap                            *)

LEMMA WordsAre ==
    /\ Zero \in Words /\ Data \in Words
    /\ \A a \in Addresses : Ptr(a) \in Words
    /\ \A n \in 0 .. MaxWords \div 2, alloc \in BOOLEAN, padded \in BOOLEAN,
          req \in 0 .. MaxWords : Meta(n, alloc, padded, req) \in Words
<1>1. \A a \in Addresses : Ptr(a) \in Words
  BY DEF Words, Addresses
<1>2. Data \in Words
  BY DEF Words
<1>3. ASSUME NEW n \in 0 .. MaxWords \div 2, NEW alloc \in BOOLEAN,
             NEW padded \in BOOLEAN, NEW req \in 0 .. MaxWords
      PROVE  Meta(n, alloc, padded, req) \in Words
  BY DEF Words, Meta, Word
<1>4. Zero \in Words
  <2>1. 0 \in 0 .. MaxWords \div 2 /\ 0 \in 0 .. MaxWords /\ FALSE \in BOOLEAN
    BY Constants
  <2> QED
    BY <2>1, <1>3 DEF Zero
<1> QED
  BY <1>1, <1>2, <1>3, <1>4

LEMMA MetaIs ==
    \A n, alloc, padded, req :
       /\ Meta(n, alloc, padded, req).kind = "meta" /\ Meta(n, alloc, padded, req).n = n
       /\ Meta(n, alloc, padded, req).alloc = alloc
       /\ Meta(n, alloc, padded, req).padded = padded
       /\ Meta(n, alloc, padded, req).req = req
BY DEF Meta, Word

LEMMA FreeTagIs ==
    \A n : FreeTag(n).kind = "meta" /\ FreeTag(n).n = n /\ FreeTag(n).alloc = FALSE
BY DEF FreeTag, Meta, Word

\* What a heap says of one of its blocks.
LEMMA BlockIs ==
    ASSUME NEW m, NEW h, NEW e, NEW B, NEW A, NEW F, NEW rank,
           Heap(m, h, e, B, A, F, rank), NEW b \in B
    PROVE  /\ b \in Nat /\ m[b].n \in Nat /\ m[b].n >= 2
           /\ Past(m, b) = b + 2 * m[b].n
           /\ Past(m, b) \in Nat /\ Past(m, b) >= b + 4 /\ Past(m, b) <= e
           /\ b < e /\ e <= MaxWords
           /\ {b, b + 1, b + 2, Past(m, b) - 1} \subseteq Addresses
           /\ {b, b + 1, b + 2, Past(m, b) - 1} \subseteq Extent(m, b)
           /\ b + 2 < Past(m, b) - 1
           /\ Class(m, b) \in Lists
           /\ m[b].n <= MaxWords \div 2
<1>1. e \in 0 .. MaxWords /\ Tiling(m, e, B)
  BY DEF Heap
<1>2. /\ b \in Nat /\ m[b].n \in Nat /\ m[b].n >= 2
      /\ Past(m, b) \in Nat /\ Past(m, b) >= b + 4 /\ Past(m, b) <= e
      /\ b < e /\ e <= MaxWords
      /\ {b, b + 1, b + 2, Past(m, b) - 1} \subseteq Addresses
      /\ {b, b + 1, b + 2, Past(m, b) - 1} \subseteq Extent(m, b)
      /\ b + 2 < Past(m, b) - 1
  BY <1>1, Room
<1>3. Past(m, b) = b + 2 * m[b].n
  BY DEF Past
<1>4. m[b].n <= MaxWords \div 2
  BY <1>1, <1>2, <1>3, Constants
<1>5. Class(m, b) \in Lists
  <2>1. m[b].n <= MaxWords
    BY <1>2, <1>4, Constants
  <2> QED
    BY <2>1, <1>2, ListOfIs DEF Class
<1> QED
  BY <1>2, <1>3, <1>4, <1>5

\* No word is in two blocks.
LEMMA OneBlock ==
    ASSUME NEW m, NEW h, NEW e, NEW B, NEW A, NEW F, NEW rank,
           Heap(m, h, e, B, A, F, rank),
           NEW b \in B, NEW c \in B, NEW a \in Extent(m, b), a \in Extent(m, c)
    PROVE  b = c
BY Apart DEF Heap

\* The links of a listed block are NULL or lead to another one.
LEMMA LinksAre ==
    ASSUME NEW m, NEW h, NEW e, NEW B, NEW A, NEW F, NEW rank,
           Heap(m, h, e, B, A, F, rank), NEW b \in F
    PROVE  /\ m[b + 1] = Zero \/ \E c \in F \ {b} : m[b + 1] = Ptr(c)
           /\ m[b + 2] = Zero \/ \E c \in F \ {b} : m[b + 2] = Ptr(c)
<1>1. /\ b \in Addresses /\ rank \in [Addresses -> Int] /\ F \subseteq B
      /\ Linked(m, h, F, rank)
  BY BlockIs DEF Heap
<1>2. \A c \in F : c \in Addresses
  BY <1>1, BlockIs
<1>3. ASSUME m[b + 1] # Zero
      PROVE  \E c \in F \ {b} : m[b + 1] = Ptr(c)
  <2>1. PICK c \in F : m[b + 1] = Ptr(c) /\ rank[b] < rank[c]
    BY <1>1, <1>3 DEF Linked
  <2>2. c # b
    BY <1>1, <2>1
  <2> QED
    BY <2>1, <2>2
<1>4. ASSUME m[b + 2] # Zero
      PROVE  \E c \in F \ {b} : m[b + 2] = Ptr(c)
  <2>1. PICK c \in F : m[b + 2] = Ptr(c) /\ m[c + 1] = Ptr(b)
    BY <1>1, <1>4 DEF Linked
  <2>2. \E d \in F : m[c + 1] = Ptr(d) /\ rank[c] < rank[d]
    BY <2>1, <1>1, PtrsDiffer DEF Linked
  <2>3. rank[c] < rank[b]
    BY <2>1, <2>2, PtrsDiffer
  <2>4. c # b
    BY <1>1, <2>3
  <2> QED
    BY <2>1, <2>4
<1> QED
  BY <1>3, <1>4

\* The word at a when b has been taken out of its list.
Relinked(m, F, b, a) ==
    IF \E c \in F \ {b} : m[b + 2] = Ptr(c) /\ a = c + 1 THEN m[b + 1]
    ELSE IF \E c \in F \ {b} : m[b + 1] = Ptr(c) /\ a = c + 2 THEN m[b + 2]
    ELSE m[a]

\* The same for memory of which only the links are those of the heap m.
LEMMA DetachedIs ==
    ASSUME NEW m, NEW h, NEW e, NEW B, NEW A, NEW F, NEW rank,
           Heap(m, h, e, B, A, F, rank), NEW b \in F,
           NEW S, IsState(S), S.mem \in [Addresses -> Words],
           \A c \in F : S.mem[c + 1] = m[c + 1] /\ S.mem[c + 2] = m[c + 2],
           NEW l
    PROVE  LET T == Detach(S, b, l, Prev(S, b))
           IN  /\ IsState(T) /\ T.slip = S.slip /\ T.brk = S.brk /\ T.end = S.end
               /\ T.mem \in [Addresses -> Words]
               /\ T.head = IF m[b + 2] = Zero THEN Put(S.head, l, m[b + 1]) ELSE S.head
               /\ \A a \in Addresses :
                     T.mem[a] = IF \E c \in F \ {b} : a \in {c + 1, c + 2}
                                THEN Relinked(m, F, b, a) ELSE S.mem[a]
<1> DEFINE T == Detach(S, b, l, Prev(S, b))
           p == m[b + 2]
           c == m[b + 1]
           m1 == IF p = Zero THEN S.mem ELSE Put(S.mem, p.n + 1, c)
           m2 == IF c = Zero THEN m1 ELSE Put(m1, c.n + 2, p)
<1>1. Prev(S, b) = p /\ Next_(S, b) = c
  BY DEF Prev, Next_
<1>2. F \subseteq B
  BY DEF Heap
<1>3. /\ c = Zero \/ \E d \in F \ {b} : c = Ptr(d)
      /\ p = Zero \/ \E d \in F \ {b} : p = Ptr(d)
  BY LinksAre
<1>4. \A d \in F : d \in Nat /\ d + 1 \in Addresses /\ d + 2 \in Addresses /\ d \in Addresses
  BY <1>2, BlockIs
<1>5. p \in Words /\ c \in Words
  BY <1>3, <1>4, WordsAre
<1>6. \A d, f \in F : d # f => d + 1 # f + 2
  <2> SUFFICES ASSUME NEW d \in F, NEW f \in F, d # f, d + 1 = f + 2
               PROVE  FALSE
    OBVIOUS
  <2>1. d + 1 \in Extent(m, d) /\ f + 2 \in Extent(m, f)
    BY <1>2, BlockIs
  <2> QED
    BY <2>1, <1>2, OneBlock
<1>7. p.kind = "ptr" \/ p = Zero
  BY <1>3, PtrIs
<1>8. c.kind = "ptr" \/ c = Zero
  BY <1>3, PtrIs
<1>9. /\ IsState(T) /\ T.slip = S.slip /\ T.brk = S.brk /\ T.end = S.end
      /\ T.mem = m2
      /\ T.head = IF p = Zero THEN Put(S.head, l, c) ELSE S.head
  BY <1>1, <1>7, <1>8, DetachIs
<1> HIDE DEF T
<1>10. /\ m1 \in [Addresses -> Words]
       /\ \A a \in Addresses : m1[a] = IF p # Zero /\ a = p.n + 1 THEN c ELSE S.mem[a]
  BY <1>5, PutIs
<1> HIDE DEF m1
<1>11. /\ m2 \in [Addresses -> Words]
       /\ \A a \in Addresses : m2[a] = IF c # Zero /\ a = c.n + 2 THEN p ELSE m1[a]
  BY <1>5, <1>10, PutIs
<1> HIDE DEF m2
<1>12. ASSUME NEW a \in Addresses
       PROVE  m2[a] = IF \E d \in F \ {b} : a \in {d + 1, d + 2}
                      THEN Relinked(m, F, b, a) ELSE S.mem[a]
  <2> DEFINE isNext == \E d \in F \ {b} : p = Ptr(d) /\ a = d + 1
             isPrev == \E d \in F \ {b} : c = Ptr(d) /\ a = d + 2
  <2>1. isNext <=> p # Zero /\ a = p.n + 1
    BY <1>3, PtrIs, PtrsDiffer
  <2>2. isPrev <=> c # Zero /\ a = c.n + 2
    BY <1>3, PtrIs, PtrsDiffer
  <2>3. Relinked(m, F, b, a) = IF isNext THEN c ELSE IF isPrev THEN p ELSE m[a]
    BY DEF Relinked
  <2>4. isNext /\ isPrev => p = c /\ FALSE
    <3> SUFFICES ASSUME isNext, isPrev
                 PROVE  FALSE
      OBVIOUS
    <3>1. PICK d \in F \ {b} : p = Ptr(d) /\ a = d + 1
      OBVIOUS
    <3>2. PICK f \in F \ {b} : c = Ptr(f) /\ a = f + 2
      OBVIOUS
    <3>3. d # f
      BY <3>1, <3>2, <1>4
    <3> QED
      BY <3>1, <3>2, <3>3, <1>6
  <2>5. m2[a] = IF isPrev THEN p ELSE IF isNext THEN c ELSE S.mem[a]
    BY <1>10, <1>11, <2>1, <2>2
  <2>6. isNext \/ isPrev => \E d \in F \ {b} : a \in {d + 1, d + 2}
    OBVIOUS
  <2> HIDE DEF isNext, isPrev
  <2>7. CASE \E d \in F \ {b} : a \in {d + 1, d + 2}
    <3>1. S.mem[a] = m[a]
      BY <2>7
    <3> QED
      BY <2>3, <2>4, <2>5, <2>7, <3>1
  <2>8. CASE ~ \E d \in F \ {b} : a \in {d + 1, d + 2}
    BY <2>5, <2>6, <2>8
  <2> QED
    BY <2>7, <2>8
<1> QED
  BY <1>9, <1>11, <1>12 DEF T

\* Of the words of the blocks only links of listed blocks change.
LEMMA RelinkedIs ==
    ASSUME NEW m, NEW h, NEW e, NEW B, NEW A, NEW F, NEW rank,
           Heap(m, h, e, B, A, F, rank), NEW d \in F
    PROVE  /\ \A f \in B \ F : \A a \in Extent(m, f) : Relinked(m, F, d, a) = m[a]
           /\ \A f \in B : /\ Relinked(m, F, d, f) = m[f]
                           /\ Relinked(m, F, d, Past(m, f) - 1) = Foot(m, f)
           /\ \A f \in F \ {d} :
                 /\ Relinked(m, F, d, f + 1)
                       = IF m[d + 2] = Ptr(f) THEN m[d + 1] ELSE m[f + 1]
                 /\ Relinked(m, F, d, f + 2)
                       = IF m[d + 1] = Ptr(f) THEN m[d + 2] ELSE m[f + 2]
           /\ \A a \in Addresses : Relinked(m, F, d, a) \in Words
<1> DEFINE isNext(a) == \E c \in F \ {d} : m[d + 2] = Ptr(c) /\ a = c + 1
           isPrev(a) == \E c \in F \ {d} : m[d + 1] = Ptr(c) /\ a = c + 2
<1>1. \A a : Relinked(m, F, d, a)
                = IF isNext(a) THEN m[d + 1] ELSE IF isPrev(a) THEN m[d + 2] ELSE m[a]
  BY DEF Relinked
<1>2. F \subseteq B /\ m \in [Addresses -> Words]
  BY DEF Heap
<1>3. \A f \in B : \A a \in Extent(m, f) :
         isNext(a) \/ isPrev(a) => f \in F /\ a \in {f + 1, f + 2}
  <2> SUFFICES ASSUME NEW f \in B, NEW a \in Extent(m, f), isNext(a) \/ isPrev(a)
               PROVE  f \in F /\ a \in {f + 1, f + 2}
    OBVIOUS
  <2>1. PICK c \in F : a \in {c + 1, c + 2}
    OBVIOUS
  <2>2. a \in Extent(m, c)
    BY <2>1, <1>2, BlockIs
  <2>3. c = f
    BY <2>2, <1>2, OneBlock
  <2> QED
    BY <2>1, <2>3
<1>4. ASSUME NEW f \in F \ {d}
      PROVE  /\ isNext(f + 1) <=> m[d + 2] = Ptr(f)
             /\ ~isPrev(f + 1)
             /\ isPrev(f + 2) <=> m[d + 1] = Ptr(f)
             /\ ~isNext(f + 2)
  <2>1. f \in Nat /\ f + 1 \in Extent(m, f) /\ f + 2 \in Extent(m, f)
    BY <1>2, BlockIs
  <2>2. \A c \in F : c \in Nat /\ c + 1 \in Extent(m, c) /\ c + 2 \in Extent(m, c)
    BY <1>2, BlockIs
  <2>3. \A c \in F : c + 1 \in Extent(m, f) \/ c + 2 \in Extent(m, f) => c = f
    BY <2>2, <1>2, OneBlock
  <2> QED
    BY <2>1, <2>2, <2>3
<1>5. \A f \in B : /\ ~isNext(f) /\ ~isPrev(f)
                   /\ ~isNext(Past(m, f) - 1) /\ ~isPrev(Past(m, f) - 1)
  <2> TAKE f \in B
  <2>1. /\ f \in Nat /\ Past(m, f) \in Nat /\ f \in Extent(m, f)
        /\ Past(m, f) - 1 \in Extent(m, f) /\ f + 2 < Past(m, f) - 1
    BY BlockIs
  <2> HIDE DEF isNext, isPrev
  <2> QED
    BY <2>1, <1>3
<1>6. m[d + 1] \in Words /\ m[d + 2] \in Words
  BY <1>2, BlockIs
<1> HIDE DEF isNext, isPrev
<1>7. \A f \in B \ F : \A a \in Extent(m, f) : Relinked(m, F, d, a) = m[a]
  BY <1>1, <1>3
<1>8. \A f \in B : /\ Relinked(m, F, d, f) = m[f]
                   /\ Relinked(m, F, d, Past(m, f) - 1) = Foot(m, f)
  BY <1>1, <1>5 DEF Foot
<1>9. \A f \in F \ {d} :
         /\ Relinked(m, F, d, f + 1)
               = IF m[d + 2] = Ptr(f) THEN m[d + 1] ELSE m[f + 1]
         /\ Relinked(m, F, d, f + 2)
               = IF m[d + 1] = Ptr(f) THEN m[d + 2] ELSE m[f + 2]
  BY <1>1, <1>4
<1>10. \A a \in Addresses : Relinked(m, F, d, a) \in Words
  BY <1>1, <1>2, <1>6
<1> QED
  BY <1>7, <1>8, <1>9, <1>10

\* The list of a listed block when the block has been taken out.
HeadWithout(m, h, b) == IF m[b + 2] = Zero THEN Put(h, Class(m, b), m[b + 1]) ELSE h

LEMMA Without ==
    ASSUME NEW m, NEW h, NEW e, NEW B, NEW A, NEW F, NEW rank,
           Heap(m, h, e, B, A, F, rank), NEW d \in F, NEW m2,
           \A f \in F \ {d} : /\ m2[f] = m[f]
                              /\ m2[f + 1] = Relinked(m, F, d, f + 1)
                              /\ m2[f + 2] = Relinked(m, F, d, f + 2)
    PROVE  /\ Linked(m2, HeadWithout(m, h, d), F \ {d}, rank)
           /\ HeadWithout(m, h, d) \in [Lists -> Words]
<1> DEFINE h2 == HeadWithout(m, h, d)
<1>1. /\ rank \in [Addresses -> Int] /\ Linked(m, h, F, rank) /\ h \in [Lists -> Words]
      /\ F \subseteq B /\ m \in [Addresses -> Words]
  BY DEF Heap
<1>2. F \in SUBSET Addresses /\ \A c \in F : Class(m, c) \in Lists
  BY <1>1, BlockIs
<1>3. \A f \in F \ {d} :
         /\ m2[f] = m[f]
         /\ m2[f + 1] = IF m[d + 2] = Ptr(f) THEN m[d + 1] ELSE m[f + 1]
         /\ m2[f + 2] = IF m[d + 1] = Ptr(f) THEN m[d + 2] ELSE m[f + 2]
  BY RelinkedIs
<1>4. h2 = IF m[d + 2] = Zero THEN Put(h, Class(m, d), m[d + 1]) ELSE h
  BY DEF HeadWithout
<1>5. m[d + 1] \in Words
  BY <1>1, BlockIs
<1>6. h2 \in [Lists -> Words]
  BY <1>1, <1>4, <1>5, PutIs
<1> HIDE DEF h2
<1>7. DOMAIN h = Lists
  BY <1>1
<1>8. Linked(m2, h2, F \ {d}, rank)
  BY ZenonT(40), <1>1, <1>2, <1>3, <1>4, <1>7, Unlinking
<1> QED
  BY <1>6, <1>8 DEF h2

\* A block is taken out of its list and stays where it is.
LEMMA TakingOut ==
    ASSUME NEW m, NEW h, NEW e, NEW B, NEW A, NEW F, NEW rank,
           Heap(m, h, e, B, A, F, rank), NEW d \in F, NEW m2 \in [Addresses -> Words],
           \A a \in Addresses \ {d + 1, d + 2} : m2[a] = Relinked(m, F, d, a)
    PROVE  /\ Heap(m2, HeadWithout(m, h, d), e, B, A, F \ {d}, rank)
           /\ SameTags(m, m2, B) /\ Untouched(m, m2, A)
<1>1. /\ F \subseteq B \ A /\ A \subseteq B /\ \A b \in A : Allocated(m, b)
      /\ \A b \in B \ A : Idle(m, b)
      /\ e \in 0 .. MaxWords /\ Tiling(m, e, B) /\ rank \in [Addresses -> Int]
  BY DEF Heap
<1>2. \A f \in B : \A a \in Extent(m, f) : a \in {d + 1, d + 2} => f = d
  <2>1. d + 1 \in Extent(m, d) /\ d + 2 \in Extent(m, d)
    BY <1>1, BlockIs
  <2> QED
    BY <2>1, <1>1, OneBlock
<1>3. \A f \in B : /\ f \in Nat /\ Past(m, f) \in Nat /\ f + 2 < Past(m, f) - 1
                   /\ {f, f + 1, f + 2, Past(m, f) - 1} \subseteq Addresses
                   /\ {f, f + 1, f + 2, Past(m, f) - 1} \subseteq Extent(m, f)
  BY BlockIs
<1>4. \A f \in B : Extent(m, f) \subseteq Addresses
  <2> TAKE f \in B
  <2>1. f \in Nat /\ Past(m, f) <= MaxWords /\ Past(m, f) \in Nat /\ MaxWords \in Nat
    BY BlockIs, Constants, <1>1
  <2> QED
    BY <2>1 DEF Extent, Addresses
<1>5. SameTags(m, m2, B)
  <2> SUFFICES ASSUME NEW f \in B
               PROVE  m2[f] = m[f] /\ m2[Past(m, f) - 1] = Foot(m, f)
    BY DEF SameTags, Past, Foot
  <2>1. f \notin {d + 1, d + 2} /\ Past(m, f) - 1 \notin {d + 1, d + 2}
    BY <1>2, <1>3
  <2>2. m2[f] = Relinked(m, F, d, f) /\ m2[Past(m, f) - 1] = Relinked(m, F, d, Past(m, f) - 1)
    BY <2>1, <1>3
  <2> QED
    BY <2>2, RelinkedIs
<1>6. Untouched(m, m2, A)
  <2> SUFFICES ASSUME NEW f \in A, NEW a \in Extent(m, f)
               PROVE  m2[a] = m[a]
    BY DEF Untouched
  <2>1. f \in B \ F /\ f # d /\ a \in Addresses
    BY <1>1, <1>4
  <2> QED
    BY <2>1, <1>2, RelinkedIs
<1>7. Linked(m2, HeadWithout(m, h, d), F \ {d}, rank)
      /\ HeadWithout(m, h, d) \in [Lists -> Words]
  <2>1. ASSUME NEW f \in F \ {d}
        PROVE  /\ m2[f] = m[f]
               /\ m2[f + 1] = Relinked(m, F, d, f + 1)
               /\ m2[f + 2] = Relinked(m, F, d, f + 2)
    <3>1. f \in B /\ {f + 1, f + 2} \cap {d + 1, d + 2} = {}
      BY <1>1, <1>2, <1>3
    <3> QED
      BY <3>1, <1>3, <1>5 DEF SameTags
  <2> QED
    BY <2>1, Without
<1>8. Tiling(m2, e, B)
  BY <1>1, <1>5, TilingKept
<1>9. \A b \in A : Allocated(m2, b)
  BY <1>1, <1>5, AllocatedKept DEF SameTags
<1>10. \A b \in B \ A : Idle(m2, b)
  BY <1>1, <1>5 DEF SameTags, Idle
<1>11. F \ {d} \subseteq B \ A
  BY <1>1
<1> QED
  BY <1>1, <1>5, <1>6, <1>7, <1>8, <1>9, <1>10, <1>11 DEF Heap

LEMMA ExtentIs ==
    ASSUME NEW m, NEW h, NEW e, NEW B, NEW A, NEW F, NEW rank,
           Heap(m, h, e, B, A, F, rank), NEW b \in B
    PROVE  Extent(m, b) \subseteq Addresses
<1>1. /\ b \in Nat /\ Past(m, b) \in Nat /\ Past(m, b) <= e /\ e <= MaxWords
      /\ e \in 0 .. MaxWords /\ MaxWords \in Nat
  BY BlockIs, Constants DEF Heap
<1> QED
  BY <1>1 DEF Extent, Addresses

\* Of two free neighbours, b and the block behind it, d is in a list and the other
\* is not: they become one block that is in none.
LEMMA Absorbing ==
    ASSUME NEW m, NEW h, NEW e, NEW B, NEW A, NEW F, NEW rank,
           Heap(m, h, e, B, A, F, rank),
           NEW b \in B \ A, NEW c \in B \ A, Past(m, b) = c,
           NEW d \in F, {b, c} \cap F = {d},
           NEW m2 \in [Addresses -> Words],
           m2[b] = FreeTag(m[b].n + m[c].n),
           m2[Past(m, c) - 1] = FreeTag(m[b].n + m[c].n),
           \A f \in B \ {b, c} : \A a \in Extent(m, f) : m2[a] = Relinked(m, F, d, a)
    PROVE  /\ Heap(m2, HeadWithout(m, h, d), e, B \ {c}, A, F \ {d}, rank)
           /\ Untouched(m, m2, A)
<1>1. /\ F \subseteq B \ A /\ A \subseteq B /\ \A f \in A : Allocated(m, f)
      /\ \A f \in B \ A : Idle(m, f)
      /\ e \in 0 .. MaxWords /\ Tiling(m, e, B) /\ rank \in [Addresses -> Int]
  BY DEF Heap
<1>2. \A f \in B : /\ f \in Nat /\ Past(m, f) \in Nat /\ f + 2 < Past(m, f) - 1
                   /\ m[f].n \in Nat /\ Past(m, f) = f + 2 * m[f].n
                   /\ {f, f + 1, f + 2, Past(m, f) - 1} \subseteq Extent(m, f)
  BY BlockIs
<1>3. Past(m2, b) = Past(m, c) /\ m2[b].n = m[b].n + m[c].n /\ m2[b].kind = "meta"
      /\ Idle(m2, b)
  <2> DEFINE n1 == m[b].n
             n2 == m[c].n
             n == n1 + n2
  <2>1. m2[b] = FreeTag(n)
    OBVIOUS
  <2>2. /\ b \in Nat /\ n1 \in Nat /\ n2 \in Nat
        /\ Past(m, b) = b + 2 * n1 /\ Past(m, c) = c + 2 * n2
    BY <1>2
  <2>3. Past(m2, b) = b + 2 * m2[b].n
    BY DEF Past
  <2> HIDE DEF n
  <2>4. m2[b].n = n /\ m2[b].kind = "meta" /\ Idle(m2, b)
    BY <2>1, FreeTagIs DEF Idle
  <2> HIDE DEF n1, n2
  <2>5. b + 2 * n = Past(m, c)
    BY <2>2 DEF n
  <2> QED
    BY <2>3, <2>4, <2>5 DEF n, n1, n2
<1>4. Foot(m2, b).kind = "meta" /\ Foot(m2, b).n = m2[b].n
  BY <1>3, FreeTagIs DEF Foot
<1>5. SameTags(m, m2, B \ {b, c})
  <2> SUFFICES ASSUME NEW f \in B \ {b, c}
               PROVE  m2[f] = m[f] /\ m2[Past(m, f) - 1] = Foot(m, f)
    BY DEF SameTags, Past, Foot
  <2>1. m2[f] = Relinked(m, F, d, f) /\ m2[Past(m, f) - 1] = Relinked(m, F, d, Past(m, f) - 1)
    BY <1>2
  <2> QED
    BY <2>1, RelinkedIs
<1>6. Tiling(m2, e, B \ {c})
  BY <1>1, <1>3, <1>4, <1>5, Merging
<1>7. F \ {d} \subseteq B \ {b, c}
  BY <1>1
<1>8. Linked(m2, HeadWithout(m, h, d), F \ {d}, rank)
      /\ HeadWithout(m, h, d) \in [Lists -> Words]
  <2>1. ASSUME NEW f \in F \ {d}
        PROVE  /\ m2[f] = m[f]
               /\ m2[f + 1] = Relinked(m, F, d, f + 1)
               /\ m2[f + 2] = Relinked(m, F, d, f + 2)
    <3>1. f \in B \ {b, c}
      BY <1>7
    <3> QED
      BY <3>1, <1>2, <1>5 DEF SameTags
  <2> QED
    BY <2>1, Without
<1>9. Untouched(m, m2, A)
  <2> SUFFICES ASSUME NEW f \in A, NEW a \in Extent(m, f)
               PROVE  m2[a] = m[a]
    BY DEF Untouched
  <2>1. f \in B \ F /\ f \in B \ {b, c}
    BY <1>1
  <2> QED
    BY <2>1, RelinkedIs
<1>10. \A f \in A : Allocated(m2, f)
  <2> TAKE f \in A
  <2>1. f \in B \ {b, c}
    BY <1>1
  <2> QED
    BY <2>1, <1>1, <1>5, AllocatedKept DEF SameTags
<1>11. \A f \in (B \ {c}) \ A : Idle(m2, f)
  BY <1>1, <1>3, <1>5 DEF SameTags, Idle
<1>12. A \subseteq B \ {c} /\ F \ {d} \subseteq (B \ {c}) \ A
  BY <1>1, <1>7
<1> QED
  BY <1>1, <1>6, <1>8, <1>9, <1>10, <1>11, <1>12 DEF Heap

LEMMA FreeMemIs ==
    ASSUME NEW m \in [Addresses -> Words], NEW b \in Addresses,
           NEW n \in 0 .. MaxWords \div 2, b + 2 * n - 1 \in Addresses
    PROVE  /\ FreeMem(m, b, n) \in [Addresses -> Words]
           /\ \A a \in Addresses :
                 /\ a \in {b, b + 2 * n - 1} => FreeMem(m, b, n)[a] = FreeTag(n)
                 /\ a \notin {b, b + 2 * n - 1} => FreeMem(m, b, n)[a] = m[a]
<1> DEFINE w == FreeTag(n)
           m1 == Put(m, b, w)
<1>1. 0 \in 0 .. MaxWords /\ FALSE \in BOOLEAN
  BY Constants
<1>2. w \in Words
  BY <1>1, WordsAre DEF FreeTag
<1> HIDE DEF w
<1>3. m1 \in [Addresses -> Words] /\ \A a \in Addresses : m1[a] = IF a = b THEN w ELSE m[a]
  BY <1>2, PutIs
<1> HIDE DEF m1
<1>4. LET m2 == Put(m1, b + 2 * n - 1, w)
      IN  /\ m2 \in [Addresses -> Words]
          /\ \A a \in Addresses : m2[a] = IF a = b + 2 * n - 1 THEN w ELSE m1[a]
  BY <1>2, <1>3, PutIs
<1> QED
  BY <1>3, <1>4 DEF FreeMem, w, m1

\* The same as the code does it: the memory of S is that of m but for the words of the
\* two neighbours, of which only the links of d matter.
LEMMA AbsorbIs ==
    ASSUME NEW m, NEW h, NEW e, NEW B, NEW A, NEW F, NEW rank,
           Heap(m, h, e, B, A, F, rank),
           NEW b \in B \ A, NEW c \in B \ A, Past(m, b) = c,
           NEW d \in F, {b, c} \cap F = {d},
           NEW S, IsState(S), S.mem \in [Addresses -> Words], S.head = h,
           S.mem[d + 1] = m[d + 1], S.mem[d + 2] = m[d + 2],
           \A f \in B \ {b, c} : \A a \in Extent(m, f) : S.mem[a] = m[a],
           NEW l, m[d + 2] = Zero => l = Class(m, d)
    PROVE  LET T == Detach(S, d, l, Prev(S, d))
               n == m[b].n + m[c].n
           IN  /\ IsState(T) /\ T.slip = S.slip /\ T.brk = S.brk /\ T.end = S.end
               /\ T.mem \in [Addresses -> Words]
               /\ Heap(FreeMem(T.mem, b, n), T.head, e, B \ {c}, A, F \ {d}, rank)
               /\ Untouched(m, T.mem, A)
<1> DEFINE T == Detach(S, d, l, Prev(S, d))
           n == m[b].n + m[c].n
           m2 == FreeMem(T.mem, b, n)
<1>1. F \subseteq B \ A /\ A \subseteq B /\ m \in [Addresses -> Words]
  BY DEF Heap
<1>2. \A f \in B : /\ f \in Nat /\ Past(m, f) \in Nat /\ f + 2 < Past(m, f) - 1
                   /\ m[f].n \in Nat /\ Past(m, f) = f + 2 * m[f].n
                   /\ {f, f + 1, f + 2, Past(m, f) - 1} \subseteq Extent(m, f)
                   /\ {f, f + 1, f + 2, Past(m, f) - 1} \subseteq Addresses
                   /\ Past(m, f) <= MaxWords
  <2> TAKE f \in B
  <2>3. e \in 0 .. MaxWords
    BY DEF Heap
  <2>1. Past(m, f) <= e /\ e <= MaxWords /\ e \in 0 .. MaxWords /\ Past(m, f) \in Nat
    BY <2>3, BlockIs
  <2>2. Past(m, f) <= MaxWords
    BY <2>1, Constants
  <2> QED
    BY <2>2, BlockIs
<1>3. \A f \in F : S.mem[f + 1] = m[f + 1] /\ S.mem[f + 2] = m[f + 2]
  <2> TAKE f \in F
  <2>1. CASE f = d
    BY <2>1
  <2>2. CASE f # d
    <3>1. f \in B \ {b, c}
      BY <2>2, <1>1
    <3> QED
      BY <3>1, <1>2
  <2> QED
    BY <2>1, <2>2
<1>4. /\ IsState(T) /\ T.slip = S.slip /\ T.brk = S.brk /\ T.end = S.end
      /\ T.mem \in [Addresses -> Words]
      /\ T.head = IF m[d + 2] = Zero THEN Put(S.head, l, m[d + 1]) ELSE S.head
      /\ \A a \in Addresses :
            T.mem[a] = IF \E f \in F \ {d} : a \in {f + 1, f + 2}
                       THEN Relinked(m, F, d, a) ELSE S.mem[a]
  BY <1>3, DetachedIs
<1> HIDE DEF T
<1>5. T.head = HeadWithout(m, h, d)
  BY <1>4 DEF HeadWithout
<1>6. \A f \in B \ {b, c} : \A a \in Extent(m, f) : T.mem[a] = Relinked(m, F, d, a)
  <2> SUFFICES ASSUME NEW f \in B \ {b, c}, NEW a \in Extent(m, f)
               PROVE  T.mem[a] = Relinked(m, F, d, a)
    OBVIOUS
  <2>1. a \in Addresses /\ S.mem[a] = m[a]
    BY ExtentIs
  <2>2. CASE \E g \in F \ {d} : a \in {g + 1, g + 2}
    BY <2>1, <2>2, <1>4
  <2>3. CASE ~ \E g \in F \ {d} : a \in {g + 1, g + 2}
    <3>1. T.mem[a] = m[a]
      BY <2>1, <2>3, <1>4
    <3>2. Relinked(m, F, d, a) = m[a]
      BY <2>3 DEF Relinked
    <3> QED
      BY <3>1, <3>2
  <2> QED
    BY <2>2, <2>3
<1>7. /\ n \in 0 .. MaxWords \div 2 /\ b + 2 * n - 1 = Past(m, c) - 1
      /\ b \in Addresses /\ b + 2 * n - 1 \in Addresses
  <2>1. /\ m[b].n \in Nat /\ m[c].n \in Nat /\ b \in Nat
        /\ c = b + 2 * m[b].n /\ Past(m, c) = c + 2 * m[c].n
        /\ Past(m, c) - 1 \in Addresses /\ b \in Addresses
        /\ Past(m, c) <= MaxWords
    BY <1>2
  <2>2. b + 2 * n = Past(m, c) /\ n \in Nat
    BY <2>1
  <2>3. n <= MaxWords \div 2
    BY <2>1, <2>2, Constants
  <2> QED
    BY <2>1, <2>2, <2>3, Constants
<1> HIDE DEF n
<1>8. /\ m2 \in [Addresses -> Words]
      /\ \A a \in Addresses :
            /\ a \in {b, Past(m, c) - 1} => m2[a] = FreeTag(n)
            /\ a \notin {b, Past(m, c) - 1} => m2[a] = T.mem[a]
  <2>1. /\ m2 \in [Addresses -> Words]
        /\ \A a \in Addresses : /\ a \in {b, b + 2 * n - 1} => m2[a] = FreeTag(n)
                                /\ a \notin {b, b + 2 * n - 1} => m2[a] = T.mem[a]
    BY <1>4, <1>7, FreeMemIs
  <2> HIDE DEF m2
  <2> QED
    BY <2>1, <1>7
<1> HIDE DEF m2
<1>9. \A f \in B \ {b, c} : \A a \in Extent(m, f) : m2[a] = Relinked(m, F, d, a)
  <2> SUFFICES ASSUME NEW f \in B \ {b, c}, NEW a \in Extent(m, f)
               PROVE  m2[a] = Relinked(m, F, d, a)
    OBVIOUS
  <2>1. b \in Extent(m, b) /\ Past(m, c) - 1 \in Extent(m, c)
    BY <1>2
  <2>2. a \notin {b, Past(m, c) - 1}
    BY <2>1, OneBlock
  <2>3. a \in Addresses
    BY ExtentIs
  <2> QED
    BY <2>2, <2>3, <1>6, <1>8
<1>10. /\ m2[b] = FreeTag(m[b].n + m[c].n)
       /\ m2[Past(m, c) - 1] = FreeTag(m[b].n + m[c].n)
  BY <1>2, <1>8 DEF n
<1>11. Heap(m2, T.head, e, B \ {c}, A, F \ {d}, rank)
  <2>1. Heap(m2, HeadWithout(m, h, d), e, B \ {c}, A, F \ {d}, rank)
    <3>1. m2 \in [Addresses -> Words]
      BY <1>8
    <3> QED
      BY <3>1, <1>9, <1>10, Absorbing
  <2> QED
    BY <2>1, <1>5
<1>12. Untouched(m, T.mem, A)
  <2> SUFFICES ASSUME NEW f \in A, NEW a \in Extent(m, f)
               PROVE  T.mem[a] = m[a]
    BY DEF Untouched
  <2>1. f \in B \ F /\ f \in B \ {b, c}
    BY <1>1
  <2> QED
    BY <2>1, <1>6, RelinkedIs
<1> QED
  BY <1>4, <1>11, <1>12 DEF T, n, m2

\* The links of a block lie in no other block, and are not its header or footer.
LEMMA LinkWords ==
    ASSUME NEW m, NEW h, NEW e, NEW B, NEW A, NEW F, NEW rank,
           Heap(m, h, e, B, A, F, rank), NEW c \in B
    PROVE  /\ \A f \in B : \A a \in Extent(m, f) : a \in {c + 1, c + 2} => f = c
           /\ \A f \in B : f \notin {c + 1, c + 2} /\ Past(m, f) - 1 \notin {c + 1, c + 2}
           /\ \A f \in B : f + 1 # c + 2 /\ f + 2 # c + 1
           /\ \A f \in B \ {c} : {f + 1, f + 2} \cap {c + 1, c + 2} = {}
<1>1. \A f \in B : /\ f \in Nat /\ Past(m, f) \in Nat /\ f + 2 < Past(m, f) - 1
                   /\ {f, f + 1, f + 2, Past(m, f) - 1} \subseteq Extent(m, f)
  BY BlockIs
<1>2. \A f \in B : \A a \in Extent(m, f) : a \in {c + 1, c + 2} => f = c
  BY <1>1, OneBlock
<1>3. \A f \in B : f \notin {c + 1, c + 2} /\ Past(m, f) - 1 \notin {c + 1, c + 2}
  <2> TAKE f \in B
  <2>1. f \in {c + 1, c + 2} \/ Past(m, f) - 1 \in {c + 1, c + 2} => f = c
    BY <1>1, <1>2
  <2> QED
    BY <2>1, <1>1
<1>4. \A f \in B : f + 1 # c + 2 /\ f + 2 # c + 1
  <2> TAKE f \in B
  <2>1. f + 1 \in {c + 1, c + 2} \/ f + 2 \in {c + 1, c + 2} => f = c
    BY <1>1, <1>2
  <2> QED
    BY <2>1, <1>1
<1>5. \A f \in B \ {c} : {f + 1, f + 2} \cap {c + 1, c + 2} = {}
  BY <1>1, <1>2
<1> QED
  BY <1>2, <1>3, <1>4, <1>5

\* Nothing but links of free blocks is written, and heads of lists.
LEMMA LinksOnly ==
    ASSUME NEW m, NEW h, NEW e, NEW B, NEW A, NEW F, NEW rank,
           Heap(m, h, e, B, A, F, rank), NEW m2 \in [Addresses -> Words],
           \A a \in Addresses : m2[a] # m[a] => \E c \in B \ A : a \in {c + 1, c + 2},
           NEW h2 \in [Lists -> Words], NEW r2 \in [Addresses -> Int],
           NEW G, G \subseteq B \ A, Linked(m2, h2, G, r2)
    PROVE  /\ Heap(m2, h2, e, B, A, G, r2)
           /\ SameTags(m, m2, B) /\ Untouched(m, m2, A)
<1>1. /\ A \subseteq B /\ \A f \in A : Allocated(m, f)
      /\ \A f \in B \ A : Idle(m, f)
      /\ e \in 0 .. MaxWords /\ Tiling(m, e, B)
  BY DEF Heap
<1>2. SameTags(m, m2, B)
  <2> SUFFICES ASSUME NEW f \in B
               PROVE  m2[f] = m[f] /\ m2[Past(m, f) - 1] = Foot(m, f)
    BY DEF SameTags, Past, Foot
  <2>1. f \in Addresses /\ Past(m, f) - 1 \in Addresses
    BY BlockIs
  <2>2. \A c \in B : f \notin {c + 1, c + 2} /\ Past(m, f) - 1 \notin {c + 1, c + 2}
    BY LinkWords
  <2> QED
    BY <2>1, <2>2 DEF Foot
<1>3. Untouched(m, m2, A)
  <2> SUFFICES ASSUME NEW f \in A, NEW a \in Extent(m, f)
               PROVE  m2[a] = m[a]
    BY DEF Untouched
  <2>1. f \in B /\ a \in Addresses
    BY <1>1, ExtentIs
  <2>2. \A c \in B \ A : a \notin {c + 1, c + 2}
    BY <2>1, LinkWords
  <2> QED
    BY <2>1, <2>2
<1>4. Tiling(m2, e, B)
  BY <1>1, <1>2, TilingKept
<1>5. \A f \in A : Allocated(m2, f)
  BY <1>1, <1>2, AllocatedKept DEF SameTags
<1>6. \A f \in B \ A : Idle(m2, f)
  BY <1>1, <1>2 DEF SameTags, Idle
<1> QED
  BY <1>1, <1>2, <1>3, <1>4, <1>5, <1>6 DEF Heap

\* The state of the allocator holds such a heap.
Held(S, B, A, F, rank) ==
    IsState(S) /\ S.end = "none" /\ Heap(S.mem, S.head, S.brk, B, A, F, rank)

LEMMA ClearOk ==
    ASSUME NEW S, NEW B, NEW A, NEW F, NEW rank, Held(S, B, A, F, rank),
           NEW b \in B \ A, b \notin F
    PROVE  LET T == ClearLinks(S, b)
           IN  /\ Held(T, B, A, F, rank) /\ T.slip = S.slip /\ T.brk = S.brk
               /\ SameTags(S.mem, T.mem, B) /\ Untouched(S.mem, T.mem, A)
               /\ T.mem[b + 1] = Zero /\ T.mem[b + 2] = Zero
<1> DEFINE T == ClearLinks(S, b)
           m == S.mem
           m1 == Put(m, b + 1, Zero)
           m2 == Put(m1, b + 2, Zero)
<1>1. Heap(m, S.head, S.brk, B, A, F, rank) /\ IsState(S) /\ S.end = "none"
  BY DEF Held
<1>2. /\ IsState(T) /\ T.mem = m2
      /\ T.head = S.head /\ T.brk = S.brk /\ T.end = S.end /\ T.slip = S.slip
  BY <1>1, ClearLinksIs
<1> HIDE DEF T, m
<1>3. /\ m \in [Addresses -> Words] /\ S.head \in [Lists -> Words]
      /\ rank \in [Addresses -> Int] /\ Linked(m, S.head, F, rank) /\ F \subseteq B \ A
  BY <1>1 DEF Heap
<1>4. m1 \in [Addresses -> Words] /\ \A a \in Addresses : m1[a] = IF a = b + 1 THEN Zero ELSE m[a]
  BY <1>3, WordsAre, PutIs
<1> HIDE DEF m1
<1>5. m2 \in [Addresses -> Words] /\ \A a \in Addresses : m2[a] = IF a = b + 2 THEN Zero ELSE m1[a]
  BY <1>4, WordsAre, PutIs
<1> HIDE DEF m2
<1>6. b \in Nat /\ b + 1 \in Addresses /\ b + 2 \in Addresses
  BY <1>1, BlockIs
<1>7. \A f \in F : /\ f \in Addresses /\ f + 1 \in Addresses /\ f + 2 \in Addresses
                   /\ {f, f + 1, f + 2} \cap {b + 1, b + 2} = {}
  <2> TAKE f \in F
  <2>1. f \in B \ {b}
    BY <1>3
  <2> QED
    BY <2>1, <1>1, LinkWords, BlockIs
<1>8. \A f \in F : m2[f] = m[f] /\ m2[f + 1] = m[f + 1] /\ m2[f + 2] = m[f + 2]
  BY <1>4, <1>5, <1>7
<1>9. Linked(m2, S.head, F, rank)
  BY <1>3, <1>8, LinkedKept
<1>10. \A a \in Addresses : m2[a] # m[a] => \E c \in B \ A : a \in {c + 1, c + 2}
  BY <1>4, <1>5
<1>11. /\ Heap(m2, S.head, S.brk, B, A, F, rank)
       /\ SameTags(m, m2, B) /\ Untouched(m, m2, A)
  BY <1>1, <1>3, <1>5, <1>9, <1>10, LinksOnly
<1>12. m2[b + 1] = Zero /\ m2[b + 2] = Zero
  BY <1>4, <1>5, <1>6
<1>13. Held(T, B, A, F, rank)
  BY <1>1, <1>2, <1>11 DEF Held
<1> QED
  BY <1>2, <1>11, <1>12, <1>13 DEF T, m

LEMMA PushOk ==
    ASSUME NEW S, NEW B, NEW A, NEW F, NEW rank, Held(S, B, A, F, rank),
           NEW b \in B \ A, b \notin F, S.mem[b + 2] = Zero
    PROVE  LET T == Push(S, b)
           IN  /\ \E r : Held(T, B, A, F \cup {b}, r)
               /\ T.slip = S.slip /\ T.brk = S.brk
               /\ SameTags(S.mem, T.mem, B) /\ Untouched(S.mem, T.mem, A)
<1> DEFINE T == Push(S, b)
           m == S.mem
           h == S.head
           l == Class(m, b)
           w == h[l]
           m1 == IF w = Zero THEN m ELSE Put(m, w.n + 2, Ptr(b))
           m2 == Put(m1, b + 1, w)
           h2 == Put(h, l, Ptr(b))
<1>1. Heap(m, h, S.brk, B, A, F, rank) /\ IsState(S) /\ S.end = "none"
  BY DEF Held
<1>2. /\ m \in [Addresses -> Words] /\ h \in [Lists -> Words]
      /\ rank \in [Addresses -> Int] /\ Linked(m, h, F, rank) /\ F \subseteq B \ A
  BY <1>1 DEF Heap
<1>3. l \in Lists /\ b \in Addresses /\ b + 1 \in Addresses /\ b + 2 \in Addresses
  BY <1>1, BlockIs
<1>4. w = Zero \/ \E c \in F : w = Ptr(c)
  BY <1>2, <1>3 DEF Linked
<1>5. w = Zero \/ w.kind = "ptr"
  BY <1>4, PtrIs
<1>6. l = ListOf(S.mem[b].n)
  BY DEF Class
<1>7. /\ IsState(T) /\ T.mem = m2 /\ T.head = h2
      /\ T.brk = S.brk /\ T.end = S.end /\ T.slip = S.slip
  BY <1>1, <1>5, <1>6, PushIs
<1> HIDE DEF T, m, h, l, w
<1>8. \A f \in B : f \in Addresses /\ f + 1 \in Addresses /\ f + 2 \in Addresses /\ f \in Nat
  BY <1>1, BlockIs
<1>9. w \in Words /\ Ptr(b) \in Words
  BY <1>2, <1>3, WordsAre DEF w
<1>10. m1 \in [Addresses -> Words]
       /\ \A a \in Addresses : m1[a] = IF w # Zero /\ a = w.n + 2 THEN Ptr(b) ELSE m[a]
  BY <1>2, <1>9, PutIs
<1> HIDE DEF m1
<1>11. m2 \in [Addresses -> Words]
       /\ \A a \in Addresses : m2[a] = IF a = b + 1 THEN w ELSE m1[a]
  BY <1>9, <1>10, PutIs
<1> HIDE DEF m2
<1>12. h2 \in [Lists -> Words] /\ DOMAIN h = Lists
  BY <1>2, <1>9, PutIs
<1>13. \A c \in B : w = Ptr(c) <=> w # Zero /\ c = w.n
  BY <1>4, PtrIs, PtrsDiffer
<1>14. ASSUME NEW c \in F
       PROVE  /\ m2[c] = m[c] /\ m2[c + 1] = m[c + 1]
              /\ m2[c + 2] = IF w = Ptr(c) THEN Ptr(b) ELSE m[c + 2]
  <2>1. c \in B \ {b}
    BY <1>2
  <2>2. {c, c + 1, c + 2} \cap {b + 1} = {}
    BY <2>1, <1>1, LinkWords
  <2>3. w = Zero \/ w.n \in F
    BY <1>4, PtrIs
  <2>4. w # Zero => c # w.n + 2 /\ c + 1 # w.n + 2
    BY <2>1, <2>3, <1>1, <1>2, LinkWords
  <2>5. w # Zero => w.n \in Nat /\ c \in Nat
    BY <2>1, <2>3, <1>2, <1>8
  <2>6. m2[c] = m[c] /\ m2[c + 1] = m[c + 1]
    BY <2>1, <2>2, <2>4, <1>8, <1>10, <1>11
  <2>7. m2[c + 2] = IF w # Zero /\ c + 2 = w.n + 2 THEN Ptr(b) ELSE m[c + 2]
    <3>1. c + 2 # b + 1 /\ c + 2 \in Addresses
      BY <2>1, <2>2, <1>8
    <3> QED
      BY <3>1, <1>10, <1>11
  <2>8. w # Zero => (c + 2 = w.n + 2 <=> c = w.n)
    BY <2>5
  <2> QED
    BY <2>1, <2>6, <2>7, <2>8, <1>13
<1>15. m2[b + 1] = w /\ m2[b + 2] = Zero /\ m2[b] = m[b]
  <2>1. w # Zero => w.n \in B \ {b}
    BY <1>2, <1>4, PtrIs
  <2>2. w # Zero => b + 2 # w.n + 2 /\ b # w.n + 2
    <3> SUFFICES ASSUME w # Zero
                 PROVE  b + 2 # w.n + 2 /\ b # w.n + 2
      OBVIOUS
    <3>1. b \notin {w.n + 1, w.n + 2}
      BY <2>1, <1>1, LinkWords
    <3>2. b \in Nat /\ w.n \in Nat /\ b # w.n
      BY <2>1, <1>8
    <3> QED
      BY <3>1, <3>2
  <2>3. b # b + 1 /\ b + 2 # b + 1
    BY <1>8
  <2> QED
    BY <2>2, <2>3, <1>3, <1>10, <1>11 DEF m
<1>16. \A a \in Addresses : m2[a] # m[a] => \E c \in B \ A : a \in {c + 1, c + 2}
  <2> SUFFICES ASSUME NEW a \in Addresses, m2[a] # m[a]
               PROVE  \E c \in B \ A : a \in {c + 1, c + 2}
    OBVIOUS
  <2>1. a = b + 1 \/ (w # Zero /\ a = w.n + 2)
    BY <1>10, <1>11
  <2> QED
    BY <2>1, <1>2, <1>4, PtrIs
<1>17. Linkable(m2, h2, F \cup {b})
  <2>1. F \in SUBSET Addresses /\ \A c \in F : Class(m, c) \in Lists
    BY <1>1, <1>2, BlockIs
  <2>2. l = Class(m2, b)
    BY <1>15 DEF l, Class
  <2>3. \A c \in F :
            /\ m2[c] = m[c] /\ m2[c + 1] = m[c + 1]
            /\ h[l] = Ptr(c) => m2[c + 2] = Ptr(b)
            /\ h[l] # Ptr(c) => m2[c + 2] = m[c + 2]
    BY <1>14 DEF w
  <2>4. m2[b + 1] = h[l]
    BY <1>15 DEF w
  <2>5. h2 = Put(h, l, Ptr(b)) /\ b \notin F /\ m2[b + 2] = Zero /\ DOMAIN h = Lists
    BY <1>12, <1>15
  <2> HIDE DEF h2
  <2> QED
    BY <2>1, <2>2, <2>3, <2>4, <2>5, <1>2, <1>3, Pushing
<1>18. PICK r \in [Addresses -> Int] : Linked(m2, h2, F \cup {b}, r)
  BY <1>17 DEF Linkable
<1> HIDE DEF h2
<1>19. F \cup {b} \subseteq B \ A
  BY <1>2
<1>20. /\ Heap(m2, h2, S.brk, B, A, F \cup {b}, r)
       /\ SameTags(m, m2, B) /\ Untouched(m, m2, A)
  BY <1>1, <1>11, <1>12, <1>16, <1>18, <1>19, LinksOnly
<1>21. Held(T, B, A, F \cup {b}, r)
  BY <1>1, <1>7, <1>20 DEF Held
<1> QED
  BY <1>7, <1>20, <1>21 DEF T, m

LEMMA UnlinkOk ==
    ASSUME NEW S, NEW B, NEW A, NEW F, NEW rank, Held(S, B, A, F, rank), NEW d \in F
    PROVE  LET T == Unlink(S, d, Class(S.mem, d))
           IN  /\ Held(T, B, A, F \ {d}, rank) /\ T.slip = S.slip /\ T.brk = S.brk
               /\ SameTags(S.mem, T.mem, B) /\ Untouched(S.mem, T.mem, A)
               /\ T.mem[d + 1] = Zero /\ T.mem[d + 2] = Zero
<1> DEFINE m == S.mem
           l == Class(m, d)
           R == Detach(S, d, l, Prev(S, d))
           T == ClearLinks(R, d)
           m1 == Put(R.mem, d + 1, Zero)
           m2 == Put(m1, d + 2, Zero)
<1>1. Heap(m, S.head, S.brk, B, A, F, rank) /\ IsState(S) /\ S.end = "none"
  BY DEF Held
<1>2. m \in [Addresses -> Words] /\ F \subseteq B \ A
  BY <1>1 DEF Heap
<1>3. /\ IsState(R) /\ R.slip = S.slip /\ R.brk = S.brk /\ R.end = S.end
      /\ R.mem \in [Addresses -> Words]
      /\ R.head = IF m[d + 2] = Zero THEN Put(S.head, l, m[d + 1]) ELSE S.head
      /\ \A a \in Addresses :
            R.mem[a] = IF \E c \in F \ {d} : a \in {c + 1, c + 2}
                       THEN Relinked(m, F, d, a) ELSE m[a]
  BY <1>1, <1>2, DetachedIs
<1> HIDE DEF R
<1>4. R.head = HeadWithout(m, S.head, d)
  BY <1>3 DEF HeadWithout
<1>5. \A a \in Addresses : R.mem[a] = Relinked(m, F, d, a)
  <2> TAKE a \in Addresses
  <2>1. CASE \E c \in F \ {d} : a \in {c + 1, c + 2}
    BY <2>1, <1>3
  <2>2. CASE ~ \E c \in F \ {d} : a \in {c + 1, c + 2}
    <3>1. R.mem[a] = m[a]
      BY <2>2, <1>3
    <3>2. Relinked(m, F, d, a) = m[a]
      BY <2>2 DEF Relinked
    <3> QED
      BY <3>1, <3>2
  <2> QED
    BY <2>1, <2>2
<1>6. /\ IsState(T) /\ T.mem = m2
      /\ T.head = R.head /\ T.brk = R.brk /\ T.end = R.end /\ T.slip = R.slip
  BY <1>3, ClearLinksIs
<1>7. Unlink(S, d, l) = T
  BY DEF Unlink, R
<1> HIDE DEF T
<1>8. m1 \in [Addresses -> Words] /\ \A a \in Addresses : m1[a] = IF a = d + 1 THEN Zero ELSE R.mem[a]
  BY <1>3, WordsAre, PutIs
<1> HIDE DEF m1
<1>9. m2 \in [Addresses -> Words] /\ \A a \in Addresses : m2[a] = IF a = d + 2 THEN Zero ELSE m1[a]
  BY <1>8, WordsAre, PutIs
<1> HIDE DEF m2
<1>10. \A a \in Addresses \ {d + 1, d + 2} : m2[a] = Relinked(m, F, d, a)
  BY <1>5, <1>8, <1>9
<1>11. /\ Heap(m2, HeadWithout(m, S.head, d), S.brk, B, A, F \ {d}, rank)
       /\ SameTags(m, m2, B) /\ Untouched(m, m2, A)
  BY <1>1, <1>9, <1>10, TakingOut
<1>12. d \in Nat /\ d + 1 \in Addresses /\ d + 2 \in Addresses
  BY <1>1, <1>2, BlockIs
<1>13. m2[d + 1] = Zero /\ m2[d + 2] = Zero
  BY <1>8, <1>9, <1>12
<1>14. Held(T, B, A, F \ {d}, rank)
  BY <1>1, <1>3, <1>4, <1>6, <1>11 DEF Held
<1> QED
  BY <1>3, <1>6, <1>7, <1>11, <1>13, <1>14 DEF m, l

LEMMA PutSame ==
    ASSUME NEW S, NEW T, NEW f \in [S -> T], NEW x
    PROVE  Put(f, x, f[x]) = f
BY DEF Put

\* Without a slip the links of the block are those of the first of the list or none.
LEMMA UnlinkRestOk ==
    ASSUME NEW S, NEW B, NEW A, NEW F, NEW rank, Held(S, B, A, F, rank),
           NEW c \in B \ A, c \notin F, NEW l \in Lists, ~UnlinkRest(S, c, l).slip
    PROVE  LET T == UnlinkRest(S, c, l)
           IN  /\ Held(T, B, A, F, rank) /\ T.slip = S.slip /\ T.brk = S.brk
               /\ SameTags(S.mem, T.mem, B) /\ Untouched(S.mem, T.mem, A)
               /\ T.mem[c + 1] = Zero /\ T.mem[c + 2] = Zero
<1> DEFINE m == S.mem
           h == S.head
           next == Next_(S, c)
           R == Detach(S, c, l, Zero)
           C == ClearLinks(R, c)
           wrong == Prev(S, c) # Zero \/ next # h[l]
           T == Slip(C, wrong)
<1>1. Heap(m, h, S.brk, B, A, F, rank) /\ IsState(S) /\ S.end = "none"
  BY DEF Held
<1>2. /\ m \in [Addresses -> Words] /\ h \in [Lists -> Words]
      /\ Linked(m, h, F, rank) /\ F \subseteq B \ A
  BY <1>1 DEF Heap
<1>3. UnlinkRest(S, c, l) = T /\ wrong \in BOOLEAN
  BY DEF UnlinkRest
<1>4. IsState(R)
  BY <1>1, DetachIs
<1>5. IsState(C)
  <2> HIDE DEF R
  <2> QED
    BY <1>4, ClearLinksIs
<1>6. ~wrong
  <2> HIDE DEF C, wrong
  <2> QED
    BY <1>3, <1>5, SlipIs
<1>7. Prev(S, c) = Zero /\ next = h[l]
  BY <1>6
<1>8. next = Zero \/ \E f \in F : next = Ptr(f) /\ m[f + 2] = Zero
  BY <1>2, <1>7 DEF Linked
<1>9. /\ R.slip = S.slip /\ R.brk = S.brk /\ R.end = S.end
      /\ R.mem = IF next = Zero THEN m ELSE Put(m, next.n + 2, Zero)
      /\ R.head = Put(h, l, next)
  <2>1. next = Zero \/ next.kind = "ptr"
    BY <1>8, PtrIs
  <2> QED
    BY <2>1, <1>1, <1>7, DetachIs
<1> HIDE DEF R, next
<1>10. R.mem = m /\ R.head = h
  <2>1. Put(h, l, h[l]) = h
    BY <1>2, PutSame
  <2>2. next # Zero => m[next.n + 2] = Zero
    BY <1>8, PtrIs
  <2>3. Put(m, next.n + 2, m[next.n + 2]) = m
    BY <1>2, PutSame
  <2> QED
    BY <1>7, <1>9, <2>1, <2>2, <2>3
<1>11. Held(R, B, A, F, rank)
  BY <1>1, <1>4, <1>9, <1>10 DEF Held
<1>12. /\ Held(C, B, A, F, rank) /\ C.slip = R.slip /\ C.brk = R.brk
       /\ SameTags(R.mem, C.mem, B) /\ Untouched(R.mem, C.mem, A)
       /\ C.mem[c + 1] = Zero /\ C.mem[c + 2] = Zero
  BY <1>11, ClearOk
<1> HIDE DEF C, wrong
<1>13. /\ IsState(T) /\ (T.slip <=> C.slip \/ wrong)
       /\ T.mem = C.mem /\ T.head = C.head /\ T.brk = C.brk /\ T.end = C.end
  BY <1>3, <1>5, SlipIs
<1> HIDE DEF T
<1>14. T.slip = S.slip
  BY <1>1, <1>6, <1>9, <1>12, <1>13 DEF IsState
<1>15. Held(T, B, A, F, rank)
  BY <1>12, <1>13 DEF Held
<1> QED
  BY <1>3, <1>9, <1>10, <1>12, <1>13, <1>14, <1>15 DEF m

\* A block that is in no list is allocated, freed or written to; its size stays.
LEMMA Changing ==
    ASSUME NEW m, NEW h, NEW e, NEW B, NEW A, NEW F, NEW rank,
           Heap(m, h, e, B, A, F, rank), NEW b \in B \ F,
           NEW m2 \in [Addresses -> Words],
           m2[b].kind = "meta", m2[b].n = m[b].n,
           m2[Past(m, b) - 1].kind = "meta", m2[Past(m, b) - 1].n = m[b].n,
           NEW A2 \in SUBSET B, \A f \in B \ {b} : f \in A2 <=> f \in A,
           b \in A2 => Allocated(m2, b), b \notin A2 => Idle(m2, b),
           Untouched(m, m2, B \ {b})
    PROVE  Heap(m2, h, e, B, A2, F, rank) /\ Untouched(m, m2, A \ {b})
<1>1. /\ A \subseteq B /\ \A f \in A : Allocated(m, f)
      /\ \A f \in B \ A : Idle(m, f)
      /\ e \in 0 .. MaxWords /\ Tiling(m, e, B) /\ rank \in [Addresses -> Int]
      /\ Linked(m, h, F, rank) /\ h \in [Lists -> Words] /\ F \subseteq B \ A
  BY DEF Heap
<1>2. \A f \in B : {f, f + 1, f + 2, Past(m, f) - 1} \subseteq Extent(m, f)
  BY BlockIs
<1>0. \A f \in B \ {b} : \A a \in Extent(m, f) : m2[a] = m[a]
  BY DEF Untouched
<1>3. SameTags(m, m2, B \ {b})
  <2> SUFFICES ASSUME NEW f \in B \ {b}
               PROVE  m2[f] = m[f] /\ m2[Past(m, f) - 1] = Foot(m, f)
    BY DEF SameTags, Past, Foot
  <2> QED
    BY <1>0, <1>2 DEF Foot
<1>4. Past(m2, b) = Past(m, b) /\ Foot(m2, b) = m2[Past(m, b) - 1]
  BY DEF Past, Foot
<1>5. \A f \in B \ {b} : /\ m2[f] = m[f] /\ Past(m2, f) = Past(m, f)
                         /\ Foot(m2, f) = Foot(m, f)
  BY <1>3 DEF SameTags, Past
<1>6. Tiling(m2, e, B)
  <2>1. \A f \in B : /\ m2[f].kind = "meta" /\ m2[f].n = m[f].n /\ Past(m2, f) = Past(m, f)
                     /\ Foot(m2, f).kind = "meta" /\ Foot(m2, f).n = m[f].n
    <3> TAKE f \in B
    <3>1. CASE f = b
      BY <3>1, <1>4
    <3>2. CASE f # b
      BY <3>2, <1>1, <1>5 DEF Tiling
    <3> QED
      BY <3>1, <3>2
  <2> QED
    BY <2>1, <1>1 DEF Tiling
<1>7. \A f \in A2 : Allocated(m2, f)
  <2> TAKE f \in A2
  <2>1. f # b => f \in A \ {b} /\ f \in B \ {b}
    OBVIOUS
  <2> QED
    BY <2>1, <1>1, <1>5, AllocatedKept
<1>8. \A f \in B \ A2 : Idle(m2, f)
  <2> TAKE f \in B \ A2
  <2>1. f # b => f \in (B \ {b}) \ A
    OBVIOUS
  <2> QED
    BY <2>1, <1>1, <1>5 DEF Idle
<1>9. F \subseteq B \ A2
  BY <1>1
<1>10. Linked(m2, h, F, rank)
  <2>1. \A f \in F : m2[f] = m[f] /\ m2[f + 1] = m[f + 1] /\ m2[f + 2] = m[f + 2]
    BY <1>0, <1>1, <1>2
  <2> QED
    BY <2>1, <1>1, LinkedKept
<1>11. Untouched(m, m2, A \ {b})
  BY <1>0, <1>1 DEF Untouched
<1> QED
  BY <1>1, <1>6, <1>7, <1>8, <1>9, <1>10, <1>11 DEF Heap

\* A block at b of n + r units can be parted at c.
Halves(m, b, n, r, c) ==
    /\ n \in Nat /\ r \in Nat /\ n >= 2 /\ r >= 2
    /\ m[b].n = n + r /\ c = b + 2 * n

\* A block that is in no list becomes two, the first of which is allocated.
LEMMA Splitting ==
    ASSUME NEW m, NEW h, NEW e, NEW B, NEW A, NEW F, NEW rank,
           Heap(m, h, e, B, A, F, rank), NEW b \in B \ F,
           NEW n, NEW r, NEW c, Halves(m, b, n, r, c), NEW m2 \in [Addresses -> Words],
           m2[b].kind = "meta", m2[b].n = n, m2[c].kind = "meta", m2[c].n = r,
           m2[c - 1].kind = "meta", m2[c - 1].n = n,
           m2[Past(m, b) - 1].kind = "meta", m2[Past(m, b) - 1].n = r,
           Allocated(m2, b),
           NEW A2 \in SUBSET (B \cup {c}), b \in A2,
           \A f \in B \ {b} : f \in A2 <=> f \in A,
           c \in A2 => Allocated(m2, c), c \notin A2 => Idle(m2, c),
           Untouched(m, m2, B \ {b})
    PROVE  /\ Heap(m2, h, e, B \cup {c}, A2, F, rank) /\ Untouched(m, m2, A \ {b})
           /\ c \notin B
<1> USE DEF Halves
<1>1. /\ A \subseteq B /\ \A f \in A : Allocated(m, f)
      /\ \A f \in B \ A : Idle(m, f)
      /\ e \in 0 .. MaxWords /\ Tiling(m, e, B) /\ rank \in [Addresses -> Int]
      /\ Linked(m, h, F, rank) /\ h \in [Lists -> Words] /\ F \subseteq B \ A
  BY DEF Heap
<1>2. \A f \in B : {f, f + 1, f + 2, Past(m, f) - 1} \subseteq Extent(m, f)
  BY BlockIs
<1>0. \A f \in B \ {b} : \A a \in Extent(m, f) : m2[a] = m[a]
  BY DEF Untouched
<1>3. SameTags(m, m2, B \ {b})
  <2> SUFFICES ASSUME NEW f \in B \ {b}
               PROVE  m2[f] = m[f] /\ m2[Past(m, f) - 1] = Foot(m, f)
    BY DEF SameTags, Past, Foot
  <2> QED
    BY <1>0, <1>2 DEF Foot
<1>4. Past(m2, b) = c /\ Past(m2, c) = Past(m, b)
  <2>1. Past(m2, b) = b + 2 * n /\ Past(m2, c) = c + 2 * r /\ Past(m, b) = b + 2 * (n + r)
    BY DEF Past
  <2>2. b \in Nat
    BY BlockIs
  <2> QED
    BY <2>1, <2>2
<1>5. Foot(m2, b) = m2[c - 1] /\ Foot(m2, c) = m2[Past(m, b) - 1]
  BY <1>4 DEF Foot
<1>6. Tiling(m2, e, B \cup {c}) /\ c \notin B
  BY SMTT(30), <1>1, <1>3, <1>5, Parting
<1>7. \A f \in B \ {b} : m2[f] = m[f] /\ Foot(m2, f) = Foot(m, f)
  BY <1>3 DEF SameTags
<1>8. \A f \in A2 : Allocated(m2, f)
  <2> TAKE f \in A2
  <2>1. CASE f = b
    BY <2>1
  <2>2. CASE f = c
    BY <2>2
  <2>3. CASE f # b /\ f # c
    <3>1. f \in A /\ f \in B \ {b}
      BY <2>3, <1>1
    <3> QED
      BY <3>1, <1>1, <1>7, AllocatedKept
  <2> QED
    BY <2>1, <2>2, <2>3
<1>9. \A f \in (B \cup {c}) \ A2 : Idle(m2, f)
  <2> TAKE f \in (B \cup {c}) \ A2
  <2>1. f # c => f \in (B \ {b}) /\ f \in B \ A
    OBVIOUS
  <2> QED
    BY <2>1, <1>1, <1>7 DEF Idle
<1>10. F \subseteq (B \cup {c}) \ A2 /\ A2 \subseteq B \cup {c}
  BY <1>1, <1>6
<1>11. Linked(m2, h, F, rank)
  <2>1. \A f \in F : m2[f] = m[f] /\ m2[f + 1] = m[f + 1] /\ m2[f + 2] = m[f + 2]
    BY <1>0, <1>1, <1>2
  <2> QED
    BY <2>1, <1>1, LinkedKept
<1>12. Untouched(m, m2, A \ {b})
  BY <1>0, <1>1 DEF Untouched
<1> QED
  BY <1>1, <1>6, <1>8, <1>9, <1>10, <1>11, <1>12 DEF Heap

LEMMA LiveTagIs ==
    \A n, size : \A padded \in BOOLEAN :
       /\ LiveTag(n, padded, size).kind = "meta" /\ LiveTag(n, padded, size).n = n
       /\ LiveTag(n, padded, size).alloc
       /\ LiveTag(n, padded, size).padded = padded
       /\ LiveTag(n, padded, size).req = size
BY DEF LiveTag, Meta, Word

\* A block of n units is what a request takes.
Suits(n, padded, size) ==
    /\ padded \in BOOLEAN /\ size \in 0 .. MaxWords
    /\ size + 2 <= 2 * n /\ (size + 2 = 2 * n) = ~padded

LEMMA TaggedIs ==
    ASSUME NEW m, NEW b, NEW n, NEW padded, NEW size, Suits(n, padded, size),
           m[b] = LiveTag(n, padded, 0), Foot(m, b) = LiveTag(n, padded, size)
    PROVE  Allocated(m, b)
<1>1. /\ m[b].n = n /\ m[b].alloc /\ m[b].padded = padded
      /\ Foot(m, b).alloc /\ Foot(m, b).padded = padded /\ Foot(m, b).req = size
  BY LiveTagIs DEF Suits
<1> QED
  BY <1>1 DEF Allocated, Suits

LEMMA LiveMemIs ==
    ASSUME NEW m \in [Addresses -> Words], NEW b \in Addresses,
           NEW n \in 0 .. MaxWords \div 2, n >= 2, b + 2 * n - 1 \in Addresses,
           NEW padded, NEW size, Suits(n, padded, size)
    PROVE  LET m2 == LiveMem(m, b, n, padded, size)
           IN  /\ m2 \in [Addresses -> Words]
               /\ m2[b] = LiveTag(n, padded, 0)
               /\ m2[b + 2 * n - 1] = LiveTag(n, padded, size)
               /\ \A a \in Addresses : a \notin {b, b + 2 * n - 1} => m2[a] = m[a]
<1> DEFINE v == LiveTag(n, padded, 0)
           w == LiveTag(n, padded, size)
           m1 == Put(m, b, v)
           z == b + 2 * n - 1
           m2 == Put(m1, z, w)
<1>1. 0 \in 0 .. MaxWords /\ TRUE \in BOOLEAN
  BY Constants
<1>2. v \in Words /\ w \in Words
  BY <1>1, WordsAre DEF LiveTag, Suits
<1>3. z \in Addresses /\ z # b
  BY DEF Addresses
<1>4. LiveMem(m, b, n, padded, size) = m2
  BY DEF LiveMem
<1> HIDE DEF v, w, z
<1>5. m1 \in [Addresses -> Words] /\ \A a \in Addresses : m1[a] = IF a = b THEN v ELSE m[a]
  BY <1>2, PutIs
<1> HIDE DEF m1
<1>6. m2 \in [Addresses -> Words] /\ \A a \in Addresses : m2[a] = IF a = z THEN w ELSE m1[a]
  BY <1>2, <1>5, PutIs
<1> HIDE DEF m2
<1>7. /\ m2[b] = v /\ m2[z] = w
      /\ \A a \in Addresses : a \notin {b, z} => m2[a] = m[a]
  BY <1>3, <1>5, <1>6
<1> QED
  BY <1>4, <1>6, <1>7 DEF v, w, z

\* These have names of their own where the provers have to match a lemma with them.
Plus(A, b) == A \cup {b}
Less(A, b) == A \ {b}
Both(A, b, c) == A \cup {b, c}
SameWords(m1, m2, lo, hi) == \A a \in lo .. hi : m2[a] = m1[a]

\* A block that is in no list is given to a request as it is.
LEMMA LiveOk ==
    ASSUME NEW S, NEW B, NEW A, NEW F, NEW rank, Held(S, B, A, F, rank),
           NEW b \in B \ F, NEW n, n = S.mem[b].n,
           NEW padded, NEW size, Suits(n, padded, size)
    PROVE  LET T == MakeLive(S, b, n, padded, size)
           IN  /\ Held(T, B, Plus(A, b), F, rank) /\ T.slip = S.slip /\ T.brk = S.brk
               /\ Untouched(S.mem, T.mem, Less(A, b)) /\ T.mem[b].n = n
               /\ SameWords(S.mem, T.mem, b + 1, b + 2 * n - 2)
<1> DEFINE m == S.mem
           T == MakeLive(S, b, n, padded, size)
           m2 == LiveMem(m, b, n, padded, size)
<1>1. Heap(m, S.head, S.brk, B, A, F, rank) /\ IsState(S) /\ S.end = "none"
  BY DEF Held
<1>2. m \in [Addresses -> Words] /\ A \subseteq B
  BY <1>1 DEF Heap
<1>3. /\ b \in Nat /\ n \in Nat /\ n >= 2 /\ n <= MaxWords \div 2
      /\ Past(m, b) = b + 2 * n /\ Past(m, b) - 1 \in Addresses /\ b \in Addresses
      /\ b + 2 < Past(m, b) - 1 /\ Past(m, b) \in Nat
      /\ b \in Extent(m, b) /\ Past(m, b) - 1 \in Extent(m, b)
  BY <1>1, BlockIs
<1>4. n \in 0 .. MaxWords \div 2 /\ b + 2 * n - 1 = Past(m, b) - 1
  BY <1>3, Constants
<1>5. /\ IsState(T) /\ T.mem = m2
      /\ T.head = S.head /\ T.brk = S.brk /\ T.end = S.end /\ T.slip = S.slip
  BY <1>1, MakeLiveIs
<1> HIDE DEF T
<1>6. /\ m2 \in [Addresses -> Words]
      /\ m2[b] = LiveTag(n, padded, 0)
      /\ m2[b + 2 * n - 1] = LiveTag(n, padded, size)
      /\ \A a \in Addresses : a \notin {b, b + 2 * n - 1} => m2[a] = m[a]
  <2> HIDE DEF m
  <2>1. m \in [Addresses -> Words] /\ b \in Addresses /\ n >= 2
    BY <1>2, <1>3
  <2>2. b + 2 * n - 1 \in Addresses
    BY <1>3, <1>4
  <2> QED
    BY <1>4, <2>1, <2>2, LiveMemIs
<1> HIDE DEF m2
<1>7. padded \in BOOLEAN
  BY DEF Suits
<1>8. /\ m2[b].kind = "meta" /\ m2[b].n = n
      /\ m2[Past(m, b) - 1].kind = "meta" /\ m2[Past(m, b) - 1].n = n
  BY <1>4, <1>6, <1>7, LiveTagIs
<1>9. Allocated(m2, b)
  <2>2. Past(m2, b) = Past(m, b)
    BY <1>8 DEF Past
  <2>3. Foot(m2, b) = m2[Past(m, b) - 1]
    BY <2>2 DEF Foot
  <2>1. Foot(m2, b) = m2[b + 2 * n - 1]
    BY <2>3, <1>4
  <2> QED
    BY <2>1, <1>6, TaggedIs
<1>10. Untouched(m, m2, B \ {b})
  <2> SUFFICES ASSUME NEW f \in B \ {b}, NEW a \in Extent(m, f)
               PROVE  m2[a] = m[a]
    BY DEF Untouched
  <2>1. a \in Addresses
    BY <1>1, ExtentIs
  <2>2. a \notin {b, Past(m, b) - 1}
    BY <1>1, <1>3, OneBlock
  <2> QED
    BY <2>1, <2>2, <1>4, <1>6
<1>11. A \cup {b} \subseteq B /\ (A \cup {b}) \ {b} = A \ {b} /\ b \in A \cup {b}
  BY <1>2
<1>12. Heap(m2, S.head, S.brk, B, A \cup {b}, F, rank) /\ Untouched(m, m2, A \ {b})
  <2> DEFINE A2 == A \cup {b}
  <2>1. m2[b].n = m[b].n /\ m2[Past(m, b) - 1].n = m[b].n
    BY <1>8
  <2>2. /\ A2 \in SUBSET B /\ \A f \in B \ {b} : f \in A2 <=> f \in A
        /\ b \in A2 /\ m2 \in [Addresses -> Words]
    BY <1>6, <1>11
  <2> HIDE DEF A2, m
  <2>3. Heap(m2, S.head, S.brk, B, A2, F, rank) /\ Untouched(m, m2, A \ {b})
    <3>1. (b \in A2 => Allocated(m2, b)) /\ (b \notin A2 => Idle(m2, b))
      BY <1>9, <2>2
    <3>2. /\ m2[b].kind = "meta" /\ m2[b].n = m[b].n
          /\ m2[Past(m, b) - 1].kind = "meta" /\ m2[Past(m, b) - 1].n = m[b].n
      BY <1>8, <2>1
    <3> QED
      BY <1>1, <1>10, <2>2, <3>1, <3>2, Changing
  <2> QED
    BY <2>3 DEF A2
<1>13. \A a \in b + 1 .. b + 2 * n - 2 : m2[a] = m[a]
  <2> TAKE a \in b + 1 .. b + 2 * n - 2
  <2>1. a \in Extent(m, b) /\ a \notin {b, b + 2 * n - 1}
    BY <1>3 DEF Extent
  <2>2. a \in Addresses
    BY <2>1, <1>1, ExtentIs
  <2> QED
    BY <2>1, <2>2, <1>6
<1>14. Held(T, B, A \cup {b}, F, rank)
  BY <1>1, <1>5, <1>12 DEF Held
<1> QED
  BY <1>5, <1>8, <1>12, <1>13, <1>14 DEF T, m, Plus, Less, SameWords

\* Where the headers and footers of the halves of a block are.
LEMMA HalvesAre ==
    ASSUME NEW m, NEW h, NEW e, NEW B, NEW A, NEW F, NEW rank,
           Heap(m, h, e, B, A, F, rank), NEW b \in B,
           NEW n, NEW r, NEW c, Halves(m, b, n, r, c)
    PROVE  /\ b \in Nat /\ c \in Nat /\ c - 1 \in Nat /\ c + 2 * r - 1 \in Nat
           /\ {b, c, c - 1, c + 2 * r - 1} \subseteq Addresses
           /\ {b, c, c - 1, c + 2 * r - 1} \subseteq Extent(m, b)
           /\ b + 2 < c - 1 /\ c + 2 < c + 2 * r - 1
           /\ Past(m, b) - 1 = c + 2 * r - 1
           /\ n \in 0 .. MaxWords \div 2 /\ r \in 0 .. MaxWords \div 2
           /\ \A a \in b + 1 .. c - 2 : a \in Addresses /\ a \notin {b, c, c - 1, c + 2 * r - 1}
<1> USE DEF Halves
<1>1. /\ b \in Nat /\ Past(m, b) \in Nat /\ m[b].n <= MaxWords \div 2
      /\ Past(m, b) = b + 2 * m[b].n /\ Past(m, b) <= e /\ e <= MaxWords
      /\ MaxWords \in Nat /\ MaxWords \div 2 \in Nat /\ e \in Nat
  <2>1. e \in 0 .. MaxWords
    BY DEF Heap
  <2> QED
    BY <2>1, BlockIs, Constants
<1>2. Past(m, b) = c + 2 * r /\ Past(m, b) <= MaxWords
  BY <1>1
<1> HIDE DEF Past
<1>3. n + r <= MaxWords \div 2
  BY <1>1
<1> QED
  BY <1>1, <1>2, <1>3 DEF Addresses, Extent

\* A block that is in no list becomes one that is given to a request and one that is
\* free.
LEMMA SplitOk ==
    ASSUME NEW S, NEW B, NEW A, NEW F, NEW rank, Held(S, B, A, F, rank),
           NEW b \in B \ F, NEW n, NEW r, NEW c, Halves(S.mem, b, n, r, c),
           NEW padded, NEW size, Suits(n, padded, size)
    PROVE  LET T == MakeFree(MakeLive(S, b, n, padded, size), c, r)
           IN  /\ Held(T, Plus(B, c), Plus(A, b), F, rank)
               /\ T.slip = S.slip /\ T.brk = S.brk /\ c \notin B
               /\ Untouched(S.mem, T.mem, Less(A, b)) /\ T.mem[b].n = n
<1> DEFINE m == S.mem
           R == MakeLive(S, b, n, padded, size)
           T == MakeFree(R, c, r)
           m1 == LiveMem(m, b, n, padded, size)
           m2 == FreeMem(m1, c, r)
           z == c + 2 * r - 1
<1>1. Heap(m, S.head, S.brk, B, A, F, rank) /\ IsState(S) /\ S.end = "none"
  BY DEF Held
<1>2. m \in [Addresses -> Words] /\ A \subseteq B
  BY <1>1 DEF Heap
<1> HIDE DEF m
<1>3. Halves(m, b, n, r, c)
  BY DEF m
<1>4. /\ b \in Nat /\ c \in Nat /\ c - 1 \in Nat /\ z \in Nat
      /\ {b, c, c - 1, z} \subseteq Addresses /\ {b, c, c - 1, z} \subseteq Extent(m, b)
      /\ b + 2 < c - 1 /\ c + 2 < z /\ Past(m, b) - 1 = z
      /\ n \in 0 .. MaxWords \div 2 /\ r \in 0 .. MaxWords \div 2
  BY <1>1, <1>3, HalvesAre
<1>5. c - 1 = b + 2 * n - 1 /\ n >= 2 /\ r >= 2
  BY <1>3, <1>4 DEF Halves
<1>6. /\ IsState(R) /\ R.mem = m1
      /\ R.head = S.head /\ R.brk = S.brk /\ R.end = S.end /\ R.slip = S.slip
  BY <1>1, MakeLiveIs DEF m
<1> HIDE DEF R
<1>7. /\ IsState(T) /\ T.mem = m2
      /\ T.head = S.head /\ T.brk = S.brk /\ T.end = S.end /\ T.slip = S.slip
  BY <1>6, MakeFreeIs
<1> HIDE DEF T
<1>8. /\ m1 \in [Addresses -> Words] /\ m1[b] = LiveTag(n, padded, 0)
      /\ m1[c - 1] = LiveTag(n, padded, size)
      /\ \A a \in Addresses : a \notin {b, c - 1} => m1[a] = m[a]
  <2>1. b \in Addresses /\ b + 2 * n - 1 \in Addresses
    BY <1>4, <1>5
  <2>2. /\ m1 \in [Addresses -> Words] /\ m1[b] = LiveTag(n, padded, 0)
        /\ m1[b + 2 * n - 1] = LiveTag(n, padded, size)
        /\ \A a \in Addresses : a \notin {b, b + 2 * n - 1} => m1[a] = m[a]
    BY <1>2, <1>4, <1>5, <2>1, LiveMemIs
  <2> HIDE DEF m1
  <2> QED
    BY <2>2, <1>5
<1> HIDE DEF m1
<1>9. /\ m2 \in [Addresses -> Words]
      /\ \A a \in Addresses : /\ a \in {c, z} => m2[a] = FreeTag(r)
                              /\ a \notin {c, z} => m2[a] = m1[a]
  BY <1>4, <1>8, FreeMemIs
<1> HIDE DEF m2, z
<1>10. /\ m2[b] = LiveTag(n, padded, 0) /\ m2[c - 1] = LiveTag(n, padded, size)
       /\ m2[c] = FreeTag(r) /\ m2[z] = FreeTag(r)
       /\ \A a \in Addresses : a \notin {b, c, c - 1, z} => m2[a] = m[a]
  BY <1>4, <1>8, <1>9
<1>11. padded \in BOOLEAN
  BY DEF Suits
<1>12. /\ m2[b].kind = "meta" /\ m2[b].n = n /\ m2[c].kind = "meta" /\ m2[c].n = r
       /\ m2[c - 1].kind = "meta" /\ m2[c - 1].n = n
       /\ m2[Past(m, b) - 1].kind = "meta" /\ m2[Past(m, b) - 1].n = r
       /\ Idle(m2, c)
  BY <1>4, <1>10, <1>11, LiveTagIs, FreeTagIs DEF Idle
<1>13. Allocated(m2, b)
  <2>1. Past(m2, b) = c
    BY <1>3, <1>12 DEF Past, Halves
  <2>2. Foot(m2, b) = m2[c - 1]
    BY <2>1 DEF Foot
  <2> QED
    BY <2>2, <1>10, TaggedIs
<1>14. Untouched(m, m2, B \ {b})
  <2> SUFFICES ASSUME NEW f \in B \ {b}, NEW a \in Extent(m, f)
               PROVE  m2[a] = m[a]
    BY DEF Untouched
  <2>1. a \in Addresses
    BY <1>1, ExtentIs
  <2>2. a \notin {b, c, c - 1, z}
    BY <1>1, <1>4, OneBlock
  <2> QED
    BY <2>1, <2>2, <1>10
<1>15. c \notin B
  BY <1>1, <1>4, OneBlock, BlockIs
<1> DEFINE A2 == A \cup {b}
<1>16. /\ A2 \in SUBSET (B \cup {c}) /\ b \in A2 /\ c \notin A2
       /\ \A f \in B \ {b} : f \in A2 <=> f \in A
  BY <1>2, <1>4, <1>15
<1> HIDE DEF A2
<1>17. /\ Heap(m2, S.head, S.brk, B \cup {c}, A2, F, rank) /\ Untouched(m, m2, A \ {b})
  <2>1. (c \in A2 => Allocated(m2, c)) /\ (c \notin A2 => Idle(m2, c))
    BY <1>12, <1>16
  <2>2. Heap(m, S.head, S.brk, B, A, F, rank) /\ Halves(m, b, n, r, c)
    BY <1>1, <1>3
  <2>3. m2 \in [Addresses -> Words]
    BY <1>9
  <2>4. /\ m2[b].kind = "meta" /\ m2[b].n = n /\ m2[c].kind = "meta" /\ m2[c].n = r
        /\ m2[c - 1].kind = "meta" /\ m2[c - 1].n = n
        /\ m2[Past(m, b) - 1].kind = "meta" /\ m2[Past(m, b) - 1].n = r
    BY <1>12
  <2> QED
    BY <1>13, <1>14, <1>16, <2>1, <2>2, <2>3, <2>4, Splitting
<1>18. Held(T, B \cup {c}, A2, F, rank)
  BY <1>1, <1>7, <1>17 DEF Held
<1> QED
  BY <1>7, <1>12, <1>15, <1>17, <1>18 DEF T, R, m, A2, Plus, Less

\* An allocated block becomes two.
LEMMA HalveOk ==
    ASSUME NEW S, NEW B, NEW A, NEW F, NEW rank, Held(S, B, A, F, rank),
           NEW b \in B \ F, NEW n, NEW r, NEW c, Halves(S.mem, b, n, r, c),
           NEW padded, NEW size, Suits(n, padded, size),
           NEW more, NEW rest, Suits(r, more, rest)
    PROVE  LET T == MakeLive(MakeLive(S, b, n, padded, size), c, r, more, rest)
           IN  /\ Held(T, Plus(B, c), Both(A, b, c), F, rank)
               /\ T.slip = S.slip /\ T.brk = S.brk /\ c \notin B
               /\ Untouched(S.mem, T.mem, Less(A, b)) /\ T.mem[b].n = n
               /\ SameWords(S.mem, T.mem, b + 1, c - 2)
<1> DEFINE m == S.mem
           R == MakeLive(S, b, n, padded, size)
           T == MakeLive(R, c, r, more, rest)
           m1 == LiveMem(m, b, n, padded, size)
           m2 == LiveMem(m1, c, r, more, rest)
           z == c + 2 * r - 1
<1>1. Heap(m, S.head, S.brk, B, A, F, rank) /\ IsState(S) /\ S.end = "none"
  BY DEF Held
<1>2. m \in [Addresses -> Words] /\ A \subseteq B
  BY <1>1 DEF Heap
<1> HIDE DEF m
<1>3. Halves(m, b, n, r, c)
  BY DEF m
<1>4. /\ b \in Nat /\ c \in Nat /\ c - 1 \in Nat /\ z \in Nat
      /\ {b, c, c - 1, z} \subseteq Addresses /\ {b, c, c - 1, z} \subseteq Extent(m, b)
      /\ b + 2 < c - 1 /\ c + 2 < z /\ Past(m, b) - 1 = z
      /\ n \in 0 .. MaxWords \div 2 /\ r \in 0 .. MaxWords \div 2
      /\ \A a \in b + 1 .. c - 2 : a \in Addresses /\ a \notin {b, c, c - 1, z}
  BY <1>1, <1>3, HalvesAre
<1>5. c - 1 = b + 2 * n - 1 /\ n >= 2 /\ r >= 2
  BY <1>3, <1>4 DEF Halves
<1>6. /\ IsState(R) /\ R.mem = m1
      /\ R.head = S.head /\ R.brk = S.brk /\ R.end = S.end /\ R.slip = S.slip
  BY <1>1, MakeLiveIs DEF m
<1> HIDE DEF R
<1>7. /\ IsState(T) /\ T.mem = m2
      /\ T.head = S.head /\ T.brk = S.brk /\ T.end = S.end /\ T.slip = S.slip
  BY <1>6, MakeLiveIs
<1> HIDE DEF T
<1>8. /\ m1 \in [Addresses -> Words] /\ m1[b] = LiveTag(n, padded, 0)
      /\ m1[c - 1] = LiveTag(n, padded, size)
      /\ \A a \in Addresses : a \notin {b, c - 1} => m1[a] = m[a]
  <2>1. b \in Addresses /\ b + 2 * n - 1 \in Addresses
    BY <1>4, <1>5
  <2>2. /\ m1 \in [Addresses -> Words] /\ m1[b] = LiveTag(n, padded, 0)
        /\ m1[b + 2 * n - 1] = LiveTag(n, padded, size)
        /\ \A a \in Addresses : a \notin {b, b + 2 * n - 1} => m1[a] = m[a]
    BY <1>2, <1>4, <1>5, <2>1, LiveMemIs
  <2> HIDE DEF m1
  <2> QED
    BY <2>2, <1>5
<1> HIDE DEF m1
<1>9. /\ m2 \in [Addresses -> Words]
      /\ m2[c] = LiveTag(r, more, 0) /\ m2[z] = LiveTag(r, more, rest)
      /\ \A a \in Addresses : a \notin {c, z} => m2[a] = m1[a]
  BY <1>4, <1>5, <1>8, LiveMemIs
<1> HIDE DEF m2, z
<1>10. /\ m2[b] = LiveTag(n, padded, 0) /\ m2[c - 1] = LiveTag(n, padded, size)
       /\ \A a \in Addresses : a \notin {b, c, c - 1, z} => m2[a] = m[a]
  BY <1>4, <1>8, <1>9
<1>11. padded \in BOOLEAN /\ more \in BOOLEAN
  BY DEF Suits
<1>12. /\ m2[b].kind = "meta" /\ m2[b].n = n /\ m2[c].kind = "meta" /\ m2[c].n = r
       /\ m2[c - 1].kind = "meta" /\ m2[c - 1].n = n
       /\ m2[Past(m, b) - 1].kind = "meta" /\ m2[Past(m, b) - 1].n = r
  BY <1>4, <1>9, <1>10, <1>11, LiveTagIs
<1>13. Allocated(m2, b)
  <2>1. Past(m2, b) = c
    BY <1>3, <1>12 DEF Past, Halves
  <2>2. Foot(m2, b) = m2[c - 1]
    BY <2>1 DEF Foot
  <2> QED
    BY <2>2, <1>10, TaggedIs
<1>14. Allocated(m2, c)
  <2>3. Past(m2, c) = c + 2 * r
    BY <1>12 DEF Past
  <2>1. Past(m2, c) - 1 = z
    BY <2>3, <1>4, Constants DEF z
  <2>2. Foot(m2, c) = m2[z]
    BY <2>1 DEF Foot
  <2> QED
    BY <2>2, <1>9, TaggedIs
<1>15. Untouched(m, m2, B \ {b})
  <2> SUFFICES ASSUME NEW f \in B \ {b}, NEW a \in Extent(m, f)
               PROVE  m2[a] = m[a]
    BY DEF Untouched
  <2>1. a \in Addresses
    BY <1>1, ExtentIs
  <2>2. a \notin {b, c, c - 1, z}
    BY <1>1, <1>4, OneBlock
  <2> QED
    BY <2>1, <2>2, <1>10
<1>16. c \notin B
  BY <1>1, <1>4, OneBlock, BlockIs
<1> DEFINE A2 == A \cup {b, c}
<1>17. /\ A2 \in SUBSET (B \cup {c}) /\ b \in A2 /\ c \in A2
       /\ \A f \in B \ {b} : f \in A2 <=> f \in A
  BY <1>2, <1>16
<1> HIDE DEF A2
<1>18. Heap(m2, S.head, S.brk, B \cup {c}, A2, F, rank) /\ Untouched(m, m2, A \ {b})
  <2>1. (c \in A2 => Allocated(m2, c)) /\ (c \notin A2 => Idle(m2, c))
    BY <1>14, <1>17
  <2>2. Heap(m, S.head, S.brk, B, A, F, rank) /\ Halves(m, b, n, r, c)
    BY <1>1, <1>3
  <2>3. m2 \in [Addresses -> Words]
    BY <1>9
  <2>4. /\ m2[b].kind = "meta" /\ m2[b].n = n /\ m2[c].kind = "meta" /\ m2[c].n = r
        /\ m2[c - 1].kind = "meta" /\ m2[c - 1].n = n
        /\ m2[Past(m, b) - 1].kind = "meta" /\ m2[Past(m, b) - 1].n = r
    BY <1>12
  <2> QED
    BY <1>13, <1>15, <1>17, <2>1, <2>2, <2>3, <2>4, Splitting
<1>19. Held(T, B \cup {c}, A2, F, rank)
  BY <1>1, <1>7, <1>18 DEF Held
<1>20. \A a \in b + 1 .. c - 2 : m2[a] = m[a]
  BY <1>4, <1>10
<1> QED
  BY <1>7, <1>12, <1>16, <1>18, <1>19, <1>20 DEF T, R, m, A2, Plus, Less, Both, SameWords

LEMMA UntouchedTrans ==
    ASSUME NEW S, NEW B, NEW A, NEW F, NEW rank, Held(S, B, A, F, rank),
           NEW Q \in SUBSET A, NEW m2, NEW m3,
           Untouched(S.mem, m2, Q), Untouched(m2, m3, Q)
    PROVE  Untouched(S.mem, m3, Q)
<1>1. \A f \in Q : f \in Extent(S.mem, f)
  <2>1. Heap(S.mem, S.head, S.brk, B, A, F, rank) /\ A \subseteq B
    BY DEF Held, Heap
  <2> QED
    BY <2>1, BlockIs
<1>2. \A f \in Q : Extent(m2, f) = Extent(S.mem, f)
  <2> TAKE f \in Q
  <2>1. m2[f] = S.mem[f]
    BY <1>1 DEF Untouched
  <2> QED
    BY <2>1 DEF Extent, Past
<1> QED
  BY <1>2 DEF Untouched

LEMMA UntouchedLess ==
    ASSUME NEW m1, NEW m2, NEW A, Untouched(m1, m2, A), NEW Q \in SUBSET A
    PROVE  Untouched(m1, m2, Q)
BY DEF Untouched

LEMMA UntouchedSame == \A m, Q : Untouched(m, m, Q)
BY DEF Untouched

\* What a request takes of a block that is large enough.
LEMMA GivenIs ==
    ASSUME NEW size \in 1 .. MaxWords, NEW have \in Nat, have >= Units(size),
           NEW n, n = Given(have, Units(size)),
           NEW padded, padded = (Padded(size) \/ Splinter(have, Units(size)))
    PROVE  /\ Suits(n, padded, size) /\ n \in Nat /\ n >= 2
           /\ n = have \/ (have - n \in Nat /\ have - n >= 2 /\ have = n + (have - n))
<1> DEFINE need == Units(size)
<1>1. /\ need \in Nat /\ need >= 2 /\ size \in Nat /\ size <= MaxWords
      /\ Padded(size) => 2 * need = size + 3
      /\ ~Padded(size) => 2 * need = size + 2
      /\ Padded(size) \in BOOLEAN
  BY Constants DEF Units, Padded
<1> HIDE DEF need
<1>2. Splinter(have, need) <=> have - need = 1
  BY DEF Splinter
<1>3. n = IF Splinter(have, need) THEN have ELSE need
  BY DEF Given, need
<1>4. padded \in BOOLEAN /\ (padded <=> Padded(size) \/ Splinter(have, need))
  BY DEF need
<1>5. have >= need
  BY DEF need
<1>6. size \in 0 .. MaxWords
  BY <1>1, Constants
<1>7. CASE Splinter(have, need)
  <2>1. n = have /\ padded /\ have = need + 1
    BY <1>7, <1>1, <1>2, <1>3, <1>4
  <2>2. size + 2 <= 2 * n /\ size + 2 # 2 * n /\ n >= 2
    BY <2>1, <1>1
  <2>3. (size + 2 = 2 * n) = ~padded
    BY <2>1, <2>2
  <2> QED
    BY <2>1, <2>2, <2>3, <1>4, <1>6 DEF Suits
<1>8. CASE ~Splinter(have, need)
  <2>1. n = need /\ (padded <=> Padded(size))
    BY <1>8, <1>3, <1>4
  <2>2. size + 2 <= 2 * n /\ (size + 2 = 2 * n <=> ~padded)
    BY <2>1, <1>1
  <2>3. (size + 2 = 2 * n) = ~padded
    BY <2>2, <1>4
  <2>4. n = have \/ (have - n \in Nat /\ have - n >= 2 /\ have = n + (have - n))
    BY <2>1, <1>1, <1>2, <1>5, <1>8
  <2> QED
    BY <2>1, <2>2, <2>3, <2>4, <1>1, <1>4, <1>6 DEF Suits
<1> QED
  BY <1>7, <1>8

\* All that is not allocated is in a list.
Whole(S, B, A) == \E rank : Held(S, B, A, B \ A, rank)

LEMMA TakeOk ==
    ASSUME NEW S, NEW B, NEW A, NEW rank, Held(S, B, A, B \ A, rank),
           NEW b \in B \ A, NEW size \in 1 .. MaxWords, S.mem[b].n >= Units(size),
           NEW T, T = Take(S, Class(S.mem, b), b, S.mem[b].n, size), ~T.slip
    PROVE  /\ \E B2 : Whole(T, B2, A \cup {b})
           /\ Untouched(S.mem, T.mem, A) /\ T.brk = S.brk
           /\ size + 2 <= 2 * T.mem[b].n
<1> DEFINE l == Class(S.mem, b)
           have == S.mem[b].n
           R == Unlink(S, b, l)
           F == (B \ A) \ {b}
           A2 == A \cup {b}
<1>0. PICK n, padded : /\ n = Given(have, Units(size))
                       /\ padded = (Padded(size) \/ Splinter(have, Units(size)))
  OBVIOUS
<1> DEFINE L == MakeLive(R, b, n, padded, size)
           c == b + 2 * n
           r == have - n
           M == MakeFree(L, c, r)
           U == UnlinkRest(M, c, l)
<1>1. T = IF have = n THEN L ELSE Push(U, c)
  BY <1>0 DEF Take, Split
<1>2. /\ Held(R, B, A, F, rank) /\ R.slip = S.slip /\ R.brk = S.brk
      /\ SameTags(S.mem, R.mem, B) /\ Untouched(S.mem, R.mem, A)
  BY UnlinkOk
<1>3. R.mem[b].n = have
  BY <1>2 DEF SameTags
<1>4. have \in Nat /\ l \in Lists /\ A \subseteq B
  <2>1. Heap(S.mem, S.head, S.brk, B, A, B \ A, rank)
    BY DEF Held
  <2> QED
    BY <2>1, BlockIs DEF Heap
<1>5. /\ Suits(n, padded, size) /\ n \in Nat /\ n >= 2
      /\ n = have \/ (r \in Nat /\ r >= 2 /\ have = n + r)
  BY <1>0, <1>4, GivenIs
<1>6. size + 2 <= 2 * n
  BY <1>5 DEF Suits
<1>7. b \notin F /\ b \in B \ F /\ b \notin A /\ A \ {b} = A
  OBVIOUS
<1> HIDE DEF l, have, R, c, r
<1>8. CASE have = n
  <2>1. /\ Held(L, B, A2, F, rank) /\ L.slip = R.slip /\ L.brk = R.brk
        /\ Untouched(R.mem, L.mem, A \ {b}) /\ L.mem[b].n = n
    <3>1. n = R.mem[b].n /\ Suits(n, padded, size) /\ b \in B \ F
      BY <1>3, <1>5, <1>7, <1>8
    <3> HIDE DEF F
    <3>2. /\ Held(L, B, Plus(A, b), F, rank) /\ L.slip = R.slip /\ L.brk = R.brk
          /\ Untouched(R.mem, L.mem, Less(A, b)) /\ L.mem[b].n = n
      BY <1>2, <3>1, LiveOk
    <3> QED
      BY <3>2 DEF Plus, Less
  <2>2. F = B \ A2
    OBVIOUS
  <2>3. Whole(L, B, A2)
    BY <2>1, <2>2 DEF Whole
  <2>4. Untouched(S.mem, L.mem, A)
    BY <2>1, <1>2, <1>7, UntouchedTrans
  <2> QED
    BY <2>1, <2>3, <2>4, <1>1, <1>2, <1>6, <1>8
<1>9. CASE have # n
  <2> DEFINE B2 == B \cup {c}
  <2>1. Halves(R.mem, b, n, r, c)
    BY <1>3, <1>5, <1>9 DEF Halves, c
  <2>2. /\ Held(M, B2, A2, F, rank)
        /\ M.slip = R.slip /\ M.brk = R.brk /\ c \notin B
        /\ Untouched(R.mem, M.mem, A \ {b}) /\ M.mem[b].n = n
    <3>1. Suits(n, padded, size) /\ b \in B \ F
      BY <1>5, <1>7
    <3> HIDE DEF F
    <3>2. /\ Held(M, Plus(B, c), Plus(A, b), F, rank)
          /\ M.slip = R.slip /\ M.brk = R.brk /\ c \notin B
          /\ Untouched(R.mem, M.mem, Less(A, b)) /\ M.mem[b].n = n
      BY <1>2, <2>1, <3>1, SplitOk
    <3> QED
      BY <3>2 DEF Plus, Less
  <2> HIDE DEF L, M
  <2>3. c \in B2 \ A2 /\ c \notin F
    BY <2>2, <1>4, <1>7
  <2>4. T = Push(U, c)
    BY <1>1, <1>9
  <2>5. IsState(U) /\ ~U.slip
    <3>1. IsState(M)
      BY <2>2 DEF Held
    <3>2. IsState(U)
      BY <3>1, UnlinksLater DEF Later
    <3> HIDE DEF U
    <3> QED
      BY <2>4, <3>2, PushIs
  <2>6. /\ Held(U, B2, A2, F, rank) /\ U.slip = M.slip /\ U.brk = M.brk
        /\ SameTags(M.mem, U.mem, B2) /\ Untouched(M.mem, U.mem, A2)
        /\ U.mem[c + 2] = Zero
    BY <2>2, <2>3, <2>5, <1>4, UnlinkRestOk
  <2> HIDE DEF U
  <2>7. /\ \E q : Held(T, B2, A2, F \cup {c}, q)
        /\ T.slip = U.slip /\ T.brk = U.brk
        /\ SameTags(U.mem, T.mem, B2) /\ Untouched(U.mem, T.mem, A2)
    BY <2>3, <2>4, <2>6, PushOk
  <2>8. F \cup {c} = B2 \ A2
    BY <2>2, <2>3
  <2>9. Whole(T, B2, A2)
    BY <2>7, <2>8 DEF Whole
  <2>10. T.mem[b].n = n
    BY <2>2, <2>6, <2>7 DEF SameTags
  <2>11. Untouched(S.mem, T.mem, A)
    <3>1. Untouched(S.mem, M.mem, A)
      <4>1. Untouched(S.mem, R.mem, A) /\ Untouched(R.mem, M.mem, A)
        BY <1>2, <1>7, <2>2
      <4> HIDE DEF A2, F, B2
      <4> QED
        BY <4>1, UntouchedTrans
    <3>2. Untouched(M.mem, U.mem, A) /\ Untouched(U.mem, T.mem, A)
      BY <2>6, <2>7, UntouchedLess
    <3>3. Untouched(S.mem, U.mem, A)
      BY <3>1, <3>2, UntouchedTrans
    <3> QED
      BY <3>2, <3>3, UntouchedTrans
  <2> QED
    BY <2>2, <2>6, <2>7, <2>9, <2>10, <2>11, <1>2, <1>6
<1> QED
  BY <1>8, <1>9


-----------------------------------------------------------------------------
(* Merging                                                                 *)

\* The block at b is free and in no list, and its header and footer are yet to be
\* written.
Loose(S, b, n, B, A, rank) ==
    /\ IsState(S) /\ S.end = "none" /\ S.mem \in [Addresses -> Words]
    /\ b \in B \ A /\ n \in 0 .. MaxWords \div 2 /\ b + 2 * n - 1 \in Addresses
    /\ Heap(FreeMem(S.mem, b, n), S.head, S.brk, B, A, (B \ A) \ {b}, rank)

\* m is the heap with the block at b: what the block does not hide is as it is in S.
Shows(m, S, b, n, B, A, rank) ==
    /\ b \in Nat /\ n \in Nat /\ n >= 2 /\ S.brk \in Nat
    /\ Heap(m, S.head, S.brk, B, A, (B \ A) \ {b}, rank)
    /\ m[b].n = n /\ m[b] = FreeTag(n) /\ Past(m, b) = b + 2 * n
    /\ m \in [Addresses -> Words]
    /\ \A f \in B \ {b} : \A a \in Extent(m, f) : S.mem[a] = m[a]
    /\ \A f \in B \ {b} : /\ S.mem[f] = m[f] /\ S.mem[f + 1] = m[f + 1]
                          /\ S.mem[f + 2] = m[f + 2]
                          /\ f \in Nat /\ m[f].kind = "meta"
                          /\ m[f].n \in Nat /\ m[f].n >= 2
                          /\ Past(m, f) = f + 2 * m[f].n
    /\ b + 2 * n \in B \cup {S.brk} /\ b + 2 * n <= S.brk

LEMMA LooseIs ==
    ASSUME NEW S, NEW b, NEW n, NEW B, NEW A, NEW rank, Loose(S, b, n, B, A, rank)
    PROVE  Shows(FreeMem(S.mem, b, n), S, b, n, B, A, rank)
<1> DEFINE F == (B \ A) \ {b}
           m == FreeMem(S.mem, b, n)
<1>1. /\ S.mem \in [Addresses -> Words] /\ b \in B /\ n \in 0 .. MaxWords \div 2
      /\ b + 2 * n - 1 \in Addresses /\ Heap(m, S.head, S.brk, B, A, F, rank)
  BY DEF Loose
<1> HIDE DEF F
<1>2. /\ b \in Nat /\ b \in Addresses /\ m[b].n >= 2 /\ Past(m, b) = b + 2 * m[b].n
      /\ Past(m, b) - 1 \in Extent(m, b) /\ b \in Extent(m, b) /\ Past(m, b) <= S.brk
  BY <1>1, BlockIs
<1>3. /\ m \in [Addresses -> Words]
      /\ \A a \in Addresses : /\ a \in {b, b + 2 * n - 1} => m[a] = FreeTag(n)
                              /\ a \notin {b, b + 2 * n - 1} => m[a] = S.mem[a]
  BY <1>1, <1>2, FreeMemIs
<1> HIDE DEF m
<1>4. m[b] = FreeTag(n) /\ m[b].n = n
  BY <1>2, <1>3, FreeTagIs
<1>5. n \in Nat /\ n >= 2 /\ Past(m, b) = b + 2 * n
  BY <1>1, <1>2, <1>4, Constants
<1>6. \A f \in B \ {b} : \A a \in Extent(m, f) : S.mem[a] = m[a]
  <2> TAKE f \in B \ {b}
  <2> TAKE a \in Extent(m, f)
  <2>1. a \in Addresses
    BY <1>1, ExtentIs
  <2>2. a # b /\ a # Past(m, b) - 1
    BY <1>1, <1>2, OneBlock
  <2>3. Past(m, b) - 1 = b + 2 * n - 1
    BY <1>2, <1>5
  <2>4. a \notin {b, b + 2 * n - 1}
    BY <2>2, <2>3
  <2> QED
    BY <2>1, <2>4, <1>3
<1>7. S.brk \in Nat /\ Tiling(m, S.brk, B)
  BY <1>1, Constants DEF Heap
<1>8. \A f \in B \ {b} : /\ S.mem[f] = m[f] /\ S.mem[f + 1] = m[f + 1]
                         /\ S.mem[f + 2] = m[f + 2]
                         /\ f \in Nat /\ m[f].kind = "meta"
                         /\ m[f].n \in Nat /\ m[f].n >= 2
                         /\ Past(m, f) = f + 2 * m[f].n
  <2> TAKE f \in B \ {b}
  <2>1. {f, f + 1, f + 2} \subseteq Extent(m, f) /\ f \in Nat
        /\ m[f].n \in Nat /\ m[f].n >= 2 /\ Past(m, f) = f + 2 * m[f].n
    BY <1>1, BlockIs
  <2>2. m[f].kind = "meta"
    BY <1>7 DEF Tiling
  <2> QED
    BY <2>1, <2>2, <1>6
<1>9. Past(m, b) \in B \cup {S.brk}
  BY <1>1, <1>7 DEF Tiling
<1> QED
  BY <1>1, <1>2, <1>3, <1>4, <1>5, <1>6, <1>7, <1>8, <1>9 DEF F, m, Shows

\* AbsorbIs with the conditions under one name.
Meets(m, mem2, B, b, c, F, d, l) ==
    /\ Past(m, b) = c /\ {b, c} \cap F = {d}
    /\ mem2[d + 1] = m[d + 1] /\ mem2[d + 2] = m[d + 2]
    /\ \A f \in B \ {b, c} : \A a \in Extent(m, f) : mem2[a] = m[a]
    /\ m[d + 2] = Zero => l = Class(m, d)

LEMMA AbsorbAt ==
    ASSUME NEW m, NEW h, NEW e, NEW B, NEW A, NEW F, NEW rank,
           Heap(m, h, e, B, A, F, rank), NEW b \in B \ A, NEW c \in B \ A, NEW d \in F,
           NEW S, IsState(S), S.mem \in [Addresses -> Words], S.head = h, NEW l,
           Meets(m, S.mem, B, b, c, F, d, l)
    PROVE  LET T == Detach(S, d, l, Prev(S, d))
           IN  /\ IsState(T) /\ T.slip = S.slip /\ T.brk = S.brk /\ T.end = S.end
               /\ T.mem \in [Addresses -> Words]
               /\ Heap(FreeMem(T.mem, b, m[b].n + m[c].n), T.head, e,
                       Less(B, c), A, Less(F, d), rank)
               /\ Untouched(m, T.mem, A)
<1>1. /\ Past(m, b) = c /\ {b, c} \cap F = {d}
      /\ S.mem[d + 1] = m[d + 1] /\ S.mem[d + 2] = m[d + 2]
      /\ \A f \in B \ {b, c} : \A a \in Extent(m, f) : S.mem[a] = m[a]
      /\ m[d + 2] = Zero => l = Class(m, d)
  BY DEF Meets
<1>2. LET T == Detach(S, d, l, Prev(S, d))
          n == m[b].n + m[c].n
      IN  /\ IsState(T) /\ T.slip = S.slip /\ T.brk = S.brk /\ T.end = S.end
          /\ T.mem \in [Addresses -> Words]
          /\ Heap(FreeMem(T.mem, b, n), T.head, e, B \ {c}, A, F \ {d}, rank)
          /\ Untouched(m, T.mem, A)
  BY SMTT(30), <1>1, AbsorbIs
<1> QED
  BY <1>2 DEF Less

Rest(B, A, b) == (B \ A) \ {b}

LEMMA LooseFrom ==
    ASSUME NEW S, IsState(S), S.end = "none", S.mem \in [Addresses -> Words],
           NEW B, NEW A, NEW rank, NEW b \in B \ A, NEW n \in Nat, n >= 2,
           Heap(FreeMem(S.mem, b, n), S.head, S.brk, B, A, Rest(B, A, b), rank)
    PROVE  Loose(S, b, n, B, A, rank)
<1> DEFINE m == FreeMem(S.mem, b, n)
<1>1. /\ b \in Addresses /\ Past(m, b) - 1 \in Addresses /\ b \in Nat
      /\ Past(m, b) = b + 2 * m[b].n /\ m[b].n <= MaxWords \div 2 /\ m[b].n \in Nat
  BY BlockIs
<1>2. b # b + 2 * n - 1 /\ b \in DOMAIN S.mem
  BY <1>1
<1>3. m[b] = FreeTag(n)
  <2> HIDE DEF m
  <2>1. m = Put(Put(S.mem, b, FreeTag(n)), b + 2 * n - 1, FreeTag(n))
    BY DEF FreeMem, m
  <2>2. b \in DOMAIN Put(S.mem, b, FreeTag(n))
    BY <1>2, PutIs
  <2>3. Put(S.mem, b, FreeTag(n))[b] = FreeTag(n)
    BY <1>2, PutIs
  <2> QED
    BY <2>1, <2>2, <2>3, <1>2, PutIs
<1>4. m[b].n = n
  BY <1>3, FreeTagIs
<1> HIDE DEF m
<1>5. n \in 0 .. MaxWords \div 2 /\ b + 2 * n - 1 \in Addresses
  <2>1. n <= MaxWords \div 2 /\ MaxWords \div 2 \in Nat
    BY <1>1, <1>4, Constants
  <2>2. Past(m, b) - 1 = b + 2 * n - 1
    BY <1>1, <1>4
  <2> QED
    BY <2>1, <2>2, <1>1
<1> QED
  BY <1>5 DEF Loose, Rest

\* What a change of m leaves of the allocated blocks, it leaves of those of S.
LEMMA SeenUntouched ==
    ASSUME NEW S, NEW b, NEW n, NEW B, NEW A, NEW rank, Loose(S, b, n, B, A, rank),
           NEW m2, Untouched(FreeMem(S.mem, b, n), m2, A)
    PROVE  Untouched(S.mem, m2, A)
<1> DEFINE m == FreeMem(S.mem, b, n)
<1>1. Shows(m, S, b, n, B, A, rank)
  BY LooseIs
<1> HIDE DEF m
<1>2. A \subseteq B \ {b}
  BY <1>1 DEF Loose, Shows, Heap
<1> SUFFICES ASSUME NEW f \in A, NEW a \in Extent(S.mem, f) PROVE m2[a] = S.mem[a]
  BY DEF Untouched
<1>3. Extent(S.mem, f) = Extent(m, f)
  BY <1>1, <1>2 DEF Extent, Past, Shows
<1>4. S.mem[a] = m[a]
  BY <1>1, <1>2, <1>3 DEF Shows
<1> QED
  BY <1>3, <1>4 DEF Untouched, m

\* The state in a round of sf_free(): next is behind the block so far.
Gathered(x, b, B, A, rank) ==
    /\ Loose(x.S, b, x.n, B, A, rank)
    /\ x.next = b + 2 * x.n

LEMMA NextStep ==
    ASSUME NEW x, NEW b, NEW B, NEW A, NEW rank, Gathered(x, b, B, A, rank),
           x.next < x.S.brk, IsFree(x.S, x.next), NEW y, y = MergeNext(x)
    PROVE  /\ Gathered(y, b, Less(B, x.next), A, rank)
           /\ y.S.brk = x.S.brk /\ Untouched(x.S.mem, y.S.mem, A)
<1> DEFINE S == x.S
           c == x.next
           m == FreeMem(S.mem, b, x.n)
           F == (B \ A) \ {b}
           k == S.mem[c].n
           R == Detach(S, c, ListOf(k), Prev(S, c))
<1>1. Loose(S, b, x.n, B, A, rank) /\ c = b + 2 * x.n
  BY DEF Gathered
<1>2. /\ b \in Nat /\ x.n \in Nat /\ x.n >= 2 /\ S.brk \in Nat
      /\ Heap(m, S.head, S.brk, B, A, F, rank)
      /\ m[b].n = x.n /\ m[b] = FreeTag(x.n) /\ Past(m, b) = b + 2 * x.n
      /\ m \in [Addresses -> Words]
      /\ \A f \in B \ {b} : \A a \in Extent(m, f) : S.mem[a] = m[a]
      /\ \A f \in B \ {b} : /\ S.mem[f] = m[f] /\ S.mem[f + 1] = m[f + 1]
                            /\ S.mem[f + 2] = m[f + 2]
                            /\ m[f].n \in Nat
      /\ b + 2 * x.n \in B \cup {S.brk}
  <2>1. Shows(m, S, b, x.n, B, A, rank)
    BY <1>1, LooseIs
  <2> QED
    BY <2>1 DEF Shows
<1>3. IsState(S) /\ S.mem \in [Addresses -> Words] /\ S.end = "none" /\ b \in B \ A
  BY <1>1 DEF Loose
<1> HIDE DEF m
<1>4. c \in B \ {b} /\ c = Past(m, b) /\ c # b
  <2>1. c # S.brk
    BY <1>2
  <2> QED
    BY <1>1, <1>2, <2>1
<1>5. S.mem[c] = m[c] /\ S.mem[c + 1] = m[c + 1] /\ S.mem[c + 2] = m[c + 2] /\ k \in Nat
  BY <1>2, <1>4
<1>6. c \notin A
  <2>1. ~m[c].alloc
    BY <1>5 DEF IsFree
  <2> QED
    BY <2>1, <1>2 DEF Heap, Allocated
<1>7. c \in F /\ {b, c} \cap F = {c} /\ c \in B \ A
  BY <1>4, <1>6
<1>8. /\ IsState(R) /\ R.slip = S.slip /\ R.brk = S.brk /\ R.end = S.end
      /\ R.mem \in [Addresses -> Words]
      /\ Heap(FreeMem(R.mem, b, m[b].n + m[c].n), R.head, S.brk, B \ {c}, A, F \ {c}, rank)
      /\ Untouched(m, R.mem, A)
  <2>1. m[c + 2] = Zero => ListOf(k) = Class(m, c)
    BY <1>5 DEF Class
  <2>2. \A f \in B \ {b, c} : \A a \in Extent(m, f) : S.mem[a] = m[a]
    BY <1>2
  <2>3. Heap(m, S.head, S.brk, B, A, F, rank) /\ b \in B \ A /\ c \in B \ A
    BY <1>2, <1>3, <1>7
  <2>4. Meets(m, S.mem, B, b, c, F, c, ListOf(k))
    <3> HIDE DEF F, S, c, k
    <3> QED
      BY <1>4, <1>5, <1>7, <2>1, <2>2 DEF Meets
  <2> HIDE DEF F, S, c, k
  <2>5. /\ IsState(R) /\ R.slip = S.slip /\ R.brk = S.brk /\ R.end = S.end
        /\ R.mem \in [Addresses -> Words]
        /\ Heap(FreeMem(R.mem, b, m[b].n + m[c].n), R.head, S.brk,
                Less(B, c), A, Less(F, c), rank)
        /\ Untouched(m, R.mem, A)
    BY <1>3, <1>7, <2>3, <2>4, AbsorbAt
  <2> QED
    BY <2>5 DEF Less
<1> HIDE DEF R
<1>9. /\ y.S = Slip(R, FALSE) /\ y.n = x.n + k /\ y.next = c + 2 * k
  <2>1. UnlinkMerged(S, c, k, k) = Slip(R, Prev(S, c) = Zero /\ ListOf(k) # ListOf(k))
    BY DEF UnlinkMerged, R
  <2>2. (Prev(S, c) = Zero /\ ListOf(k) # ListOf(k)) = FALSE
    OBVIOUS
  <2> QED
    BY <2>1, <2>2 DEF MergeNext
<1>10. /\ IsState(y.S) /\ y.S.mem = R.mem /\ y.S.head = R.head /\ y.S.brk = R.brk
       /\ y.S.end = R.end
  BY ZenonT(40), <1>8, <1>9, SlipIs
<1>11. y.n = m[b].n + m[c].n /\ y.next = b + 2 * y.n
  BY <1>1, <1>2, <1>5, <1>9
<1>13. Loose(y.S, b, y.n, Less(B, c), A, rank)
  <2>1. b \in Less(B, c) \ A /\ y.n \in Nat /\ y.n >= 2
    BY <1>2, <1>3, <1>4, <1>5, <1>11 DEF Less
  <2>2. Rest(Less(B, c), A, b) = F \ {c}
    BY DEF Rest, Less
  <2>3. Heap(FreeMem(y.S.mem, b, y.n), y.S.head, y.S.brk, Less(B, c), A,
             Rest(Less(B, c), A, b), rank)
    BY <1>8, <1>10, <1>11, <2>2 DEF Less
  <2>4. IsState(y.S) /\ y.S.end = "none" /\ y.S.mem \in [Addresses -> Words]
    BY <1>3, <1>8, <1>10
  <2> QED
    BY <2>1, <2>3, <2>4, LooseFrom
<1>14. Untouched(S.mem, R.mem, A)
  BY <1>1, <1>3, <1>8, SeenUntouched DEF m
<1> QED
  BY <1>8, <1>10, <1>11, <1>13, <1>14 DEF Gathered

\* The state in a round of Extend(): prev is before the block so far.
Stacked(x, B, A, rank) ==
    /\ Loose(x.S, x.at, x.n, B, A, rank)
    /\ x.at > 0 /\ x.prev = Before(x.S, x.at)

LEMMA BeforeIs ==
    ASSUME NEW x, NEW B, NEW A, NEW rank, Stacked(x, B, A, rank)
    PROVE  LET m == FreeMem(x.S.mem, x.at, x.n)
           IN  x.prev \in B \ {x.at} /\ Past(m, x.prev) = x.at
<1> DEFINE S == x.S
           at == x.at
           n == x.n
           m == FreeMem(S.mem, at, n)
<1>1. Loose(S, at, n, B, A, rank) /\ at > 0 /\ x.prev = Before(S, at)
  BY DEF Stacked
<1> HIDE DEF at, n
<1>2. Shows(m, S, at, n, B, A, rank)
  BY <1>1, LooseIs
<1> HIDE DEF m, S
<1>3. /\ at \in Nat /\ at \in B /\ S.brk \in Nat
      /\ Heap(m, S.head, S.brk, B, A, (B \ A) \ {at}, rank)
      /\ \A f \in B \ {at} : \A a \in Extent(m, f) : S.mem[a] = m[a]
  BY <1>1, <1>2 DEF Shows, Loose
<1>4. Tiling(m, S.brk, B)
  BY <1>3 DEF Heap
<1>5. PICK p \in B : Past(m, p) = at
  BY <1>1, <1>3, <1>4 DEF Tiling
<1>6. /\ p \in Nat /\ Past(m, p) = p + 2 * m[p].n /\ m[p].n \in Nat /\ m[p].n >= 2
      /\ Past(m, p) - 1 \in Extent(m, p)
  BY <1>3, BlockIs
<1>7. p # at
  BY <1>3, <1>5, <1>6
<1>8. S.mem[at - 1] = Foot(m, p) /\ Foot(m, p).n = m[p].n
  <2>1. at - 1 \in Extent(m, p) /\ Foot(m, p) = m[at - 1]
    BY <1>5, <1>6 DEF Foot
  <2>2. S.mem[at - 1] = m[at - 1]
    BY <2>1, <1>3, <1>7
  <2> QED
    BY <2>1, <2>2, <1>4 DEF Tiling
<1>9. Before(S, at) = at - 2 * m[p].n
  BY <1>8 DEF Before
<1>10. Before(S, at) = p
  BY <1>3, <1>5, <1>6, <1>9
<1>11. x.prev \in B \ {at} /\ Past(m, x.prev) = at
  BY <1>1, <1>5, <1>7, <1>10
<1> QED
  BY <1>11 DEF m, S, at, n

LEMMA BackStep ==
    ASSUME NEW x, NEW B, NEW A, NEW rank, Stacked(x, B, A, rank),
           x.prev > 0, IsFree(x.S, x.prev), NEW y, y = MergeBack(x), ~y.S.slip
    PROVE  /\ Stacked(y, Less(B, x.at), A, rank)
           /\ y.S.brk = x.S.brk /\ Untouched(x.S.mem, y.S.mem, A)
<1> DEFINE S == x.S
           at == x.at
           p == x.prev
           m == FreeMem(S.mem, at, x.n)
           F == (B \ A) \ {at}
           k == S.mem[p].n
           N == k + x.n
           Q == MakeFree(S, p, N)
           l == ListOf(N)
           R == Detach(Q, p, l, Prev(Q, p))
<1>1. Loose(S, at, x.n, B, A, rank) /\ at > 0
  BY DEF Stacked
<1>2. Shows(m, S, at, x.n, B, A, rank) /\ p \in B \ {at} /\ Past(m, p) = at
  BY <1>1, LooseIs, BeforeIs
<1>3. /\ at \in Nat /\ x.n \in Nat /\ x.n >= 2 /\ S.brk \in Nat
      /\ Heap(m, S.head, S.brk, B, A, F, rank)
      /\ m[at].n = x.n /\ Past(m, at) = at + 2 * x.n
      /\ m \in [Addresses -> Words]
      /\ \A f \in B \ {at} : \A a \in Extent(m, f) : S.mem[a] = m[a]
      /\ S.mem[p] = m[p] /\ S.mem[p + 1] = m[p + 1] /\ S.mem[p + 2] = m[p + 2]
      /\ k = m[p].n /\ k \in Nat /\ k >= 2 /\ p \in Nat /\ Past(m, p) = p + 2 * k
  BY <1>2 DEF Shows
<1>4. IsState(S) /\ S.mem \in [Addresses -> Words] /\ S.end = "none" /\ at \in B \ A
  BY <1>1 DEF Loose
<1> HIDE DEF m
<1>5. p \notin A
  <2>1. ~m[p].alloc
    BY <1>3 DEF IsFree
  <2> QED
    BY <2>1, <1>3 DEF Heap, Allocated
<1>6. p \in F /\ {p, at} \cap F = {p} /\ p \in B \ A
  BY <1>2, <1>5
<1> HIDE DEF S, at, p, F, k
<1>7. N \in Nat /\ N >= 2 /\ p + 2 * N - 1 = Past(m, at) - 1
  BY <1>2, <1>3
<1>8. /\ p \in Addresses /\ p + 1 \in Addresses /\ p + 2 \in Addresses
      /\ Past(m, at) - 1 \in Addresses /\ p \in Extent(m, p)
      /\ Past(m, at) - 1 \in Extent(m, at) /\ Past(m, at) <= S.brk /\ S.brk <= MaxWords
      /\ p + 2 < at /\ Past(m, at) \in Nat
  <2>1. /\ Past(m, at) - 1 \in Addresses /\ Past(m, at) - 1 \in Extent(m, at)
        /\ Past(m, at) <= S.brk /\ S.brk <= MaxWords /\ Past(m, at) \in Nat
    BY <1>3, <1>4, BlockIs
  <2>2. /\ p \in Addresses /\ p + 1 \in Addresses /\ p + 2 \in Addresses
        /\ p \in Extent(m, p)
    BY <1>3, <1>6, BlockIs
  <2> QED
    BY <2>1, <2>2, <1>2, <1>3
<1>9. N \in 0 .. MaxWords \div 2
  BY <1>3, <1>7, <1>8, Constants
<1>10. /\ IsState(Q) /\ Q.mem = FreeMem(S.mem, p, N)
       /\ Q.head = S.head /\ Q.brk = S.brk /\ Q.end = S.end /\ Q.slip = S.slip
  BY <1>4, MakeFreeIs
<1> HIDE DEF N, Q, l
<1>11. /\ Q.mem \in [Addresses -> Words]
       /\ \A a \in Addresses : a \notin {p, p + 2 * N - 1} => Q.mem[a] = S.mem[a]
  <2>1. p + 2 * N - 1 \in Addresses
    BY <1>7, <1>8
  <2>2. LET m2 == FreeMem(S.mem, p, N)
        IN  /\ m2 \in [Addresses -> Words]
            /\ \A a \in Addresses : a \notin {p, p + 2 * N - 1} => m2[a] = S.mem[a]
    BY <2>1, <1>4, <1>8, <1>9, FreeMemIs
  <2> QED
    BY <2>2, <1>10
<1>12. Q.mem[p + 1] = m[p + 1] /\ Q.mem[p + 2] = m[p + 2]
  BY <1>3, <1>7, <1>8, <1>11
<1>13. \A f \in B \ {p, at} : \A a \in Extent(m, f) : Q.mem[a] = m[a]
  <2> TAKE f \in B \ {p, at}
  <2> TAKE a \in Extent(m, f)
  <2>1. a \in Addresses
    BY <1>3, ExtentIs
  <2>2. a # p /\ a # Past(m, at) - 1
    BY <1>3, <1>4, <1>6, <1>8, OneBlock
  <2>3. S.mem[a] = m[a]
    BY <1>3
  <2> QED
    BY <2>1, <2>2, <2>3, <1>7, <1>11
<1>14. /\ y.S = Slip(R, Prev(Q, p) = Zero /\ l # ListOf(k))
       /\ y.at = p /\ y.n = N /\ y.prev = Before(y.S, y.at)
  BY DEF MergeBack, Merged, Page, UnlinkMerged, R, Q, N, l, k, p, S
<1>15. IsState(R)
  BY <1>10, DetachIs DEF R
<1>16. /\ IsState(y.S) /\ y.S.mem = R.mem /\ y.S.head = R.head /\ y.S.brk = R.brk
       /\ y.S.end = R.end /\ ~(Prev(Q, p) = Zero /\ l # ListOf(k))
  <2> DEFINE wrong == Prev(Q, p) = Zero /\ l # ListOf(k)
  <2>1. wrong \in BOOLEAN
    OBVIOUS
  <2> HIDE DEF wrong, R
  <2>2. y.S = Slip(R, wrong)
    BY <1>14 DEF wrong
  <2>3. /\ IsState(y.S) /\ y.S.mem = R.mem /\ y.S.head = R.head /\ y.S.brk = R.brk
        /\ y.S.end = R.end /\ (y.S.slip <=> R.slip \/ wrong)
    BY <1>15, <2>1, <2>2, SlipIs
  <2>4. ~wrong
    BY <2>3
  <2> QED
    BY <2>3, <2>4 DEF wrong
<1>17. m[p + 2] = Zero => l = Class(m, p)
  <2>1. m[p + 2] = Zero => l = ListOf(k)
    BY <1>12, <1>16 DEF Prev
  <2> QED
    BY <2>1, <1>3 DEF Class
<1>18. /\ IsState(R) /\ R.brk = Q.brk /\ R.end = Q.end
       /\ R.mem \in [Addresses -> Words]
       /\ Heap(FreeMem(R.mem, p, m[p].n + m[at].n), R.head, S.brk,
               Less(B, at), A, Less(F, p), rank)
       /\ Untouched(m, R.mem, A)
  <2>1. Meets(m, Q.mem, B, p, at, F, p, l)
    BY <1>2, <1>6, <1>12, <1>13, <1>17 DEF Meets
  <2>2. Heap(m, S.head, S.brk, B, A, F, rank) /\ p \in B \ A /\ at \in B \ A /\ p \in F
    BY <1>3, <1>4, <1>6
  <2>3. IsState(Q) /\ Q.mem \in [Addresses -> Words] /\ Q.head = S.head
    BY <1>10, <1>11
  <2> QED
    BY <2>1, <2>2, <2>3, AbsorbAt
<1> HIDE DEF R
<1>19. m[p].n + m[at].n = N
  BY <1>3 DEF N
<1>20. Loose(y.S, p, N, Less(B, at), A, rank)
  <2>1. p \in Less(B, at) \ A
    BY <1>2, <1>6 DEF Less
  <2>2. Rest(Less(B, at), A, p) = Less(F, p)
    BY DEF Rest, Less, F
  <2>3. Heap(FreeMem(y.S.mem, p, N), y.S.head, y.S.brk, Less(B, at), A,
             Rest(Less(B, at), A, p), rank)
    BY <1>10, <1>16, <1>18, <1>19, <2>2
  <2>4. IsState(y.S) /\ y.S.end = "none" /\ y.S.mem \in [Addresses -> Words]
    BY <1>4, <1>10, <1>16, <1>18
  <2> QED
    BY <1>7, <2>1, <2>3, <2>4, LooseFrom
<1>21. Untouched(S.mem, R.mem, A)
  BY <1>1, <1>18, SeenUntouched DEF m
<1>22. p > 0
  BY DEF p
<1>23. y.S.brk = S.brk /\ Untouched(S.mem, y.S.mem, A)
  BY <1>10, <1>16, <1>18, <1>21
<1>24. Stacked(y, Less(B, at), A, rank)
  BY <1>14, <1>20, <1>22 DEF Stacked
<1> QED
  BY <1>23, <1>24 DEF S, at

\* What holds from round to round of sf_free() for a heap that was S0.
Gathering(S0, e, b, A, rank, y) ==
    \E B : /\ Gathered(y, b, B, A, rank) /\ y.S.brk = e
           /\ Untouched(S0.mem, y.S.mem, A)

LEMMA NextsOk ==
    ASSUME NEW S0, NEW B0, NEW A0, NEW F0, NEW rank0, Held(S0, B0, A0, F0, rank0),
           NEW A \in SUBSET A0, NEW e, NEW b, NEW rank, NEW x,
           Gathering(S0, e, b, A, rank, x)
    PROVE  Gathering(S0, e, b, A, rank,
                     While(MaxBlocks, LAMBDA y : y.next < y.S.brk /\ IsFree(y.S, y.next),
                           MergeNext, x))
<1> DEFINE z == While(MaxBlocks, LAMBDA y : y.next < y.S.brk /\ IsFree(y.S, y.next),
                      MergeNext, x)
<1>1. ASSUME NEW y, Gathering(S0, e, b, A, rank, y)
      PROVE  Gathering(S0, e, b, A, rank, NextsTurn(y))
  <2>1. PICK B : Gathered(y, b, B, A, rank) /\ y.S.brk = e /\ Untouched(S0.mem, y.S.mem, A)
    BY <1>1 DEF Gathering
  <2>2. CASE y.next < y.S.brk /\ IsFree(y.S, y.next)
    <3> DEFINE w == MergeNext(y)
    <3>1. NextsTurn(y) = w
      BY <2>2 DEF NextsTurn
    <3>2. /\ Gathered(w, b, Less(B, y.next), A, rank)
          /\ w.S.brk = y.S.brk /\ Untouched(y.S.mem, w.S.mem, A)
      BY <2>1, <2>2, NextStep
    <3> HIDE DEF w
    <3>3. Untouched(S0.mem, w.S.mem, A)
      BY <2>1, <3>2, UntouchedTrans
    <3> QED
      BY <2>1, <3>1, <3>2, <3>3 DEF Gathering
  <2>3. CASE ~(y.next < y.S.brk /\ IsFree(y.S, y.next))
    BY <1>1, <2>3 DEF NextsTurn
  <2> QED
    BY <2>2, <2>3
<1>2. MaxBlocks \in Nat
  BY Constants
<1>3. PICK t : /\ t[0] = x
               /\ \A k \in 0 .. MaxBlocks - 1 : t[k + 1] = NextsTurn(t[k])
               /\ z = t[MaxBlocks]
  BY <1>2, NextsLoop
<1> HIDE DEF z
<1> DEFINE Good == {k \in 0 .. MaxBlocks : Gathering(S0, e, b, A, rank, t[k])}
<1>4. 0 \in Good
  BY <1>2, <1>3
<1>5. ASSUME NEW k \in 0 .. MaxBlocks - 1, k \in Good
      PROVE  k + 1 \in Good
  <2>1. Gathering(S0, e, b, A, rank, t[k]) /\ t[k + 1] = NextsTurn(t[k])
    BY <1>3, <1>5
  <2>2. Gathering(S0, e, b, A, rank, t[k + 1])
    BY <1>1, <2>1
  <2> QED
    BY <1>2, <2>2
<1> HIDE DEF Good
<1>6. MaxBlocks \in Good
  BY <1>2, <1>4, <1>5, BoundedInduction
<1>7. Gathering(S0, e, b, A, rank, z)
  BY <1>3, <1>6 DEF Good
<1> QED
  BY <1>7 DEF z

\* Header and footer are written.
LEMMA WrittenOk ==
    ASSUME NEW S, NEW b, NEW n, NEW B, NEW A, NEW rank, Loose(S, b, n, B, A, rank)
    PROVE  LET T == MakeFree(S, b, n)
           IN  /\ Held(T, B, A, Rest(B, A, b), rank)
               /\ T.slip = S.slip /\ T.brk = S.brk /\ Untouched(S.mem, T.mem, A)
               /\ T.mem[b + 2] = S.mem[b + 2] /\ T.mem[b].n = n
<1> DEFINE m == FreeMem(S.mem, b, n)
           T == MakeFree(S, b, n)
<1>1. IsState(S) /\ S.end = "none" /\ S.mem \in [Addresses -> Words]
  BY DEF Loose
<1>2. /\ IsState(T) /\ T.mem = m
      /\ T.head = S.head /\ T.brk = S.brk /\ T.end = S.end /\ T.slip = S.slip
  BY <1>1, MakeFreeIs
<1>3. Shows(m, S, b, n, B, A, rank)
  BY LooseIs
<1>4. Untouched(S.mem, m, A)
  BY UntouchedSame, SeenUntouched
<1> HIDE DEF T
<1>5. m[b + 2] = S.mem[b + 2]
  <2> DEFINE z == b + 2 * n - 1
  <2>1. b \in Nat /\ n \in Nat /\ n >= 2 /\ b + 2 # b /\ b + 2 # z /\ b + 2 <= z
    BY <1>3 DEF Shows
  <2>2. z \in Addresses /\ b \in Addresses /\ n \in 0 .. MaxWords \div 2
    BY <1>3, BlockIs DEF Loose, Shows
  <2>3. b + 2 \in Addresses
    BY <2>1, <2>2, Constants DEF Addresses
  <2>4. \A a \in Addresses : a \notin {b, z} => m[a] = S.mem[a]
    BY <1>1, <2>2, FreeMemIs
  <2> QED
    BY <2>1, <2>3, <2>4
<1>6. m[b].n = n /\ Heap(m, S.head, S.brk, B, A, Rest(B, A, b), rank)
  BY <1>3 DEF Shows, Rest
<1> HIDE DEF m
<1>7. Held(T, B, A, Rest(B, A, b), rank)
  BY <1>1, <1>2, <1>6 DEF Held
<1> QED
  BY <1>2, <1>4, <1>5, <1>6, <1>7 DEF T

\* The links are cleared and the block put into its list.
LEMMA ListedOk ==
    ASSUME NEW S, NEW B, NEW A, NEW rank, NEW b \in B \ A,
           Held(S, B, A, Rest(B, A, b), rank), S.mem[b + 2] = Zero
    PROVE  LET T == Push(S, b)
           IN  /\ Whole(T, B, A) /\ T.slip = S.slip /\ T.brk = S.brk
               /\ SameTags(S.mem, T.mem, B) /\ Untouched(S.mem, T.mem, A)
<1> DEFINE T == Push(S, b)
           F == Rest(B, A, b)
<1>1. b \notin F /\ F \cup {b} = B \ A
  BY DEF Rest
<1> HIDE DEF F
<1>2. /\ \E q : Held(T, B, A, F \cup {b}, q)
      /\ T.slip = S.slip /\ T.brk = S.brk
      /\ SameTags(S.mem, T.mem, B) /\ Untouched(S.mem, T.mem, A)
  BY <1>1, PushOk DEF F
<1> HIDE DEF T
<1>3. Whole(T, B, A)
  BY <1>1, <1>2 DEF Whole
<1> QED
  BY <1>2, <1>3 DEF T

LEMMA ReleaseOk ==
    ASSUME NEW S0, NEW B0, NEW A0, NEW F0, NEW rank0, Held(S0, B0, A0, F0, rank0),
           NEW A \in SUBSET A0, NEW e, NEW b, NEW rank, NEW y,
           Gathering(S0, e, b, A, rank, y)
    PROVE  LET T == Release(y, b)
           IN  /\ \E B : Whole(T, B, A)
               /\ T.brk = e /\ Untouched(S0.mem, T.mem, A)
<1> DEFINE S == y.S
           R == MakeFree(S, b, y.n)
           C == ClearLinks(R, b)
           T == Push(C, b)
<1>1. PICK B : Gathered(y, b, B, A, rank) /\ S.brk = e /\ Untouched(S0.mem, S.mem, A)
  BY DEF Gathering
<1>2. Loose(S, b, y.n, B, A, rank) /\ y.next = b + 2 * y.n
  BY <1>1 DEF Gathered
<1>3. b \in B \ A
  BY <1>2 DEF Loose
<1>4. y.next < S.brk => IsBlock(S, y.next)
  <2> DEFINE m == FreeMem(S.mem, b, y.n)
  <2>1. Shows(m, S, b, y.n, B, A, rank)
    BY <1>2, LooseIs
  <2> HIDE DEF m
  <2>2. y.next < S.brk => y.next \in B \ {b}
    BY <1>2, <2>1 DEF Shows
  <2> QED
    BY <2>1, <2>2 DEF Shows, IsBlock
<1>5. Release(y, b) = T
  BY <1>4 DEF Release
<1>6. /\ Held(R, B, A, Rest(B, A, b), rank)
      /\ R.brk = S.brk /\ Untouched(S.mem, R.mem, A)
  BY <1>2, WrittenOk
<1> HIDE DEF S, R
<1>7. b \notin Rest(B, A, b)
  BY DEF Rest
<1>8. /\ Held(C, B, A, Rest(B, A, b), rank) /\ C.brk = R.brk
      /\ Untouched(R.mem, C.mem, A) /\ C.mem[b + 2] = Zero
  BY <1>3, <1>6, <1>7, ClearOk
<1> HIDE DEF C
<1>9. Whole(T, B, A) /\ T.brk = C.brk /\ Untouched(C.mem, T.mem, A)
  BY <1>3, <1>8, ListedOk
<1> HIDE DEF T
<1>10. Untouched(S0.mem, R.mem, A)
  BY <1>1, <1>6, UntouchedTrans
<1>11. Untouched(S0.mem, C.mem, A)
  BY <1>8, <1>10, UntouchedTrans
<1>12. Untouched(S0.mem, T.mem, A)
  BY <1>9, <1>11, UntouchedTrans
<1> QED
  BY <1>1, <1>5, <1>6, <1>8, <1>9, <1>12

\* A block the client holds is freed.
LEMMA FreeOk ==
    ASSUME NEW S, NEW B, NEW A, Whole(S, B, A), NEW b \in A
    PROVE  LET T == sf_free(S, b)
           IN  /\ \E B2 : Whole(T, B2, Less(A, b))
               /\ T.brk = S.brk /\ Untouched(S.mem, T.mem, Less(A, b))
<1>1. PICK rank : Held(S, B, A, B \ A, rank)
  BY DEF Whole
<1> DEFINE n == S.mem[b].n
           R == MakeFree(S, b, n)
           x == [S |-> R, n |-> n, next |-> Footer(S, b) + 1]
           y == While(MaxBlocks, LAMBDA z : z.next < z.S.brk /\ IsFree(z.S, z.next),
                      MergeNext, x)
           A2 == Less(A, b)
           F == B \ A
           m2 == FreeMem(S.mem, b, n)
<1>2. /\ IsState(S) /\ S.end = "none" /\ Heap(S.mem, S.head, S.brk, B, A, F, rank)
      /\ S.mem \in [Addresses -> Words] /\ A \subseteq B /\ b \in B /\ S.brk \in Nat
      /\ Tiling(S.mem, S.brk, B) /\ Allocated(S.mem, b)
  BY <1>1, Constants DEF Held, Heap
<1>3. /\ b \in Nat /\ n \in Nat /\ n >= 2 /\ Past(S.mem, b) = b + 2 * n
      /\ Past(S.mem, b) \in Nat /\ Past(S.mem, b) <= S.brk
      /\ n <= MaxWords \div 2 /\ b \in Addresses /\ Past(S.mem, b) - 1 \in Addresses
      /\ b \in Extent(S.mem, b) /\ Past(S.mem, b) - 1 \in Extent(S.mem, b)
  BY <1>2, BlockIs
<1>4. Footer(S, b) = Past(S.mem, b) - 1 /\ Footer(S, b) + 1 = b + 2 * n
  BY <1>3 DEF Footer
<1>5. IsBlock(S, b) /\ Sane(S, b)
  <2>1. S.mem[b].kind = "meta" /\ S.mem[Footer(S, b)] = Foot(S.mem, b)
    BY <1>2, <1>4 DEF Tiling, Foot
  <2> QED
    BY <2>1, <1>2, <1>3, <1>4 DEF IsBlock, Sane, Allocated
<1>6. sf_free(S, b) = Release(y, b)
  BY <1>5 DEF sf_free
<1>7. /\ IsState(R) /\ R.mem = m2
      /\ R.head = S.head /\ R.brk = S.brk /\ R.end = S.end /\ R.slip = S.slip
  BY <1>2, MakeFreeIs
<1>8. x.S = R /\ x.n = n /\ x.next = b + 2 * n
  BY <1>4
<1> HIDE DEF n, R, x, y
<1>9. /\ n \in 0 .. MaxWords \div 2 /\ b + 2 * n - 1 = Past(S.mem, b) - 1
      /\ b + 2 * n - 1 \in Addresses
  BY <1>3, Constants
<1>10. /\ m2 \in [Addresses -> Words]
       /\ \A a \in Addresses : /\ a \in {b, b + 2 * n - 1} => m2[a] = FreeTag(n)
                               /\ a \notin {b, b + 2 * n - 1} => m2[a] = S.mem[a]
  BY <1>2, <1>3, <1>9, FreeMemIs
<1> HIDE DEF m2
<1>11. m2[b] = FreeTag(n) /\ m2[Past(S.mem, b) - 1] = FreeTag(n)
  BY <1>3, <1>9, <1>10
<1>12. Untouched(S.mem, m2, B \ {b})
  <2> SUFFICES ASSUME NEW f \in B \ {b}, NEW a \in Extent(S.mem, f)
               PROVE  m2[a] = S.mem[a]
    BY DEF Untouched
  <2>1. a \in Addresses
    BY <1>2, ExtentIs
  <2>2. a # b /\ a # Past(S.mem, b) - 1
    BY <1>2, <1>3, OneBlock
  <2>3. a \notin {b, b + 2 * n - 1}
    BY <2>2, <1>9
  <2> QED
    BY <2>1, <2>3, <1>10
<1>13. /\ A2 \in SUBSET B /\ b \notin A2 /\ \A f \in B \ {b} : f \in A2 <=> f \in A
       /\ b \in B \ F /\ A \ {b} = A2 /\ Rest(B, A2, b) = F /\ b \in B \ A2
       /\ A2 \in SUBSET A
  BY <1>2 DEF Less, Rest
<1> HIDE DEF A2, F
<1>14. Heap(m2, S.head, S.brk, B, A2, F, rank) /\ Untouched(S.mem, m2, A2)
  <2>1. /\ m2[b].kind = "meta" /\ m2[b].n = S.mem[b].n
        /\ m2[Past(S.mem, b) - 1].kind = "meta" /\ m2[Past(S.mem, b) - 1].n = S.mem[b].n
        /\ Idle(m2, b)
    BY <1>11, FreeTagIs DEF n, Idle
  <2>2. (b \in A2 => Allocated(m2, b)) /\ (b \notin A2 => Idle(m2, b))
    BY <1>13, <2>1
  <2>3. /\ Heap(m2, S.head, S.brk, B, A2, F, rank) /\ Untouched(S.mem, m2, A \ {b})
    BY <1>2, <1>10, <1>12, <1>13, <2>1, <2>2, Changing
  <2> QED
    BY <1>13, <2>3
<1>15. FreeMem(m2, b, n) = m2
  <2> DEFINE m3 == FreeMem(m2, b, n)
  <2>1. /\ m3 \in [Addresses -> Words]
        /\ \A a \in Addresses : /\ a \in {b, b + 2 * n - 1} => m3[a] = FreeTag(n)
                                /\ a \notin {b, b + 2 * n - 1} => m3[a] = m2[a]
    BY <1>3, <1>9, <1>10, FreeMemIs
  <2> HIDE DEF m3
  <2>2. \A a \in Addresses : m3[a] = m2[a]
    BY <1>10, <2>1
  <2>3. m3 = m2
    BY <1>10, <2>1, <2>2
  <2> QED
    BY <2>3 DEF m3
<1>16. Loose(R, b, n, B, A2, rank)
  <2>1. Heap(FreeMem(R.mem, b, n), R.head, R.brk, B, A2, Rest(B, A2, b), rank)
    BY <1>7, <1>13, <1>14, <1>15
  <2>2. IsState(R) /\ R.end = "none" /\ R.mem \in [Addresses -> Words]
    BY <1>2, <1>7, <1>10
  <2> QED
    BY <1>3, <1>13, <2>1, <2>2, LooseFrom
<1>17. Gathering(S, S.brk, b, A2, rank, x)
  <2>1. Gathered(x, b, B, A2, rank)
    BY <1>8, <1>16 DEF Gathered
  <2> QED
    BY <2>1, <1>7, <1>8, <1>14 DEF Gathering
<1>18. Gathering(S, S.brk, b, A2, rank, y)
  <2>1. Held(S, B, A, F, rank)
    BY <1>1 DEF F
  <2> QED
    BY <2>1, <1>13, <1>17, NextsOk DEF y
<1>19. LET T == Release(y, b)
       IN  (\E B2 : Whole(T, B2, A2)) /\ T.brk = S.brk /\ Untouched(S.mem, T.mem, A2)
  <2>1. Held(S, B, A, F, rank)
    BY <1>1 DEF F
  <2> QED
    BY <2>1, <1>13, <1>18, ReleaseOk
<1> QED
  BY <1>6, <1>19 DEF A2

-----------------------------------------------------------------------------
(* Another page                                                            *)

\* The page at the old end of the heap is a free block that is yet to be written.
LEMMA PageOk ==
    ASSUME NEW S, NEW B, NEW A, NEW rank, Held(S, B, A, B \ A, rank),
           S.brk > 0, S.brk + PageWords <= MaxWords
    PROVE  LET x == Page([S EXCEPT !.brk = S.brk + PageWords], S.brk, PageWords \div 2)
           IN  /\ Stacked(x, Plus(B, S.brk), A, rank)
               /\ x.S.brk = S.brk + PageWords /\ x.S.mem = S.mem
<1> DEFINE e == S.brk
           e2 == e + PageWords
           n == PageWords \div 2
           R == [S EXCEPT !.brk = e2]
           x == Page(R, e, n)
           m == S.mem
           m2 == FreeMem(m, e, n)
           F == B \ A
           B2 == Plus(B, e)
<1>1. IsState(S) /\ S.end = "none" /\ Heap(m, S.head, e, B, A, F, rank)
  BY DEF Held
<1>2. /\ m \in [Addresses -> Words] /\ S.head \in [Lists -> Words] /\ e \in 0 .. MaxWords
      /\ Tiling(m, e, B) /\ A \subseteq B /\ F \subseteq B \ A
      /\ \A b \in A : Allocated(m, b)
      /\ \A b \in B \ A : Idle(m, b)
      /\ rank \in [Addresses -> Int] /\ Linked(m, S.head, F, rank)
  BY <1>1 DEF Heap
<1>3. /\ e \in Nat /\ n \in Nat /\ n >= 2 /\ e2 = e + 2 * n /\ e2 \in Nat
      /\ n \in 0 .. MaxWords \div 2 /\ e2 \in 0 .. MaxWords
      /\ e \in Addresses /\ e + 2 * n - 1 \in Addresses
  BY <1>2, Constants, SMTT(30) DEF Addresses
<1>4. /\ IsState(R) /\ R.brk = e2
      /\ R.mem = m /\ R.head = S.head /\ R.end = S.end /\ R.slip = S.slip
  BY <1>1, SetBrkIs
<1>5. x.S = R /\ x.at = e /\ x.n = n /\ x.prev = Before(x.S, x.at)
  BY DEF Page
<1> HIDE DEF R, x, m, F
<1>6. /\ m2 \in [Addresses -> Words]
      /\ \A a \in Addresses : /\ a \in {e, e + 2 * n - 1} => m2[a] = FreeTag(n)
                              /\ a \notin {e, e + 2 * n - 1} => m2[a] = m[a]
  BY <1>2, <1>3, FreeMemIs
<1> HIDE DEF m2, n, e, e2
<1>7. m2[e] = FreeTag(n) /\ m2[e + 2 * n - 1] = FreeTag(n)
  BY <1>3, <1>6
<1>8. m2[e].kind = "meta" /\ m2[e].n = n /\ Idle(m2, e) /\ Past(m2, e) = e + 2 * n
      /\ Foot(m2, e).kind = "meta" /\ Foot(m2, e).n = n
  <2>1. m2[e].kind = "meta" /\ m2[e].n = n /\ Idle(m2, e)
    BY <1>7, FreeTagIs DEF Idle
  <2>2. Past(m2, e) = e + 2 * n
    BY <2>1 DEF Past
  <2>3. Foot(m2, e) = FreeTag(n)
    BY <1>3, <1>7, <2>2 DEF Foot
  <2> QED
    BY <2>1, <2>2, <2>3, FreeTagIs
<1>9. \A b \in B : \A a \in Extent(m, b) : m2[a] = m[a]
  <2> TAKE b \in B
  <2> TAKE a \in Extent(m, b)
  <2>1. b \in Nat /\ Past(m, b) \in Nat /\ Past(m, b) <= e
    BY <1>1, BlockIs
  <2>2. a < e /\ a \in Addresses
    BY <2>1, <1>1, <1>3, ExtentIs DEF Extent
  <2>3. a \notin {e, e + 2 * n - 1}
    BY <2>2, <1>3 DEF Addresses
  <2> QED
    BY <2>2, <2>3, <1>6
<1>10. \A b \in B : {b, b + 1, b + 2, Past(m, b) - 1} \subseteq Extent(m, b)
  BY <1>1, BlockIs
<1>11. SameTags(m, m2, B)
  <2> SUFFICES ASSUME NEW b \in B PROVE m2[b] = m[b] /\ m2[Past(m, b) - 1] = Foot(m, b)
    BY DEF SameTags, Past, Foot
  <2> QED
    BY <1>9, <1>10 DEF Foot
<1>12. Tiling(m2, e2, Plus(B, e)) /\ e \notin B
  <2>1. e > 0
    BY DEF e
  <2>2. Tiling(m2, e2, B \cup {e}) /\ e \notin B
    BY ZenonT(40), <1>2, <1>3, <1>8, <1>11, <2>1, Adding
  <2> QED
    BY <2>2 DEF Plus
<1>13. \A b \in A : Allocated(m2, b)
  BY <1>2, <1>11, AllocatedKept DEF SameTags
<1>14. \A b \in B2 \ A : Idle(m2, b)
  BY <1>2, <1>8, <1>11 DEF SameTags, Idle, Plus
<1>15. Linked(m2, S.head, F, rank)
  <2>1. \A b \in F : m2[b] = m[b] /\ m2[b + 1] = m[b + 1] /\ m2[b + 2] = m[b + 2]
    BY <1>2, <1>9, <1>10
  <2> QED
    BY <2>1, <1>2, LinkedKept
<1>16. /\ A \subseteq B2 /\ F \subseteq B2 \ A /\ Rest(B2, A, e) = F /\ e \in B2 \ A
  BY <1>2, <1>12 DEF Plus, Rest, F
<1>17. Heap(m2, S.head, e2, B2, A, F, rank)
  BY <1>2, <1>3, <1>6, <1>12, <1>13, <1>14, <1>15, <1>16 DEF Heap
<1> HIDE DEF B2
<1>18. Loose(R, e, n, B2, A, rank)
  <2>1. Heap(FreeMem(R.mem, e, n), R.head, R.brk, B2, A, Rest(B2, A, e), rank)
    BY <1>4, <1>16, <1>17 DEF m2
  <2>2. IsState(R) /\ R.end = "none" /\ R.mem \in [Addresses -> Words]
    BY <1>1, <1>2, <1>4
  <2> QED
    BY <1>3, <1>16, <2>1, <2>2, LooseFrom
<1>19. Stacked(x, B2, A, rank)
  <2>1. e > 0
    BY DEF e
  <2> QED
    BY <2>1, <1>5, <1>18 DEF Stacked
<1> QED
  BY <1>4, <1>5, <1>19 DEF x, R, B2, e, e2, n, m

\* What holds from round to round of Extend() for a heap that was S0.
Stacking(S0, e, A, rank, y) ==
    \E B : Stacked(y, B, A, rank) /\ y.S.brk = e /\ Untouched(S0.mem, y.S.mem, A)

LEMMA BacksOk ==
    ASSUME NEW S0, NEW B0, NEW A, NEW F0, NEW rank0, Held(S0, B0, A, F0, rank0),
           NEW e, NEW rank, NEW x, Stacking(S0, e, A, rank, x)
    PROVE  LET z == While(MaxBlocks, LAMBDA y : y.prev > 0 /\ IsFree(y.S, y.prev),
                          MergeBack, x)
           IN  IsState(z.S) /\ (~z.S.slip => Stacking(S0, e, A, rank, z))
<1> DEFINE z == While(MaxBlocks, LAMBDA y : y.prev > 0 /\ IsFree(y.S, y.prev), MergeBack, x)
           Fine(y) == IsState(y.S) /\ (~y.S.slip => Stacking(S0, e, A, rank, y))
<1>1. ASSUME NEW y, Fine(y)
      PROVE  Fine(BacksTurn(y))
  <2> DEFINE w == BacksTurn(y)
  <2>1. IsState(w.S) /\ (~w.S.slip => ~y.S.slip)
    BY <1>1, MergeBackLater DEF Later
  <2>2. ASSUME ~w.S.slip
        PROVE  Stacking(S0, e, A, rank, w)
    <3>1. PICK B : Stacked(y, B, A, rank) /\ y.S.brk = e /\ Untouched(S0.mem, y.S.mem, A)
      BY <1>1, <2>1, <2>2 DEF Stacking
    <3>2. CASE y.prev > 0 /\ IsFree(y.S, y.prev)
      <4> DEFINE v == MergeBack(y)
      <4>1. w = v
        BY <3>2 DEF BacksTurn
      <4>2. ~v.S.slip
        BY <2>2, <4>1
      <4>3. /\ Stacked(v, Less(B, y.at), A, rank)
            /\ v.S.brk = y.S.brk /\ Untouched(y.S.mem, v.S.mem, A)
        BY <3>1, <3>2, <4>2, BackStep
      <4> HIDE DEF v, w
      <4>4. Untouched(S0.mem, v.S.mem, A)
        BY <3>1, <4>3, UntouchedTrans
      <4> QED
        BY <3>1, <4>1, <4>3, <4>4 DEF Stacking
    <3>3. CASE ~(y.prev > 0 /\ IsFree(y.S, y.prev))
      <4>1. w = y
        BY <3>3 DEF BacksTurn
      <4> HIDE DEF w
      <4> QED
        BY <3>1, <4>1 DEF Stacking
    <3> QED
      BY <3>2, <3>3
  <2> QED
    BY <2>1, <2>2
<1>2. MaxBlocks \in Nat
  BY Constants
<1>3. PICK t : /\ t[0] = x
               /\ \A k \in 0 .. MaxBlocks - 1 : t[k + 1] = BacksTurn(t[k])
               /\ z = t[MaxBlocks]
  BY <1>2, BacksLoop
<1> HIDE DEF z
<1>4. Fine(x)
  BY DEF Stacking, Stacked, Loose
<1> HIDE DEF Fine
<1> DEFINE Good == {k \in 0 .. MaxBlocks : Fine(t[k])}
<1>5. 0 \in Good
  BY <1>2, <1>3, <1>4
<1>6. ASSUME NEW k \in 0 .. MaxBlocks - 1, k \in Good
      PROVE  k + 1 \in Good
  <2>1. Fine(t[k]) /\ t[k + 1] = BacksTurn(t[k])
    BY <1>3, <1>6
  <2>2. Fine(t[k + 1])
    BY <1>1, <2>1
  <2> QED
    BY <1>2, <2>2
<1> HIDE DEF Good
<1>7. MaxBlocks \in Good
  BY <1>2, <1>5, <1>6, BoundedInduction
<1>8. Fine(z)
  BY <1>3, <1>7 DEF Good
<1> QED
  BY <1>8 DEF Fine, z

LEMMA AddPageOk ==
    ASSUME NEW S0, NEW B0, NEW A, NEW F0, NEW rank0, Held(S0, B0, A, F0, rank0),
           NEW e, NEW rank, NEW y, Stacking(S0, e, A, rank, y), ~AddPage(y).slip
    PROVE  LET T == AddPage(y)
           IN  (\E B : Whole(T, B, A)) /\ T.brk = e /\ Untouched(S0.mem, T.mem, A)
<1> DEFINE S == y.S
           at == y.at
           R == MakeFree(S, at, y.n)
           P == Push(R, at)
           T == Slip(P, Prev(S, at) # Zero)
<1>1. PICK B : Stacked(y, B, A, rank) /\ S.brk = e /\ Untouched(S0.mem, S.mem, A)
  BY DEF Stacking
<1>2. Loose(S, at, y.n, B, A, rank) /\ at > 0
  BY <1>1 DEF Stacked
<1>3. at \in B \ A
  BY <1>2 DEF Loose
<1>4. IsBlock(S, y.prev)
  <2> DEFINE m == FreeMem(S.mem, at, y.n)
  <2>1. Shows(m, S, at, y.n, B, A, rank) /\ y.prev \in B \ {at}
    BY <1>1, <1>2, LooseIs, BeforeIs
  <2> HIDE DEF m
  <2> QED
    BY <2>1 DEF Shows, IsBlock
<1>5. AddPage(y) = T
  BY <1>4 DEF AddPage
<1>6. /\ Held(R, B, A, Rest(B, A, at), rank)
      /\ R.brk = S.brk /\ Untouched(S.mem, R.mem, A) /\ R.mem[at + 2] = S.mem[at + 2]
  BY <1>2, WrittenOk
<1> HIDE DEF R
<1>7. IsState(P)
  BY <1>6, PushIs DEF Held
<1>8. /\ IsState(T) /\ T.mem = P.mem /\ T.head = P.head /\ T.brk = P.brk /\ T.end = P.end
      /\ Prev(S, at) = Zero
  <2> DEFINE wrong == Prev(S, at) # Zero
  <2>1. wrong \in BOOLEAN
    OBVIOUS
  <2> HIDE DEF wrong, P
  <2>2. /\ IsState(T) /\ T.mem = P.mem /\ T.head = P.head /\ T.brk = P.brk
        /\ T.end = P.end /\ (T.slip <=> P.slip \/ wrong)
    BY <1>7, <2>1, SlipIs DEF wrong
  <2>3. ~wrong
    BY <2>2, <1>5
  <2> QED
    BY <2>2, <2>3 DEF wrong
<1>9. R.mem[at + 2] = Zero
  BY <1>6, <1>8 DEF Prev
<1> HIDE DEF S, at, T
<1>10. Whole(P, B, A) /\ P.brk = R.brk /\ Untouched(R.mem, P.mem, A)
  BY <1>3, <1>6, <1>9, ListedOk
<1> HIDE DEF P
<1>11. Whole(T, B, A)
  BY <1>8, <1>10 DEF Whole, Held
<1>12. Untouched(S0.mem, R.mem, A)
  BY <1>1, <1>6, UntouchedTrans
<1>13. Untouched(S0.mem, P.mem, A)
  BY <1>10, <1>12, UntouchedTrans
<1> QED
  BY <1>1, <1>5, <1>6, <1>8, <1>10, <1>11, <1>13

LEMMA ExtendOk ==
    ASSUME NEW S, NEW B, NEW A, Whole(S, B, A), S.brk > 0,
           S.brk + PageWords <= MaxWords, ~Extend(S).slip
    PROVE  LET T == Extend(S)
           IN  /\ \E B2 : Whole(T, B2, A)
               /\ T.brk = S.brk + PageWords /\ Untouched(S.mem, T.mem, A)
<1>1. PICK rank : Held(S, B, A, B \ A, rank)
  BY DEF Whole
<1> DEFINE e == S.brk
           R == [S EXCEPT !.brk = S.brk + PageWords]
           x == Page(R, S.brk, PageWords \div 2)
           y == While(MaxBlocks, LAMBDA z : z.prev > 0 /\ IsFree(z.S, z.prev), MergeBack, x)
           e2 == S.brk + PageWords
<1>2. S.mem[S.brk - 1].kind = "meta"
  <2>1. /\ Heap(S.mem, S.head, e, B, A, B \ A, rank) /\ Tiling(S.mem, e, B)
    BY <1>1 DEF Held, Heap
  <2>2. e # 0
    OBVIOUS
  <2>3. PICK p \in B : Past(S.mem, p) = e
    <3> HIDE DEF e
    <3> QED
      BY <2>1, <2>2 DEF Tiling
  <2>4. Foot(S.mem, p) = S.mem[e - 1]
    BY <2>3 DEF Foot
  <2> QED
    BY <2>1, <2>4 DEF Tiling
<1>3. Extend(S) = AddPage(y)
  BY <1>2 DEF Extend
<1>4. Stacked(x, Plus(B, S.brk), A, rank) /\ x.S.brk = e2 /\ x.S.mem = S.mem
  BY <1>1, PageOk
<1> HIDE DEF x, e2
<1>5. Stacking(S, e2, A, rank, x)
  BY <1>4, UntouchedSame DEF Stacking
<1>6. IsState(y.S) /\ (~y.S.slip => Stacking(S, e2, A, rank, y))
  BY <1>1, <1>5, BacksOk
<1> HIDE DEF y
<1>7. ~y.S.slip
  BY <1>3, <1>6, AddPageLater DEF Later
<1>8. LET T == AddPage(y)
      IN  (\E B2 : Whole(T, B2, A)) /\ T.brk = e2 /\ Untouched(S.mem, T.mem, A)
  BY <1>1, <1>3, <1>6, <1>7, AddPageOk
<1> QED
  BY <1>3, <1>8 DEF e2

-----------------------------------------------------------------------------
(* The search of a list                                                    *)

\* A block has four words at least.
LEMMA FewBlocks ==
    ASSUME NEW m, NEW h, NEW e, NEW B, NEW A, NEW F, NEW rank,
           Heap(m, h, e, B, A, F, rank), NEW Q \in SUBSET B, IsFiniteSet(Q)
    PROVE  Cardinality(Q) <= MaxBlocks
<1>1. /\ MaxBlocks \in Nat /\ MaxWords \in Nat /\ MaxWords < 4 * MaxBlocks + 4
      /\ Tiling(m, e, B)
  BY Constants DEF Heap
<1>2. \A b \in Q : /\ b \in Nat /\ b + 4 <= Past(m, b) /\ Past(m, b) \in Nat
                   /\ Past(m, b) <= MaxWords
  <2> TAKE b \in Q
  <2>1. b \in B /\ e \in Nat
    BY Constants DEF Heap
  <2> QED
    BY <2>1, <1>1, BlockIs
<1>3. \A b \in Q : b \div 4 \in 0 .. MaxBlocks - 1
  BY <1>1, <1>2
<1> DEFINE T == 0 .. MaxBlocks - 1
           f == [b \in Q |-> b \div 4]
<1>4. IsFiniteSet(T) /\ Cardinality(T) = MaxBlocks
  BY <1>1, FS_Interval
<1>5. f \in [Q -> T]
  BY <1>3
<1>6. \A b, c \in Q : b < c => b \div 4 # c \div 4
  <2> SUFFICES ASSUME NEW b \in Q, NEW c \in Q, b < c PROVE b \div 4 # c \div 4
    OBVIOUS
  <2>1. Past(m, b) <= c
    BY <1>1 DEF Tiling
  <2>2. b + 4 <= c /\ b \in Nat /\ c \in Nat
    BY <2>1, <1>2
  <2> QED
    BY <2>2
<1>7. \A b, c \in Q : b # c => f[b] # f[c]
  BY <1>2, <1>6
<1> HIDE DEF T, f
<1>8. Cardinality(Q) \in Nat
  BY FS_CardinalityType
<1>9. ASSUME MaxBlocks < Cardinality(Q)
      PROVE  FALSE
  <2>1. \E x, y \in Q : x # y /\ f[x] = f[y]
    BY <1>4, <1>5, <1>9, FS_PigeonHole
  <2> QED
    BY <2>1, <1>7
<1> QED
  BY <1>1, <1>8, <1>9

\* The word that the search of a list ends at: a block that suits, or NULL.
Found(S, F, l, size, w) ==
    \/ w = Zero
    \/ \E b \in F : w = Ptr(b) /\ Class(S.mem, b) = l /\ Fits(S, b, size)

LEMMA SearchOk ==
    ASSUME NEW S, NEW B, NEW A, NEW F, NEW rank, Held(S, B, A, F, rank),
           NEW l \in Lists, NEW size
    PROVE  Found(S, F, l, size, Search(S, l, size))
<1> DEFINE m == S.mem
           w == Search(S, l, size)
<1>1. /\ Heap(m, S.head, S.brk, B, A, F, rank) /\ Linked(m, S.head, F, rank)
      /\ F \subseteq B /\ rank \in [Addresses -> Int]
      /\ Tiling(m, S.brk, B) /\ F \subseteq B \ A /\ \A b \in B \ A : Idle(m, b)
  BY DEF Held, Heap
<1>2. MaxBlocks \in Nat
  BY Constants
<1>3. PICK t : /\ t[0] = S.head[l]
               /\ \A k \in 0 .. MaxBlocks - 1 : t[k + 1] = SearchTurn(t[k], S, size)
               /\ w = t[MaxBlocks]
  <2>1. w = Searching(MaxBlocks, S, size, S.head[l])
    BY DEF Search, Searching
  <2> QED
    BY <2>1, <1>2, SearchLoop
<1> HIDE DEF w
<1>4. \A b \in F : /\ b \in Addresses /\ rank[b] \in Int
                   /\ IsFree(S, b) /\ IsBlock(S, b)
  <2> TAKE b \in F
  <2>1. b \in Addresses /\ m[b].n \in Nat /\ m[b].n >= 2
    BY <1>1, BlockIs
  <2>2. m[b].kind = "meta" /\ Idle(m, b)
    BY <1>1 DEF Tiling
  <2> QED
    BY <2>1, <2>2, <1>1 DEF IsFree, IsBlock, Idle
\* k blocks of the list before it do not suit.
<1> DEFINE Passed(k, b) == \E Q \in SUBSET F : /\ IsFiniteSet(Q) /\ Cardinality(Q) = k + 1
                                              /\ b \in Q /\ \A c \in Q : rank[c] <= rank[b]
           At(k, b) == /\ t[k] = Ptr(b) /\ Class(m, b) = l
                       /\ Fits(S, b, size) \/ Passed(k, b)
           Good == {k \in 0 .. MaxBlocks : t[k] = Zero \/ \E b \in F : At(k, b)}
<1>5. 0 \in Good
  <2>1. CASE S.head[l] = Zero
    BY <2>1, <1>2, <1>3
  <2>2. CASE S.head[l] # Zero
    <3>1. PICK b \in F : S.head[l] = Ptr(b) /\ Class(m, b) = l
      BY <2>2, <1>1 DEF Linked
    <3>2. IsFiniteSet({b}) /\ Cardinality({b}) = 1 /\ {b} \in SUBSET F
      BY FS_Singleton
    <3>3. \A c \in {b} : rank[c] <= rank[b]
      BY <1>4
    <3>4. 0 + 1 = 1
      OBVIOUS
    <3>5. Passed(0, b)
      BY <3>2, <3>3, <3>4
    <3> QED
      BY <3>1, <3>5, <1>2, <1>3
  <2> QED
    BY <2>1, <2>2
<1>6. ASSUME NEW k \in 0 .. MaxBlocks - 1, k \in Good
      PROVE  k + 1 \in Good
  <2>1. k + 1 \in 0 .. MaxBlocks /\ t[k + 1] = SearchTurn(t[k], S, size) /\ k \in Nat
    BY <1>2, <1>3
  <2>2. CASE t[k] = Zero
    <3>1. t[k + 1] = Zero
      BY <2>1, <2>2, ZeroIs DEF SearchTurn
    <3> QED
      BY <2>1, <3>1
  <2>3. ASSUME NEW b \in F, At(k, b)
        PROVE  k + 1 \in Good
    <3>1. t[k].kind = "ptr" /\ t[k].n = b
      BY <2>3, PtrIs
    <3>2. CASE Fits(S, b, size)
      <4>1. t[k + 1] = Ptr(b)
        BY <2>1, <2>3, <3>1, <3>2 DEF SearchTurn
      <4> QED
        BY <2>1, <2>3, <3>2, <4>1
    <3>3. CASE ~Fits(S, b, size)
      <4>1. t[k + 1] = m[b + 1]
        BY <2>1, <3>1, <3>3, <1>4 DEF SearchTurn, Next_
      <4>2. CASE m[b + 1] = Zero
        BY <2>1, <4>1, <4>2
      <4>3. CASE m[b + 1] # Zero
        <5>1. PICK c \in F : m[b + 1] = Ptr(c) /\ Class(m, c) = Class(m, b)
                             /\ rank[b] < rank[c]
          BY <4>3, <1>1 DEF Linked
        <5>2. PICK Q \in SUBSET F : /\ IsFiniteSet(Q) /\ Cardinality(Q) = k + 1
                                    /\ b \in Q /\ \A d \in Q : rank[d] <= rank[b]
          BY <2>3, <3>3
        <5>3. \A d \in Q : rank[d] < rank[c]
          BY <5>1, <5>2, <1>4
        <5>4. c \notin Q
          BY <5>3, <1>4
        <5>5. IsFiniteSet(Q \cup {c}) /\ Cardinality(Q \cup {c}) = (k + 1) + 1
          BY <5>2, <5>4, FS_AddElement
        <5>6. \A d \in Q \cup {c} : rank[d] <= rank[c]
          BY <5>3, <1>4
        <5>7. Passed(k + 1, c)
          BY <5>5, <5>6
        <5>8. Class(m, c) = l
          BY <2>3, <5>1
        <5> QED
          BY <2>1, <4>1, <5>1, <5>7, <5>8
      <4> QED
        BY <4>2, <4>3
    <3> QED
      BY <3>2, <3>3
  <2> QED
    BY <1>6, <2>2, <2>3
<1> HIDE DEF Good
<1>7. MaxBlocks \in Good
  BY <1>2, <1>5, <1>6, BoundedInduction
<1>8. w = Zero \/ \E b \in F : At(MaxBlocks, b)
  BY <1>3, <1>7 DEF Good
<1>9. ASSUME NEW b \in F, Passed(MaxBlocks, b)
      PROVE  FALSE
  <2>1. PICK Q \in SUBSET F : IsFiniteSet(Q) /\ Cardinality(Q) = MaxBlocks + 1
    BY <1>9
  <2>2. Cardinality(Q) <= MaxBlocks
    BY <1>1, <2>1, FewBlocks
  <2> QED
    BY <2>1, <2>2, <1>2
<1> HIDE DEF Passed
<1> QED
  BY <1>3, <1>8, <1>9 DEF Found, w, m

-----------------------------------------------------------------------------
(* sf_malloc()                                                             *)

Pages == {p * PageWords : p \in 0 .. MaxPages}

LEMMA PagesAre ==
    /\ \A e \in Pages : /\ e \in 0 .. MaxWords
                        /\ e < MaxWords => e + PageWords \in Pages /\ e + PageWords <= MaxWords
    /\ MaxWords > 0 => PageWords \in Pages /\ PageWords <= MaxWords
    /\ 0 \in Pages
<1>1. /\ PageWords \in Nat /\ PageWords >= 4 /\ MaxPages \in Nat
      /\ MaxWords = PageWords * MaxPages /\ MaxWords \in Nat
  BY Constants DEF MaxWords
<1>2. \A p \in 0 .. MaxPages : p * PageWords \in Nat /\ p * PageWords <= MaxWords
  <2> TAKE p \in 0 .. MaxPages
  <2>1. p \in Nat /\ MaxPages - p \in Nat
    BY <1>1
  <2>2. MaxWords = p * PageWords + (MaxPages - p) * PageWords
    BY <1>1, <2>1
  <2>3. p * PageWords \in Nat /\ (MaxPages - p) * PageWords \in Nat
    BY <1>1, <2>1
  <2> QED
    BY <1>1, <2>2, <2>3
<1>3. \A p \in 0 .. MaxPages : p * PageWords < MaxWords =>
         p + 1 \in 0 .. MaxPages /\ p * PageWords + PageWords = (p + 1) * PageWords
  <2> TAKE p \in 0 .. MaxPages
  <2> HAVE p * PageWords < MaxWords
  <2>1. p # MaxPages
    BY <1>1
  <2>2. p + 1 \in 0 .. MaxPages
    BY <1>1, <2>1
  <2>3. p * PageWords + PageWords = (p + 1) * PageWords
    BY <1>1
  <2> QED
    BY <2>2, <2>3
<1>4. ASSUME NEW e \in Pages
      PROVE  /\ e \in 0 .. MaxWords
             /\ e < MaxWords => e + PageWords \in Pages /\ e + PageWords <= MaxWords
  <2>1. PICK p \in 0 .. MaxPages : e = p * PageWords
    BY DEF Pages
  <2>2. e \in 0 .. MaxWords
    BY <1>1, <1>2, <2>1
  <2>3. ASSUME e < MaxWords
        PROVE  e + PageWords \in Pages /\ e + PageWords <= MaxWords
    <3>1. p + 1 \in 0 .. MaxPages /\ e + PageWords = (p + 1) * PageWords
      BY <1>3, <2>1, <2>3
    <3>2. (p + 1) * PageWords <= MaxWords
      BY <1>2, <3>1
    <3> QED
      BY <3>1, <3>2 DEF Pages
  <2> QED
    BY <2>2, <2>3
<1>5. 0 \in Pages
  <2>1. 0 \in 0 .. MaxPages /\ 0 = 0 * PageWords
    BY <1>1
  <2> QED
    BY <2>1 DEF Pages
<1>6. MaxWords > 0 => PageWords \in Pages /\ PageWords <= MaxWords
  <2>1. 0 + PageWords = PageWords
    BY <1>1
  <2> QED
    BY <1>1, <1>4, <1>5, <2>1
<1> QED
  BY <1>4, <1>5, <1>6

\* Between two calls: every block is allocated, and then one of A, or in its list.
HeapOk(S, A) ==
    /\ IsState(S) /\ S.end = "none" /\ S.brk \in Pages
    /\ \E B : Whole(S, B, A)
    /\ S.brk = 0 => \A a \in Addresses : S.mem[a] = Zero

LEMMA FirstPageOk ==
    ASSUME NEW S, NEW A, HeapOk(S, A), S.brk = 0, MaxWords > 0
    PROVE  LET T == FirstPage(S)
           IN  (\E B : Whole(T, B, A)) /\ T.brk = PageWords /\ A = {} /\ T.slip = S.slip
<1>1. PICK B, rank : Held(S, B, A, B \ A, rank)
  BY DEF HeapOk, Whole
<1> DEFINE R == [S EXCEPT !.brk = PageWords]
           n == PageWords \div 2
           Q == MakeFree(R, 0, n)
           T == SetHead(Q, 4, Ptr(0))
           m == FreeMem(S.mem, 0, n)
           h == Put(S.head, 4, Ptr(0))
           z == PageWords - 1
<1>2. /\ IsState(S) /\ S.end = "none" /\ S.mem \in [Addresses -> Words]
      /\ S.head \in [Lists -> Words] /\ A \subseteq B /\ Tiling(S.mem, S.brk, B)
      /\ Linked(S.mem, S.head, B \ A, rank) /\ rank \in [Addresses -> Int]
  BY <1>1 DEF Held, Heap
<1>3. B = {} /\ A = {}
  <2>1. B \subseteq 0 .. 0 - 1
    BY <1>2 DEF Tiling
  <2> QED
    BY <2>1, <1>2
<1>4. \A l \in Lists : S.head[l] = Zero
  BY <1>2, <1>3 DEF Linked
<1>5. /\ n \in Nat /\ n >= 2 /\ 2 * n = PageWords /\ PageWords \in Nat /\ PageWords >= 4
      /\ PageWords <= MaxWords /\ MaxWords \in Nat /\ n \in 0 .. MaxWords \div 2
      /\ 0 \in Addresses /\ z \in Addresses /\ 0 + 2 * n - 1 = z
      /\ 1 \in Addresses /\ 2 \in Addresses /\ z > 2
      /\ PageWords \in 0 .. MaxWords
  BY Constants, PagesAre DEF Addresses
<1>6. IsState(R) /\ R.mem = S.mem /\ R.head = S.head /\ R.brk = PageWords
      /\ R.end = S.end /\ R.slip = S.slip
  BY <1>2, SetBrkIs
<1> HIDE DEF R
<1>7. IsState(Q) /\ Q.mem = m /\ Q.head = S.head /\ Q.brk = PageWords
      /\ Q.end = S.end /\ Q.slip = S.slip
  BY <1>6, MakeFreeIs
<1> HIDE DEF Q
<1>8. IsState(T) /\ T.mem = m /\ T.head = h /\ T.brk = PageWords
      /\ T.end = S.end /\ T.slip = S.slip
  BY <1>7, SetHeadIs
<1> HIDE DEF T
<1>9. /\ m \in [Addresses -> Words] /\ m[0] = FreeTag(n) /\ m[z] = FreeTag(n)
      /\ \A a \in Addresses : a \notin {0, z} => m[a] = S.mem[a]
  <2> DEFINE y == 0 + 2 * n - 1
  <2>1. y \in Addresses
    BY <1>5
  <2>2. /\ m \in [Addresses -> Words]
        /\ \A a \in Addresses : /\ a \in {0, y} => m[a] = FreeTag(n)
                                /\ a \notin {0, y} => m[a] = S.mem[a]
    BY <1>2, <1>5, <2>1, FreeMemIs
  <2>3. y = z
    BY <1>5
  <2> HIDE DEF y, z, m, n
  <2> QED
    BY <1>5, <2>2, <2>3
<1> HIDE DEF m
<1>10. m[1] = Zero /\ m[2] = Zero
  <2>1. 1 \notin {0, z} /\ 2 \notin {0, z}
    BY <1>5
  <2> QED
    BY <2>1, <1>5, <1>9 DEF HeapOk
<1>11. m[0].kind = "meta" /\ m[0].n = n /\ Idle(m, 0) /\ Past(m, 0) = PageWords
       /\ Foot(m, 0).kind = "meta" /\ Foot(m, 0).n = n
  <2>1. m[0].kind = "meta" /\ m[0].n = n /\ Idle(m, 0)
    BY <1>9, FreeTagIs DEF Idle
  <2>2. Past(m, 0) = 0 + 2 * n
    BY <2>1 DEF Past
  <2>3. Past(m, 0) = PageWords
    BY <1>5, <2>2
  <2>4. Foot(m, 0) = FreeTag(n)
    BY <1>9, <2>3 DEF Foot
  <2> QED
    BY <2>1, <2>3, <2>4, FreeTagIs
<1>12. Class(m, 0) = 4
  <2> DEFINE fits == {l \in Lists : ListMax[l] >= 2 * n}
  <2>1. 4 \in fits
    BY <1>5, ListMaxAssumption DEF Lists
  <2>2. 3 \notin fits /\ 2 \notin fits /\ 1 \notin fits
    <3>1. /\ ListMax[1] \in Nat /\ ListMax[2] \in Nat /\ ListMax[3] \in Nat
          /\ ListMax[1] < ListMax[2] /\ ListMax[2] < ListMax[3] /\ ListMax[3] < PageWords
      BY ListMaxAssumption DEF Lists
    <3> QED
      BY <3>1, <1>5
  <2>3. fits \subseteq 1 .. 4
    BY DEF Lists
  <2>4. fits = {4}
    <3> HIDE DEF fits
    <3>1. \A k \in 1 .. 4 : k = 1 \/ k = 2 \/ k = 3 \/ k = 4
      OBVIOUS
    <3>2. \A k \in fits : k = 4
      BY <2>2, <2>3, <3>1
    <3> QED
      BY <2>1, <3>2
  <2>5. Min({4}) = 4
    BY DEF Min
  <2>6. ListOf(n) = Min(fits)
    BY DEF ListOf
  <2> QED
    BY <2>4, <2>5, <2>6, <1>11 DEF Class
<1>13. h \in [Lists -> Words] /\ h[4] = Ptr(0) /\ \A l \in Lists : l # 4 => h[l] = Zero
  <2>1. 4 \in Lists /\ DOMAIN S.head = Lists /\ Ptr(0) \in Words
    BY <1>2, <1>5, WordsAre DEF Lists
  <2> QED
    BY <1>2, <1>4, <2>1, PutIs
<1> HIDE DEF h
<1>14. Tiling(m, PageWords, {0})
  <2>1. {0} \subseteq 0 .. PageWords - 1
    BY <1>5
  <2>2. \A c \in {0} \cup {PageWords} : c # 0 => \E p \in {0} : Past(m, p) = c
    BY <1>11
  <2>3. \A b, c \in {0} : b < c => Past(m, b) <= c
    OBVIOUS
  <2> QED
    BY <2>1, <2>2, <2>3, <1>5, <1>11 DEF Tiling
<1>15. Linked(m, h, {0}, rank)
  <2>1. m[0 + 1] = Zero /\ m[0 + 2] = Zero
    <3>1. 0 + 1 = 1 /\ 0 + 2 = 2
      OBVIOUS
    <3> QED
      BY <3>1, <1>10
  <2>2. \A l \in Lists : h[l] # Zero => l = 4
    BY <1>13
  <2> QED
    BY <2>1, <2>2, <1>12, <1>13 DEF Linked
<1>16. Heap(m, h, PageWords, {0}, {}, {0} \ {}, rank)
  BY <1>2, <1>5, <1>9, <1>11, <1>13, <1>14, <1>15 DEF Heap
<1>17. Whole(T, {0}, {})
  BY <1>2, <1>8, <1>16 DEF Whole, Held
<1>18. FirstPage(S) = T
  BY DEF FirstPage, T, Q, R
<1> QED
  BY <1>3, <1>8, <1>17, <1>18

\* The heap has grown.
LEMMA GrowOk ==
    ASSUME NEW S, NEW A, HeapOk(S, A), NEW size, MaxWords > 0, ~Grow(S, size).slip
    PROVE  LET T == Grow(S, size)
           IN  HeapOk(T, A) /\ T.brk > 0 /\ Untouched(S.mem, T.mem, A)
<1> DEFINE x == IF S.brk = 0 THEN FirstPage(S) ELSE S
           T == Grow(S, size)
           Grown(y) == /\ (\E B : Whole(y, B, A)) /\ y.brk \in Pages /\ y.brk > 0
                       /\ Untouched(S.mem, y.mem, A)
           Fine(y) == IsState(y) /\ (~y.slip => Grown(y))
<1>1. T = Growing(MaxPages, size, x)
  BY DEF Grow, Growing
<1>2. PICK B0, rank0 : Held(S, B0, A, B0 \ A, rank0)
  BY DEF HeapOk, Whole
<1>3. Fine(x)
  <2>1. CASE S.brk = 0
    <3>1. (\E B : Whole(x, B, A)) /\ x.brk = PageWords /\ A = {}
      BY <2>1, FirstPageOk
    <3>2. PageWords \in Pages /\ PageWords > 0
      BY PagesAre, Constants
    <3>3. IsState(x)
      BY <3>1 DEF Whole, Held
    <3>4. Untouched(S.mem, x.mem, A)
      BY <3>1 DEF Untouched
    <3> QED
      BY <3>1, <3>2, <3>3, <3>4
  <2>2. CASE S.brk # 0
    <3>1. x = S
      BY <2>2
    <3>2. S.brk > 0
      BY <2>2, PagesAre, Constants DEF HeapOk
    <3> QED
      BY <3>1, <3>2, UntouchedSame DEF HeapOk
  <2> QED
    BY <2>1, <2>2
<1>4. ASSUME NEW y, Fine(y)
      PROVE  Fine(GrowsTurn(y, size))
  <2> DEFINE w == GrowsTurn(y, size)
  <2>1. CASE w = y
    BY <1>4, <2>1
  <2>2. CASE w = Extend(y) /\ y.brk < MaxWords
    <3>1. Later(y, w)
      BY <1>4, <2>2, ExtendLater
    <3>2. ASSUME ~w.slip
          PROVE  Grown(w)
      <4>1. Grown(y)
        BY <1>4, <3>1, <3>2 DEF Later
      <4>2. PICK B : Whole(y, B, A)
        BY <4>1
      <4>3. y.brk + PageWords <= MaxWords /\ y.brk + PageWords \in Pages
            /\ y.brk + PageWords > 0
        BY <4>1, <2>2, PagesAre, Constants
      <4>4. /\ \E B2 : Whole(w, B2, A)
            /\ w.brk = y.brk + PageWords /\ Untouched(y.mem, w.mem, A)
        BY <2>2, <3>2, <4>1, <4>2, <4>3, ExtendOk
      <4> HIDE DEF w
      <4>5. Untouched(S.mem, w.mem, A)
        BY <1>2, <4>1, <4>4, UntouchedTrans
      <4> QED
        BY <4>3, <4>4, <4>5
    <3> QED
      BY <3>1, <3>2 DEF Later
  <2> QED
    BY <2>1, <2>2 DEF GrowsTurn
<1> HIDE DEF x, T
<1>5. PICK t : /\ t[0] = x
               /\ \A k \in 0 .. MaxPages - 1 : t[k + 1] = GrowsTurn(t[k], size)
               /\ T = t[MaxPages]
  BY <1>1, PagesAssumption, GrowsLoop
<1> HIDE DEF Fine
<1> DEFINE Good == {k \in 0 .. MaxPages : Fine(t[k])}
<1>6. 0 \in Good
  BY PagesAssumption, <1>3, <1>5
<1>7. ASSUME NEW k \in 0 .. MaxPages - 1, k \in Good
      PROVE  k + 1 \in Good
  <2>1. Fine(t[k]) /\ t[k + 1] = GrowsTurn(t[k], size)
    BY <1>5, <1>7
  <2>2. Fine(t[k + 1])
    BY <1>4, <2>1
  <2> QED
    BY <2>2, PagesAssumption
<1> HIDE DEF Good
<1>8. MaxPages \in Good
  BY <1>6, <1>7, PagesAssumption, BoundedInduction
<1>9. Fine(T)
  BY <1>5, <1>8 DEF Good
<1>10. Grown(T) /\ IsState(T) /\ T.end = "none"
  <2>1. ~T.slip
    BY DEF T
  <2>2. Grown(T) /\ IsState(T)
    BY <1>9, <2>1 DEF Fine
  <2> QED
    BY <2>2 DEF Whole, Held
<1>11. HeapOk(T, A)
  <2>1. T.brk # 0
    BY <1>10, PagesAre
  <2> QED
    BY <1>10, <2>1 DEF HeapOk
<1> QED
  BY <1>10, <1>11 DEF T

LEMMA LeastIs ==
    ASSUME NEW L \in SUBSET Lists, L # {}
    PROVE  Min(L) \in L
<1>1. L \in SUBSET Nat
  BY DEF Lists
<1> QED
  BY <1>1, SmallestExists DEF Min

\* What a call makes of a heap with the blocks A: no block, or one that is new and has
\* room for what was asked for.  No word of the others is written.
Answered(S, A, size, R) ==
    /\ R.errno \in {"none", "EINVAL", "ENOMEM"}
    /\ Untouched(S.mem, R.S.mem, A)
    /\ \/ R.block = Zero /\ HeapOk(R.S, A)
       \/ \E b : /\ R.block = Ptr(b) /\ b \notin A /\ HeapOk(R.S, Plus(A, b))
                 /\ size \in 1 .. MaxWords /\ size + 2 <= 2 * R.S.mem[b].n

LEMMA ResultIs ==
    \A S, block, why : /\ Result(S, block, why).S = S
                       /\ Result(S, block, why).block = block
                       /\ Result(S, block, why).errno = why
BY DEF Result

LEMMA MallocOk ==
    ASSUME NEW S, NEW A, HeapOk(S, A), NEW size \in Nat, ~sf_malloc(S, size).S.slip
    PROVE  Answered(S, A, size, sf_malloc(S, size))
<1> DEFINE G == Grow(S, size)
           hits == Hits(G, size)
           l == Min(hits)
           w == Search(G, l, size)
           R == sf_malloc(S, size)
<1>1. CASE size = 0 \/ size > MaxWords
  <2>1. R = Result(S, Zero, "EINVAL")
    BY <1>1 DEF sf_malloc
  <2>2. R.S = S /\ R.block = Zero /\ R.errno = "EINVAL"
    BY <2>1, ResultIs
  <2> HIDE DEF R
  <2>3. Answered(S, A, size, R)
    BY <2>2, UntouchedSame DEF Answered
  <2> QED
    BY <2>3 DEF R
<1>2. CASE ~(size = 0 \/ size > MaxWords)
  <2>1. size \in 1 .. MaxWords /\ MaxWords > 0
    BY <1>2, Constants
  <2>2. R = First(G, hits, size)
    BY <1>2 DEF sf_malloc, Allocate
  <2>3. IsState(G)
    BY GrowLater DEF HeapOk, Later
  <2>4. Later(G, R.S)
    <3>1. ASSUME NEW k, NEW v
          PROVE  Later(G, Answer(G, k, v, size).S)
      <4> HIDE DEF G
      <4> QED
        BY <2>3, TakeLater, PartsLater DEF Answer, Result, Later
    <3> HIDE DEF G, hits, R
    <3> QED
      BY <2>2, <2>3, <3>1, LaterSame DEF First, Result
  <2>5. HeapOk(G, A) /\ G.brk > 0 /\ Untouched(S.mem, G.mem, A)
    <3>1. ~G.slip
      BY <2>4 DEF Later
    <3> QED
      BY <2>1, <3>1, GrowOk
  <2>6. PICK B, rank : Held(G, B, A, B \ A, rank)
    BY <2>5 DEF HeapOk, Whole
  <2>7. PICK B0, rank0 : Held(S, B0, A, B0 \ A, rank0)
    BY DEF HeapOk, Whole
  <2> HIDE DEF G
  <2>8. CASE hits = {}
    <3>1. R = Result(G, Zero, "ENOMEM")
      BY <2>2, <2>5, <2>8 DEF First, HeapOk
    <3>2. R.S = G /\ R.block = Zero /\ R.errno = "ENOMEM"
      BY <3>1, ResultIs
    <3> HIDE DEF R
    <3>3. Answered(S, A, size, R)
      BY <3>2, <2>5 DEF Answered
    <3> QED
      BY <3>3 DEF R
  <2>9. CASE hits # {}
    <3>1. l \in Lists /\ w # Zero
      <4>1. hits \in SUBSET Lists
        BY DEF Hits, Searched
      <4> HIDE DEF hits
      <4>2. l \in hits
        BY <2>9, <4>1, LeastIs
      <4> QED
        BY <4>1, <4>2 DEF hits, Hits
    <3>2. R = Answer(G, l, w, size)
      BY <2>2, <2>5, <2>9 DEF First, HeapOk
    <3> HIDE DEF l
    <3>3. Found(G, B \ A, l, size, w)
      BY <2>6, <3>1, SearchOk
    <3> HIDE DEF w
    <3>4. PICK b \in B \ A : w = Ptr(b) /\ Class(G.mem, b) = l /\ Fits(G, b, size)
      BY <3>1, <3>3 DEF Found
    <3> DEFINE T == Take(G, l, b, G.mem[b].n, size)
    <3>5. R = Result(T, w, "none")
      <4>1. w.kind = "ptr" /\ w.n = b
        BY <3>4, PtrIs
      <4>2. IsBlock(G, w.n) /\ Fits(G, w.n, size)
        BY <3>4, <4>1 DEF Fits, IsFree
      <4> QED
        BY <3>2, <4>1, <4>2 DEF Answer
    <3>6. R.S = T /\ R.block = w /\ R.errno = "none"
      BY <3>5, ResultIs
    <3>7. ~T.slip
      BY <3>6
    <3>8. Class(G.mem, b) = l /\ G.mem[b].n >= Units(size)
      BY <3>4 DEF Fits
    <3> HIDE DEF R
    <3>9. /\ \E B2 : Whole(T, B2, A \cup {b})
          /\ Untouched(G.mem, T.mem, A) /\ T.brk = G.brk
          /\ size + 2 <= 2 * T.mem[b].n
      BY <2>1, <2>6, <3>7, <3>8, TakeOk
    <3> HIDE DEF T
    <3>10. HeapOk(T, Plus(A, b))
      <4>1. T.brk \in Pages /\ T.brk # 0
        BY <2>5, <3>9, PagesAre DEF HeapOk
      <4>2. IsState(T) /\ T.end = "none"
        BY <3>9 DEF Whole, Held
      <4> QED
        BY <3>9, <4>1, <4>2 DEF HeapOk, Plus
    <3>11. Untouched(S.mem, T.mem, A)
      BY <2>5, <2>7, <3>9, UntouchedTrans
    <3>12. Answered(S, A, size, R)
      BY <2>1, <3>4, <3>6, <3>9, <3>10, <3>11 DEF Answered
    <3> QED
      BY <3>12 DEF R
  <2> QED
    BY <2>8, <2>9
<1> QED
  BY <1>1, <1>2

-----------------------------------------------------------------------------
(* sf_realloc(), and what the client writes                                *)

\* A heap with blocks has pages.
LEMMA PagesKept ==
    ASSUME NEW S, NEW A, HeapOk(S, A), NEW b \in A,
           NEW T, NEW A2, T.brk = S.brk, NEW B, Whole(T, B, A2)
    PROVE  HeapOk(T, A2)
<1>1. PICK B0, rank0 : Held(S, B0, A, B0 \ A, rank0)
  BY DEF HeapOk, Whole
<1>2. S.brk # 0
  <2>1. Heap(S.mem, S.head, S.brk, B0, A, B0 \ A, rank0) /\ b \in B0
    BY <1>1 DEF Held, Heap
  <2>2. b \in Nat /\ b < S.brk
    BY <2>1, BlockIs
  <2> QED
    BY <2>2
<1>3. IsState(T) /\ T.end = "none"
  BY DEF Whole, Held
<1> QED
  BY <1>2, <1>3 DEF HeapOk

\* Nothing but the payload of the block is written.
OnlyPayload(m1, m2, b, size) ==
    \A a \in Addresses : a \notin b + 1 .. b + size => m2[a] = m1[a]

LEMMA WriteOk ==
    ASSUME NEW S, NEW A, HeapOk(S, A), NEW b \in A, NEW size \in Nat,
           size + 2 <= 2 * S.mem[b].n, NEW m2 \in [Addresses -> Words],
           OnlyPayload(S.mem, m2, b, size),
           NEW T, IsState(T), T.mem = m2, T.head = S.head, T.brk = S.brk, T.end = S.end
    PROVE  HeapOk(T, A) /\ Untouched(S.mem, m2, Less(A, b)) /\ m2[b] = S.mem[b]
<1> DEFINE m == S.mem
<1>1. PICK B, rank : Held(S, B, A, B \ A, rank)
  BY DEF HeapOk, Whole
<1> DEFINE F == B \ A
<1>2. /\ IsState(S) /\ S.end = "none" /\ Heap(m, S.head, S.brk, B, A, F, rank)
      /\ A \subseteq B /\ b \in B /\ Tiling(m, S.brk, B) /\ Allocated(m, b)
  BY <1>1 DEF Held, Heap
<1>3. /\ b \in Nat /\ m[b].n \in Nat /\ Past(m, b) = b + 2 * m[b].n
      /\ Past(m, b) \in Nat /\ b \in Addresses /\ Past(m, b) - 1 \in Addresses
      /\ Past(m, b) >= b + 4
  BY <1>2, BlockIs
<1>4. /\ b \notin b + 1 .. b + size /\ Past(m, b) - 1 \notin b + 1 .. b + size
      /\ \A a \in b + 1 .. b + size : a \in Extent(m, b)
  BY <1>3 DEF Extent
<1>5. m2[b] = m[b] /\ m2[Past(m, b) - 1] = Foot(m, b)
  BY <1>3, <1>4 DEF OnlyPayload, Foot
<1>6. Foot(m2, b) = Foot(m, b)
  BY <1>5 DEF Foot, Past
<1>7. Untouched(m, m2, B \ {b})
  <2> SUFFICES ASSUME NEW f \in B \ {b}, NEW a \in Extent(m, f)
               PROVE  m2[a] = m[a]
    BY DEF Untouched
  <2>1. a \in Addresses
    BY <1>2, ExtentIs
  <2>2. a \notin Extent(m, b)
    BY <1>2, OneBlock
  <2> QED
    BY <2>1, <2>2, <1>4 DEF OnlyPayload
<1>8. Heap(m2, S.head, S.brk, B, A, F, rank) /\ Untouched(m, m2, A \ {b})
  <2>1. Allocated(m2, b)
    BY <1>2, <1>5, <1>6, AllocatedKept
  <2>2. /\ m2[b].kind = "meta" /\ m2[b].n = m[b].n
        /\ m2[Past(m, b) - 1].kind = "meta" /\ m2[Past(m, b) - 1].n = m[b].n
    BY <1>2, <1>5 DEF Tiling
  <2>3. b \in B \ F /\ A \in SUBSET B
    BY <1>2
  <2>4. (b \in A => Allocated(m2, b)) /\ (b \notin A => Idle(m2, b))
    BY <2>1
  <2>5. \A f \in B \ {b} : f \in A <=> f \in A
    OBVIOUS
  <2> HIDE DEF F, m
  <2> QED
    BY <1>2, <1>7, <2>2, <2>3, <2>4, <2>5, Changing
<1>9. Whole(T, B, A)
  <2>1. Held(T, B, A, B \ A, rank)
    BY <1>2, <1>8 DEF Held
  <2> QED
    BY <2>1 DEF Whole
<1>10. HeapOk(T, A)
  BY <1>9, PagesKept
<1> QED
  BY <1>5, <1>8, <1>10 DEF Less

\* What sf_realloc() makes of a heap with the blocks A.
Reallocated(S, A, b, size, R) ==
    \/ /\ R.block = Zero /\ size = 0
       /\ HeapOk(R.S, Less(A, b)) /\ Untouched(S.mem, R.S.mem, Less(A, b))
    \/ R.block = Zero /\ size # 0 /\ HeapOk(R.S, A) /\ Untouched(S.mem, R.S.mem, A)
    \/ /\ R.block = Ptr(b) /\ HeapOk(R.S, A) /\ Untouched(S.mem, R.S.mem, Less(A, b))
       /\ SameWords(S.mem, R.S.mem, b + 1, b + size)
       /\ size > 0 /\ size + 2 <= 2 * R.S.mem[b].n
    \/ \E c : /\ R.block = Ptr(c) /\ c \notin A
              /\ HeapOk(R.S, Less(Plus(A, c), b)) /\ Untouched(S.mem, R.S.mem, Less(A, b))
              /\ size > 0 /\ size + 2 <= 2 * R.S.mem[c].n

LEMMA WordRequest == \A w \in Words : w.req \in 0 .. MaxWords
<1>1. 0 \in 0 .. MaxWords
  BY Constants
<1> QED
  BY <1>1 DEF Words, Ptr, Data, Word

\* The larger block has been found.
LEMMA MoveOk ==
    ASSUME NEW S, NEW A, HeapOk(S, A), NEW b \in A, NEW size \in Nat, size > 0,
           2 * S.mem[b].n < size + 2,
           NEW M, Answered(S, A, size, M), M.block # Zero
    PROVE  LET T == sf_free(Copy(M.S, b, M.block.n, M.S.mem[Footer(M.S, b)].req), b)
           IN  \E c : /\ M.block = Ptr(c) /\ c \notin A
                      /\ HeapOk(T, Less(Plus(A, c), b))
                      /\ Untouched(S.mem, T.mem, Less(A, b))
                      /\ size + 2 <= 2 * T.mem[c].n
<1>1. PICK c : /\ M.block = Ptr(c) /\ c \notin A /\ HeapOk(M.S, Plus(A, c))
               /\ size + 2 <= 2 * M.S.mem[c].n
  BY DEF Answered
<1>2. Untouched(S.mem, M.S.mem, A)
  BY DEF Answered
<1> DEFINE G == M.S
           m == G.mem
           req == m[Footer(G, b)].req
           C == Copy(G, b, c, req)
           T == sf_free(C, b)
           A2 == Plus(A, c)
           m2 == C.mem
<1>3. M.block.n = c
  BY <1>1, PtrIs
<1>4. PICK B, rank : Held(G, B, A2, B \ A2, rank)
  BY <1>1 DEF HeapOk, Whole
<1>5. /\ Heap(m, G.head, G.brk, B, A2, B \ A2, rank) /\ IsState(G)
      /\ m \in [Addresses -> Words] /\ A2 \subseteq B /\ b \in A2 /\ c \in A2
      /\ b \in B /\ c \in B /\ Allocated(m, b)
  <2>1. Heap(m, G.head, G.brk, B, A2, B \ A2, rank) /\ IsState(G)
    BY <1>4 DEF Held
  <2>2. b \in A2 /\ c \in A2
    BY DEF Plus
  <2> HIDE DEF A2, m
  <2> QED
    BY <2>1, <2>2 DEF Heap
<1>6. m[b] = S.mem[b]
  <2>1. PICK B0, rank0 : Held(S, B0, A, B0 \ A, rank0)
    BY DEF HeapOk, Whole
  <2>2. Heap(S.mem, S.head, S.brk, B0, A, B0 \ A, rank0) /\ b \in B0
    BY <2>1 DEF Held, Heap
  <2>3. b \in Extent(S.mem, b)
    BY <2>2, BlockIs
  <2> QED
    BY <2>3, <1>2 DEF Untouched
<1> HIDE DEF G, A2, m
<1>7. /\ b \in Nat /\ m[b].n \in Nat /\ Past(m, b) = b + 2 * m[b].n
      /\ Past(m, b) - 1 \in Addresses /\ Past(m, b) \in Nat /\ Past(m, b) <= MaxWords
  <2>1. Past(m, b) <= G.brk /\ G.brk <= MaxWords
    BY <1>5, BlockIs
  <2>2. G.brk \in Nat /\ MaxWords \in Nat
    BY <1>5, Constants DEF Heap
  <2>3. /\ b \in Nat /\ m[b].n \in Nat /\ Past(m, b) = b + 2 * m[b].n
        /\ Past(m, b) - 1 \in Addresses /\ Past(m, b) \in Nat
    BY <1>5, BlockIs
  <2> QED
    BY <2>1, <2>2, <2>3
<1>8. /\ c \in Nat /\ m[c].n \in Nat /\ c \in Addresses
  BY <1>5, BlockIs
<1>9. req = Foot(m, b).req /\ req \in Nat /\ req + 2 <= 2 * m[b].n
  <2>1. Footer(G, b) = Past(m, b) - 1
    BY <1>7 DEF Footer, m
  <2>2. req = Foot(m, b).req
    BY <2>1 DEF Foot
  <2>3. req \in Nat
    BY <2>1, <1>5, <1>7, WordRequest, Constants
  <2> QED
    BY <2>2, <2>3, <1>5 DEF Allocated
<1> HIDE DEF req
<1>10. req <= size /\ req + 2 <= 2 * m[c].n
  <2>1. size + 2 <= 2 * m[c].n /\ 2 * m[b].n < size + 2
    BY <1>1, <1>6 DEF m, G
  <2> QED
    BY <2>1, <1>7, <1>8, <1>9
<1>11. /\ IsState(C) /\ C.head = G.head /\ C.brk = G.brk /\ C.end = G.end
       /\ C.mem = [a \in Addresses |-> IF a \in c + 1 .. c + req
                                       THEN m[b + a - (c + 1)] ELSE m[a]]
  <2>1. DOMAIN G.mem = Addresses
    BY <1>5 DEF m
  <2> QED
    BY <2>1, <1>5, SetMemIs DEF Copy, m
<1> HIDE DEF C
<1>12. m2 \in [Addresses -> Words] /\ OnlyPayload(m, m2, c, req)
  <2>1. ASSUME NEW a \in c + 1 .. c + req
        PROVE  b + a - (c + 1) \in Addresses
    <3>1. a \in Int /\ c + 1 <= a /\ a <= c + req
      BY <1>8, <1>9
    <3>2. b + a - (c + 1) \in Nat /\ b + a - (c + 1) < Past(m, b)
      BY <3>1, <1>7, <1>8, <1>9
    <3>3. MaxWords \in Nat
      BY Constants
    <3> QED
      BY <3>2, <3>3, <1>7 DEF Addresses
  <2>2. \A a \in c + 1 .. c + req : m[b + a - (c + 1)] \in Words
    BY <2>1, <1>5
  <2> QED
    BY <2>2, <1>5, <1>11 DEF OnlyPayload
<1>13. HeapOk(C, A2) /\ Untouched(m, m2, Less(A2, c)) /\ m2[c] = m[c]
  <2>1. HeapOk(G, A2)
    BY <1>1 DEF G, A2
  <2>2. OnlyPayload(G.mem, m2, c, req) /\ req + 2 <= 2 * G.mem[c].n
    BY <1>10, <1>12 DEF m
  <2> HIDE DEF m2
  <2>3. C.mem = m2
    BY DEF m2
  <2>4. HeapOk(C, A2) /\ Untouched(G.mem, m2, Less(A2, c)) /\ m2[c] = G.mem[c]
    BY <2>1, <2>2, <2>3, <1>5, <1>9, <1>11, <1>12, WriteOk
  <2> QED
    BY <2>4 DEF m
<1>14. PICK B2 : Whole(C, B2, A2)
  BY <1>13 DEF HeapOk
<1>15. /\ \E B3 : Whole(T, B3, Less(A2, b))
       /\ T.brk = C.brk /\ Untouched(m2, T.mem, Less(A2, b))
  BY <1>5, <1>14, FreeOk
<1> HIDE DEF T
<1>16. HeapOk(T, Less(A2, b))
  <2>1. PICK B3 : Whole(T, B3, Less(A2, b))
    BY <1>15
  <2> QED
    BY <2>1, <1>5, <1>13, <1>15, PagesKept
<1>17. Untouched(S.mem, T.mem, Less(A, b))
  <2>1. PICK B0, rank0 : Held(S, B0, A, B0 \ A, rank0)
    BY DEF HeapOk, Whole
  <2> DEFINE Q == Less(A, b)
  <2>2. Q \in SUBSET A /\ Q \in SUBSET Less(A2, c) /\ Q \in SUBSET Less(A2, b)
    BY <1>1 DEF Less, Plus, A2
  <2> HIDE DEF Q, m2
  <2>3. Untouched(S.mem, m, Q) /\ Untouched(m, m2, Q) /\ Untouched(m2, T.mem, Q)
    <3>1. Untouched(S.mem, m, A)
      BY <1>2 DEF m, G
    <3> QED
      BY <3>1, <1>13, <1>15, <2>2, UntouchedLess
  <2>4. Untouched(S.mem, m2, Q)
    BY <2>1, <2>2, <2>3, UntouchedTrans
  <2>5. Untouched(S.mem, T.mem, Q)
    BY <2>1, <2>2, <2>3, <2>4, UntouchedTrans
  <2> QED
    BY <2>5 DEF Q
<1>18. T.mem[c] = m[c]
  <2>1. PICK B0, rank0 : Held(C, B0, A2, B0 \ A2, rank0)
    BY <1>13 DEF HeapOk, Whole
  <2>2. Heap(C.mem, C.head, C.brk, B0, A2, B0 \ A2, rank0) /\ c \in B0
    BY <2>1, <1>5 DEF Held, Heap
  <2>3. c \in Extent(m2, c)
    BY <2>2, BlockIs
  <2>4. c \in Less(A2, b)
    BY <1>1, <1>5 DEF Less
  <2>5. T.mem[c] = m2[c]
    BY <2>3, <2>4, <1>15 DEF Untouched
  <2> QED
    BY <2>5, <1>13
<1>19. size + 2 <= 2 * T.mem[c].n
  BY <1>1, <1>18 DEF m, G
<1> QED
  BY <1>1, <1>3, <1>16, <1>17, <1>19 DEF T, C, A2, G, req, m

LEMMA SameWordsLess ==
    ASSUME NEW m1, NEW m2, NEW lo \in Int, NEW hi \in Int, NEW top \in Int,
           SameWords(m1, m2, lo, hi), top <= hi
    PROVE  SameWords(m1, m2, lo, top)
BY DEF SameWords

LEMMA SameWordsTrans ==
    ASSUME NEW m1, NEW m2, NEW m3, NEW lo, NEW hi,
           SameWords(m1, m2, lo, hi), SameWords(m2, m3, lo, hi)
    PROVE  SameWords(m1, m3, lo, hi)
BY DEF SameWords

\* An allocated block of the heap is one for sf_free() and sf_realloc() too.
LEMMA SaneOk ==
    ASSUME NEW S, NEW B, NEW A, Whole(S, B, A), NEW b \in A
    PROVE  /\ IsBlock(S, b) /\ Sane(S, b)
           /\ b \in Nat /\ S.mem[b].n \in Nat /\ S.mem[b].n >= 2 /\ 2 * S.mem[b].n <= MaxWords
<1>1. PICK rank : Held(S, B, A, B \ A, rank)
  BY DEF Whole
<1>2. /\ Heap(S.mem, S.head, S.brk, B, A, B \ A, rank) /\ Allocated(S.mem, b)
      /\ b \in B /\ Tiling(S.mem, S.brk, B) /\ S.brk \in Nat
  BY <1>1, Constants DEF Held, Heap
<1>3. /\ b \in Nat /\ S.mem[b].n \in Nat /\ S.mem[b].n >= 2
      /\ Past(S.mem, b) = b + 2 * S.mem[b].n /\ Past(S.mem, b) \in Nat
      /\ Past(S.mem, b) <= S.brk /\ S.brk <= MaxWords
  BY <1>2, BlockIs
<1>4. Footer(S, b) = Past(S.mem, b) - 1
  BY <1>3 DEF Footer
<1>5. S.mem[b].kind = "meta" /\ S.mem[Footer(S, b)] = Foot(S.mem, b)
  BY <1>2, <1>4 DEF Tiling, Foot
<1>6. 2 * S.mem[b].n <= MaxWords
  BY <1>2, <1>3, Constants
<1> QED
  BY <1>2, <1>3, <1>4, <1>5, <1>6 DEF IsBlock, Sane, Allocated

\* A block is resized where it is: n units of it are kept.
LEMMA CutOk ==
    ASSUME NEW S, NEW A, HeapOk(S, A), NEW b \in A, NEW have, have = S.mem[b].n,
           NEW size \in Nat, size > 0, NEW n \in Nat, n >= 2, NEW padded,
           Suits(n, padded, size),
           n = have \/ (have - n \in Nat /\ have - n >= 2 /\ have = n + (have - n))
    PROVE  LET T == Cut(S, b, have, n, padded, size)
           IN  /\ HeapOk(T, A) /\ Untouched(S.mem, T.mem, Less(A, b))
               /\ SameWords(S.mem, T.mem, b + 1, b + size)
               /\ size + 2 <= 2 * T.mem[b].n
<1> DEFINE T == Cut(S, b, have, n, padded, size)
           L == MakeLive(S, b, n, padded, size)
<1>1. PICK B, rank : Held(S, B, A, B \ A, rank)
  BY DEF HeapOk, Whole
<1> DEFINE F == B \ A
<1>2. A \subseteq B /\ b \in B \ F /\ b \in B /\ Plus(A, b) = A
  BY <1>1 DEF Held, Heap, Plus
<1>3. b \in Nat /\ have \in Nat
  <2>1. Whole(S, B, A)
    BY <1>1 DEF Whole
  <2> QED
    BY <2>1, SaneOk
<1>4. size + 2 <= 2 * n /\ padded \in BOOLEAN /\ size \in 0 .. MaxWords
  BY DEF Suits
<1>5. CASE have = n
  <2>1. T = L
    BY <1>5 DEF Cut
  <2>2. /\ Held(L, B, Plus(A, b), F, rank) /\ L.slip = S.slip /\ L.brk = S.brk
        /\ Untouched(S.mem, L.mem, Less(A, b)) /\ L.mem[b].n = n
        /\ SameWords(S.mem, L.mem, b + 1, b + 2 * n - 2)
    <3>1. n = S.mem[b].n
      BY <1>5
    <3> QED
      BY <1>1, <1>2, <3>1, LiveOk
  <2> HIDE DEF L, T
  <2>3. Whole(L, B, A)
    BY <1>2, <2>2 DEF Whole
  <2>4. HeapOk(L, A)
    BY <2>2, <2>3, PagesKept
  <2>5. SameWords(S.mem, L.mem, b + 1, b + size)
    <3>1. b + 1 \in Int /\ b + 2 * n - 2 \in Int /\ b + size \in Int
          /\ b + size <= b + 2 * n - 2
      BY <1>3, <1>4
    <3> QED
      BY <2>2, <3>1, SameWordsLess
  <2> QED
    BY <2>1, <2>2, <2>4, <2>5, <1>4 DEF T
<1>6. CASE have # n
  <2>0. PICK more : more = FALSE
    OBVIOUS
  <2> DEFINE c == b + 2 * n
             r == have - n
             rest == 2 * r - 2
             U == MakeLive(L, c, r, more, rest)
             B2 == Plus(B, c)
             A2 == Both(A, b, c)
             V == sf_free(U, c)
  <2>1. T = V
    BY <1>6, <2>0 DEF Cut
  <2>2. r \in Nat /\ r >= 2 /\ have = n + r
    BY <1>6
  <2>3. Halves(S.mem, b, n, r, c)
    BY <2>2 DEF Halves
  <2>4. 2 * have <= MaxWords
    <3>1. Whole(S, B, A)
      BY <1>1 DEF Whole
    <3> QED
      BY <3>1, SaneOk
  <2>5. Suits(r, more, rest)
    <3>1. rest \in Nat /\ rest <= MaxWords /\ rest + 2 = 2 * r /\ MaxWords \in Nat
      BY <2>2, <2>4, Constants
    <3>2. rest \in 0 .. MaxWords
      BY <3>1
    <3> HIDE DEF rest
    <3>3. (rest + 2 = 2 * r) = ~more /\ more \in BOOLEAN
      BY <2>0, <3>1
    <3>4. rest + 2 <= 2 * r
      BY <2>2, <3>1
    <3> QED
      BY <3>2, <3>3, <3>4 DEF Suits
  <2> HIDE DEF c, r, rest
  <2>6. /\ Held(U, B2, A2, F, rank)
        /\ U.slip = S.slip /\ U.brk = S.brk /\ c \notin B
        /\ Untouched(S.mem, U.mem, Less(A, b)) /\ U.mem[b].n = n
        /\ SameWords(S.mem, U.mem, b + 1, c - 2)
    BY <1>1, <1>2, <2>3, <2>5, HalveOk
  <2> HIDE DEF U, F
  <2>7. F = B2 \ A2 /\ Less(A2, c) = A /\ c \in A2
    BY <1>2, <2>6 DEF Plus, Both, Less, F
  <2> HIDE DEF A2, B2
  <2>8. Whole(U, B2, A2)
    BY <2>6, <2>7 DEF Whole
  <2>9. /\ \E B3 : Whole(V, B3, Less(A2, c))
        /\ V.brk = U.brk /\ Untouched(U.mem, V.mem, Less(A2, c))
    BY <2>7, <2>8, FreeOk
  <2> HIDE DEF V, T
  <2>10. HeapOk(V, A)
    <3>1. PICK B3 : Whole(V, B3, A)
      BY <2>7, <2>9
    <3> QED
      BY <2>6, <2>9, <3>1, PagesKept
  <2>11. Untouched(U.mem, V.mem, A)
    BY <2>7, <2>9
  <2>12. Untouched(S.mem, V.mem, Less(A, b))
    <3> DEFINE Q == Less(A, b)
    <3>1. Q \in SUBSET A
      BY DEF Less
    <3> HIDE DEF Q
    <3>2. Untouched(S.mem, U.mem, Q) /\ Untouched(U.mem, V.mem, Q)
      BY <2>6, <2>11, <3>1, UntouchedLess DEF Q
    <3>3. Untouched(S.mem, V.mem, Q)
      BY <1>1, <3>1, <3>2, UntouchedTrans
    <3> QED
      BY <3>3 DEF Q
  <2>13. Past(U.mem, b) = c /\ c \in Nat
    BY <2>6, <1>3 DEF Past, c
  <2>14. V.mem[b].n = n /\ SameWords(U.mem, V.mem, b + 1, c - 2)
    <3>1. \A a \in Extent(U.mem, b) : V.mem[a] = U.mem[a]
      BY <2>11 DEF Untouched
    <3>2. b \in Extent(U.mem, b)
      BY <2>13, <1>3 DEF Extent, c
    <3>3. \A a \in b + 1 .. c - 2 : a \in Extent(U.mem, b)
      BY <2>13, <1>3 DEF Extent
    <3> QED
      BY <2>6, <3>1, <3>2, <3>3 DEF SameWords
  <2>15. SameWords(S.mem, V.mem, b + 1, b + size)
    <3>1. SameWords(S.mem, V.mem, b + 1, c - 2)
      BY <2>6, <2>14, SameWordsTrans
    <3>2. b + 1 \in Int /\ c - 2 \in Int /\ b + size \in Int /\ b + size <= c - 2
      BY <1>3, <1>4 DEF c
    <3> QED
      BY <3>1, <3>2, SameWordsLess
  <2> QED
    BY <2>1, <2>10, <2>12, <2>14, <2>15, <1>4 DEF T
<1> QED
  BY <1>5, <1>6

LEMMA ReallocOk ==
    ASSUME NEW S, NEW A, HeapOk(S, A), NEW b \in A, NEW size \in Nat,
           errno \in {"none", "EINVAL", "ENOMEM"}, ~sf_realloc(S, b, size).S.slip
    PROVE  LET R == sf_realloc(S, b, size)
           IN  Reallocated(S, A, b, size, R) /\ R.errno \in {"none", "EINVAL", "ENOMEM"}
<1> DEFINE R == sf_realloc(S, b, size)
           n == S.mem[b].n
<1>1. PICK B : Whole(S, B, A)
  BY DEF HeapOk
<1>2. /\ IsBlock(S, b) /\ Sane(S, b)
      /\ b \in Nat /\ n \in Nat /\ n >= 2 /\ 2 * n <= MaxWords
  BY <1>1, SaneOk
<1>3. CASE size = 0
  <2> DEFINE T == sf_free(S, b)
  <2>1. R = Result(T, Zero, errno)
    BY <1>3 DEF sf_realloc
  <2>2. R.S = T /\ R.block = Zero /\ R.errno = errno
    BY <2>1, ResultIs
  <2>3. /\ \E B2 : Whole(T, B2, Less(A, b))
        /\ T.brk = S.brk /\ Untouched(S.mem, T.mem, Less(A, b))
    BY <1>1, FreeOk
  <2> HIDE DEF R, T
  <2>4. HeapOk(T, Less(A, b))
    BY <2>3, PagesKept
  <2>5. Reallocated(S, A, b, size, R)
    BY <2>2, <2>3, <2>4, <1>3 DEF Reallocated
  <2> QED
    BY <2>2, <2>5 DEF R
<1>4. CASE size # 0 /\ 2 * n < size + 2
  <2> DEFINE M == sf_malloc(S, size)
             T == sf_free(Copy(M.S, b, M.block.n, M.S.mem[Footer(M.S, b)].req), b)
  <2>1. R = Move(M, b)
    BY <1>2, <1>4 DEF sf_realloc
  <2>2. IsState(S)
    BY DEF HeapOk
  <2>3. Later(M.S, T)
    <3>1. IsState(M.S)
      BY <2>2, MallocLater DEF Later
    <3> HIDE DEF M
    <3> DEFINE C == Copy(M.S, b, M.block.n, M.S.mem[Footer(M.S, b)].req)
    <3>2. Later(M.S, C)
      BY <3>1, SetMemIs DEF Copy, Later
    <3> HIDE DEF C
    <3>3. Later(C, sf_free(C, b))
      BY <3>2, FreeLater DEF Later
    <3> QED
      BY <3>2, <3>3, LaterTrans DEF C
  <2>4. M = Result(M.S, M.block, M.errno)
    BY DEF sf_malloc, Allocate, First, Answer, Result
  <2>5. M.block # Zero => R.S = T /\ R.block = M.block /\ R.errno = M.errno
    <3> HIDE DEF T, R
    <3>1. M.block # Zero => R = [M EXCEPT !.S = T]
      BY <2>1 DEF Move, T
    <3> HIDE DEF M
    <3> QED
      BY <3>1, <2>4 DEF Result
  <2>6. M.block = Zero => R = M
    BY <2>1 DEF Move
  <2>7. ~M.S.slip
    <3> HIDE DEF T, M
    <3> QED
      BY <2>3, <2>5, <2>6 DEF Later
  <2>8. Answered(S, A, size, M)
    BY <2>7, MallocOk
  <2> HIDE DEF M, R
  <2>9. CASE M.block = Zero
    <3>1. HeapOk(M.S, A) /\ Untouched(S.mem, M.S.mem, A)
          /\ M.errno \in {"none", "EINVAL", "ENOMEM"}
      BY <2>8, <2>9, PtrsDiffer DEF Answered
    <3> QED
      BY <1>4, <2>6, <2>9, <3>1 DEF Reallocated, R
  <2>10. CASE M.block # Zero
    <3>1. M.errno \in {"none", "EINVAL", "ENOMEM"}
      BY <2>8 DEF Answered
    <3>2. size > 0
      BY <1>4
    <3>3. PICK c : /\ M.block = Ptr(c) /\ c \notin A
                   /\ HeapOk(T, Less(Plus(A, c), b))
                   /\ Untouched(S.mem, T.mem, Less(A, b))
                   /\ size + 2 <= 2 * T.mem[c].n
      BY <1>4, <2>8, <2>10, <3>2, MoveOk
    <3> HIDE DEF T
    <3>4. Reallocated(S, A, b, size, R)
      BY <2>5, <2>10, <3>2, <3>3 DEF Reallocated
    <3> QED
      BY <2>5, <2>10, <3>1, <3>4 DEF R
  <2> QED
    BY <2>9, <2>10
<1>5. CASE size # 0 /\ 2 * n > size + 2
  <2>1. R = Result(Shrink(S, b, n, size), Ptr(b), errno)
    BY <1>2, <1>5 DEF sf_realloc
  <2>2. PICK given, padded : /\ given = Given(n, Units(size))
                             /\ padded = (Padded(size) \/ Splinter(n, Units(size)))
    OBVIOUS
  <2> DEFINE T == Cut(S, b, n, given, padded, size)
  <2>3. R.S = T /\ R.block = Ptr(b) /\ R.errno = errno
    BY <2>1, <2>2, ResultIs DEF Shrink
  <2>4. size \in 1 .. MaxWords /\ n >= Units(size)
    BY <1>2, <1>5, Constants DEF Units
  <2>5. /\ Suits(given, padded, size) /\ given \in Nat /\ given >= 2
        /\ given = n \/ (n - given \in Nat /\ n - given >= 2 /\ n = given + (n - given))
    BY <1>2, <2>2, <2>4, GivenIs
  <2>6. size > 0
    BY <2>4
  <2>7. /\ HeapOk(T, A) /\ Untouched(S.mem, T.mem, Less(A, b))
        /\ SameWords(S.mem, T.mem, b + 1, b + size)
        /\ size + 2 <= 2 * T.mem[b].n
    BY <2>5, <2>6, CutOk
  <2> HIDE DEF T, R
  <2>8. Reallocated(S, A, b, size, R)
    BY <2>3, <2>6, <2>7 DEF Reallocated
  <2> QED
    BY <2>3, <2>8 DEF R
<1>6. CASE size # 0 /\ 2 * n = size + 2
  <2>1. R = Result(S, Ptr(b), errno)
    BY <1>2, <1>6 DEF sf_realloc
  <2>2. R.S = S /\ R.block = Ptr(b) /\ R.errno = errno
    BY <2>1, ResultIs
  <2>3. size > 0 /\ size + 2 <= 2 * S.mem[b].n
    BY <1>2, <1>6
  <2>4. SameWords(S.mem, S.mem, b + 1, b + size)
    BY DEF SameWords
  <2> HIDE DEF R
  <2>5. Reallocated(S, A, b, size, R)
    BY <2>2, <2>3, <2>4, UntouchedSame DEF Reallocated
  <2> QED
    BY <2>2, <2>5 DEF R
<1> QED
  BY <1>2, <1>3, <1>4, <1>5, <1>6

-----------------------------------------------------------------------------
(* The client                                                              *)

\* What the client holds has room for it, and holds what the client wrote.
ClientOk(m, held, wrote) ==
    /\ DOMAIN wrote = DOMAIN held
    /\ \A b \in DOMAIN held : /\ held[b] \in Sizes /\ held[b] + 2 <= 2 * m[b].n
                              /\ wrote[b] = Contents(m, b, held[b])

LEMMA ContentsSame ==
    ASSUME NEW m1, NEW m2, NEW b \in Int, NEW size \in Nat,
           SameWords(m1, m2, b + 1, b + size)
    PROVE  Contents(m1, b, size) = Contents(m2, b, size)
<1>1. \A i \in 1 .. size : m1[b + i] = m2[b + i]
  <2> TAKE i \in 1 .. size
  <2>1. b + i \in b + 1 .. b + size
    OBVIOUS
  <2> QED
    BY <2>1 DEF SameWords
<1> QED
  BY <1>1 DEF Contents

LEMMA ClientKept ==
    ASSUME NEW S, NEW A, HeapOk(S, A), NEW held, NEW wrote, ClientOk(S.mem, held, wrote),
           DOMAIN held \subseteq A, NEW m2, Untouched(S.mem, m2, DOMAIN held)
    PROVE  ClientOk(m2, held, wrote)
<1>1. PICK B, rank : Held(S, B, A, B \ A, rank)
  BY DEF HeapOk, Whole
<1>2. Heap(S.mem, S.head, S.brk, B, A, B \ A, rank) /\ A \subseteq B
  BY <1>1 DEF Held, Heap
<1> SUFFICES ASSUME NEW b \in DOMAIN held
             PROVE  /\ held[b] + 2 <= 2 * m2[b].n
                    /\ Contents(S.mem, b, held[b]) = Contents(m2, b, held[b])
  BY DEF ClientOk
<1>3. held[b] \in Nat /\ held[b] + 2 <= 2 * S.mem[b].n
  BY SizesAssumption DEF ClientOk
<1>4. /\ b \in Nat /\ S.mem[b].n \in Nat /\ Past(S.mem, b) = b + 2 * S.mem[b].n
      /\ b \in Extent(S.mem, b)
  BY <1>2, BlockIs
<1>5. \A a \in Extent(S.mem, b) : m2[a] = S.mem[a]
  BY DEF Untouched
<1>6. SameWords(S.mem, m2, b + 1, b + held[b])
  <2>1. \A a \in b + 1 .. b + held[b] : a \in Extent(S.mem, b)
    BY <1>3, <1>4 DEF Extent
  <2> QED
    BY <2>1, <1>5 DEF SameWords
<1>7. Contents(S.mem, b, held[b]) = Contents(m2, b, held[b])
  BY <1>3, <1>4, <1>6, ContentsSame
<1> QED
  BY <1>3, <1>4, <1>5, <1>7

LEMMA ClientMore ==
    ASSUME NEW m, NEW held, NEW wrote, ClientOk(m, held, wrote), NEW b,
           NEW size \in Sizes, size + 2 <= 2 * m[b].n,
           NEW new, new = Contents(m, b, size)
    PROVE  ClientOk(m, With(held, b, size), With(wrote, b, new))
BY DEF ClientOk, With

LEMMA ClientLess ==
    ASSUME NEW m, NEW held, NEW wrote, ClientOk(m, held, wrote), NEW b
    PROVE  ClientOk(m, Drop(held, b), Drop(wrote, b))
BY DEF ClientOk, Drop

LEMMA DomainsAre ==
    \A f, b, v : /\ DOMAIN With(f, b, v) = Plus(DOMAIN f, b)
                 /\ DOMAIN Drop(f, b) = Less(DOMAIN f, b)
BY DEF With, Drop, Plus, Less

\* As long as there was no slip, the heap is in order with the client's blocks as the
\* allocated ones, and they hold what the client wrote.
Sound == /\ errno \in {"none", "EINVAL", "ENOMEM"}
         /\ calls \in 0 .. MaxCalls
         /\ HeapOk(State, DOMAIN live)
         /\ ClientOk(mem, live, data)

IInv == slip \in BOOLEAN /\ (~slip => Sound)

LEMMA StateIs ==
    /\ State.mem = mem /\ State.head = head /\ State.brk = brk /\ State.end = end
    /\ State.slip = slip
    /\ slip \in BOOLEAN => IsState(State)
BY DEF State, IsState

\* The state after a call, after which m is the memory.
LEMMA AfterIs ==
    ASSUME NEW R, NEW m, IsState(R.S), After(R, m)
    PROVE  /\ mem' = m /\ slip' \in BOOLEAN /\ slip' = R.S.slip /\ IsState(State')
           /\ errno' = R.errno /\ calls' = calls + 1
           /\ State'.mem = m /\ State'.head = R.S.head /\ State'.brk = R.S.brk
           /\ State'.end = R.S.end
           /\ m = R.S.mem => State' = R.S
BY DEF After, State, IsState

LEMMA InitSound == Init => IInv
<1> SUFFICES ASSUME Init PROVE IInv
  OBVIOUS
<1> USE DEF Init
<1>1. slip \in BOOLEAN
  OBVIOUS
<1>2. errno \in {"none", "EINVAL", "ENOMEM"} /\ calls \in 0 .. MaxCalls
  BY CallsAssumption
<1>3. DOMAIN live = {} /\ DOMAIN data = {}
  OBVIOUS
<1>4. ClientOk(mem, live, data)
  BY <1>3 DEF ClientOk
<1> DEFINE rank == [a \in Addresses |-> 0]
<1>5. mem \in [Addresses -> Words] /\ head \in [Lists -> Words]
  BY WordsAre DEF Addresses
<1>6. Tiling(mem, brk, {})
  BY DEF Tiling
<1>7. Linked(mem, head, {}, rank)
  BY DEF Linked
<1>8. rank \in [Addresses -> Int] /\ brk \in 0 .. MaxWords
  BY Constants
<1> HIDE DEF rank
<1>9. Heap(mem, head, brk, {}, {}, {}, rank)
  BY <1>5, <1>6, <1>7, <1>8 DEF Heap
<1>10. Held(State, {}, {}, {} \ {}, rank)
  <2>1. {} \ {} = {}
    OBVIOUS
  <2> QED
    BY <1>1, <1>9, <2>1, StateIs DEF Held
<1>11. Whole(State, {}, {})
  BY <1>10 DEF Whole
<1>12. \A a \in Addresses : mem[a] = Zero
  BY DEF Addresses
<1>13. HeapOk(State, {})
  BY <1>1, <1>11, <1>12, StateIs, PagesAre DEF HeapOk
<1> QED
  BY <1>2, <1>3, <1>4, <1>13 DEF IInv, Sound

LEMMA MallocSound ==
    ASSUME IInv, calls < MaxCalls, NEW size \in Sizes, Malloc(size)
    PROVE  IInv'
<1> DEFINE R == sf_malloc(State, size)
           A == DOMAIN live
<1>1. slip \in BOOLEAN /\ IsState(State) /\ size \in Nat
  BY StateIs, SizesAssumption DEF IInv
<1>2. Later(State, R.S)
  BY <1>1, MallocLater
<1>3. Got(R, size)
  BY DEF Malloc
<1> HIDE DEF R
<1>4. IsState(R.S) /\ (~R.S.slip => ~slip)
  BY <1>2, StateIs DEF Later
<1>5. PICK m : After(R, m)
  BY <1>3 DEF Got
<1>6. slip' \in BOOLEAN /\ slip' = R.S.slip
  BY <1>4, <1>5, AfterIs
<1>7. ASSUME ~slip'
      PROVE  Sound'
  <2>1. Sound /\ ~R.S.slip
    BY <1>4, <1>6, <1>7 DEF IInv
  <2>2. Answered(State, A, size, R)
    BY <2>1, <1>1, MallocOk DEF Sound, R
  <2>3. errno' \in {"none", "EINVAL", "ENOMEM"} /\ calls' \in 0 .. MaxCalls
    <3>1. errno' = R.errno /\ calls' = calls + 1
      BY <1>4, <1>5, AfterIs
    <3> QED
      BY <3>1, <2>1, <2>2, CallsAssumption DEF Answered, Sound
  <2>4. HeapOk(State, A) /\ ClientOk(mem, live, data) /\ State.mem = mem
    BY <2>1, StateIs DEF Sound
  <2>5. CASE R.block = Zero
    <3>1. After(R, R.S.mem) /\ live' = live /\ data' = data
      BY <1>3, <2>5 DEF Got
    <3>2. HeapOk(R.S, A) /\ Untouched(mem, R.S.mem, A)
      BY <2>2, <2>4, <2>5, PtrsDiffer DEF Answered
    <3>3. State' = R.S /\ mem' = R.S.mem
      BY <3>1, <1>4, AfterIs
    <3>4. ClientOk(R.S.mem, live, data)
      BY <2>4, <3>2, ClientKept
    <3> QED
      BY <2>3, <3>1, <3>2, <3>3, <3>4 DEF Sound
  <2>6. CASE R.block # Zero
    <3>1. PICK b : /\ R.block = Ptr(b) /\ b \notin A /\ HeapOk(R.S, Plus(A, b))
                   /\ size \in 1 .. MaxWords /\ size + 2 <= 2 * R.S.mem[b].n
      BY <2>2, <2>6 DEF Answered
    <3>2. PICK fill \in Fills :
             /\ After(R, Filled(R, size, fill))
             /\ live' = With(live, R.block.n, size)
             /\ data' = With(data, R.block.n, [i \in 1 .. size |-> fill])
      BY <1>3, <2>6 DEF Got
    <3> DEFINE m2 == Filled(R, size, fill)
               new == [i \in 1 .. size |-> fill]
    <3>3. R.block.n = b
      BY <3>1, PtrIs
    <3>4. DOMAIN mem = Addresses /\ R.S.mem \in [Addresses -> Words]
      BY <2>4, <3>1 DEF HeapOk, Whole, Held, Heap
    <3>5. m2 = [a \in Addresses |-> IF a \in b + 1 .. b + size THEN fill ELSE R.S.mem[a]]
      BY <3>3, <3>4 DEF Filled, Payload
    <3>6. fill \in Words
      BY FillsAssumption, WordsAre
    <3> HIDE DEF m2
    <3>7. m2 \in [Addresses -> Words] /\ OnlyPayload(R.S.mem, m2, b, size)
      BY <3>4, <3>5, <3>6 DEF OnlyPayload
    <3>8. /\ mem' = m2 /\ IsState(State') /\ State'.mem = m2 /\ State'.head = R.S.head
          /\ State'.brk = R.S.brk /\ State'.end = R.S.end
      BY <3>2, <1>4, AfterIs DEF m2
    <3>9. b \in Plus(A, b) /\ Less(Plus(A, b), b) = A
      BY <3>1 DEF Plus, Less
    <3> HIDE DEF A
    <3>10. HeapOk(State', Plus(A, b)) /\ Untouched(R.S.mem, m2, A) /\ m2[b] = R.S.mem[b]
      <4>1. PICK T : T = State'
        OBVIOUS
      <4>2. /\ IsState(T) /\ T.mem = m2 /\ T.head = R.S.head
            /\ T.brk = R.S.brk /\ T.end = R.S.end
        BY <3>8, <4>1
      <4>3. HeapOk(T, Plus(A, b)) /\ Untouched(R.S.mem, m2, Less(Plus(A, b), b))
            /\ m2[b] = R.S.mem[b]
        BY <1>1, <3>1, <3>7, <3>9, <4>2, WriteOk
      <4> QED
        BY <3>9, <4>1, <4>3
    <3>11. Untouched(mem, m2, A)
      <4>1. PICK B, rank : Held(State, B, A, B \ A, rank)
        BY <2>4 DEF HeapOk, Whole
      <4>2. Untouched(State.mem, R.S.mem, A) /\ A \in SUBSET A
        BY <2>2 DEF Answered
      <4> QED
        BY <2>4, <3>10, <4>1, <4>2, UntouchedTrans
    <3>12. ClientOk(m2, live, data)
      BY <2>4, <3>11, ClientKept DEF A
    <3>13. new = Contents(m2, b, size)
      <4>1. b \in Int /\ \A i \in 1 .. size : b + i \in b + 1 .. b + size
        <5>1. PICK B : Whole(R.S, B, Plus(A, b))
          BY <3>1 DEF HeapOk
        <5>2. b \in Nat
          BY <3>9, <5>1, SaneOk
        <5> QED
          BY <5>2, <1>1
      <4>2. \A i \in 1 .. size : b + i \in Addresses
        <5>1. PICK B, rank : Held(R.S, B, Plus(A, b), B \ Plus(A, b), rank)
          BY <3>1 DEF HeapOk, Whole
        <5>2. Heap(R.S.mem, R.S.head, R.S.brk, B, Plus(A, b), B \ Plus(A, b), rank)
              /\ b \in B
          BY <3>9, <5>1 DEF Held, Heap
        <5>3. /\ b \in Nat /\ R.S.mem[b].n \in Nat
              /\ Past(R.S.mem, b) = b + 2 * R.S.mem[b].n
          BY <5>2, BlockIs
        <5>4. \A i \in 1 .. size : b + i \in Extent(R.S.mem, b)
          BY <1>1, <3>1, <5>3 DEF Extent
        <5> QED
          BY <5>2, <5>4, ExtentIs
      <4>3. \A i \in 1 .. size : m2[b + i] = fill
        BY <3>5, <4>1, <4>2
      <4> QED
        BY <4>3 DEF Contents
    <3> HIDE DEF new
    <3>14. ClientOk(m2, With(live, b, size), With(data, b, new))
      <4>1. size + 2 <= 2 * m2[b].n
        BY <3>1, <3>10
      <4> QED
        BY <3>12, <3>13, <4>1, ClientMore
    <3>15. DOMAIN live' = Plus(A, b)
      BY <3>2, <3>3, DomainsAre DEF A
    <3> QED
      BY <2>3, <3>2, <3>3, <3>8, <3>10, <3>14, <3>15 DEF Sound, new
  <2> QED
    BY <2>5, <2>6
<1> QED
  BY <1>6, <1>7 DEF IInv


LEMMA FreeSound ==
    ASSUME IInv, calls < MaxCalls, NEW b, Free(b)
    PROVE  IInv'
<1> DEFINE T == sf_free(State, b)
           R == Result(T, Zero, errno)
           A == DOMAIN live
<1>1. slip \in BOOLEAN /\ IsState(State)
  BY StateIs DEF IInv
<1>2. Later(State, T)
  BY <1>1, FreeLater
<1>3. /\ b \in A /\ After(R, T.mem)
      /\ live' = Drop(live, b) /\ data' = Drop(data, b)
  BY DEF Free
<1>4. R.S = T /\ R.errno = errno
  BY ResultIs
<1> HIDE DEF R, T
<1>5. IsState(R.S) /\ (~T.slip => ~slip)
  BY <1>2, <1>4, StateIs DEF Later
<1>6. /\ slip' \in BOOLEAN /\ slip' = T.slip /\ State' = T /\ mem' = T.mem
      /\ errno' = errno /\ calls' = calls + 1
  BY <1>3, <1>4, <1>5, AfterIs
<1>7. ASSUME ~slip'
      PROVE  Sound'
  <2>1. Sound /\ ~T.slip
    BY <1>5, <1>6, <1>7 DEF IInv
  <2>2. HeapOk(State, A) /\ ClientOk(mem, live, data) /\ State.mem = mem
    BY <2>1, StateIs DEF Sound
  <2>3. PICK B : Whole(State, B, A)
    BY <2>2 DEF HeapOk
  <2>4. /\ \E B2 : Whole(T, B2, Less(A, b))
        /\ T.brk = State.brk /\ Untouched(mem, T.mem, Less(A, b))
    BY <2>2, <2>3, <1>3, FreeOk DEF T
  <2>5. HeapOk(T, Less(A, b))
    BY <2>2, <2>4, <1>3, PagesKept
  <2> DEFINE held == Drop(live, b)
             wrote == Drop(data, b)
  <2>6. DOMAIN held = Less(A, b)
    BY DomainsAre
  <2>7. ClientOk(mem, held, wrote)
    BY <2>2, ClientLess
  <2> HIDE DEF held, wrote
  <2>8. ClientOk(T.mem, held, wrote)
    <3>1. DOMAIN held \subseteq A
      BY <2>6 DEF Less
    <3> QED
      BY <2>2, <2>4, <2>6, <2>7, <3>1, ClientKept
  <2>9. errno' \in {"none", "EINVAL", "ENOMEM"} /\ calls' \in 0 .. MaxCalls
    BY <1>6, <2>1, CallsAssumption DEF Sound
  <2>10. live' = held /\ data' = wrote /\ DOMAIN live' = Less(A, b)
    BY <1>3, <2>6 DEF held, wrote
  <2> QED
    BY <1>6, <2>5, <2>8, <2>9, <2>10 DEF Sound
<1> QED
  BY <1>6, <1>7 DEF IInv

LEMMA ReallocSound ==
    ASSUME IInv, calls < MaxCalls, NEW b, NEW size \in Sizes, Realloc(b, size)
    PROVE  IInv'
<1> DEFINE R == sf_realloc(State, b, size)
           A == DOMAIN live
           m == R.S.mem
<1>1. slip \in BOOLEAN /\ IsState(State) /\ size \in Nat
  BY StateIs, SizesAssumption DEF IInv
<1>2. Later(State, R.S)
  BY <1>1, ReallocLater
<1>3. b \in A /\ Resized(R, b, size)
  BY DEF Realloc
<1>4. ~R.S.slip /\ Sound => /\ Reallocated(State, A, b, size, R)
                            /\ R.errno \in {"none", "EINVAL", "ENOMEM"}
  BY <1>1, <1>3, ReallocOk DEF Sound
<1> HIDE DEF R
<1>5. IsState(R.S) /\ (~R.S.slip => ~slip)
  BY <1>2, StateIs DEF Later
<1>6. /\ slip' \in BOOLEAN /\ slip' = R.S.slip /\ State' = R.S /\ mem' = m
      /\ errno' = R.errno /\ calls' = calls + 1
  BY <1>3, <1>5, AfterIs DEF Resized
<1>7. ASSUME ~slip'
      PROVE  Sound'
  <2>1. Sound /\ ~R.S.slip
    BY <1>5, <1>6, <1>7 DEF IInv
  <2>2. Reallocated(State, A, b, size, R) /\ R.errno \in {"none", "EINVAL", "ENOMEM"}
    BY <1>4, <2>1
  <2>3. errno' \in {"none", "EINVAL", "ENOMEM"} /\ calls' \in 0 .. MaxCalls
    BY <1>6, <2>1, <2>2, CallsAssumption DEF Sound
  <2>4. HeapOk(State, A) /\ ClientOk(mem, live, data) /\ State.mem = mem
    BY <2>1, StateIs DEF Sound
  <2> DEFINE held == Drop(live, b)
             wrote == Drop(data, b)
  <2>5. DOMAIN held = Less(A, b) /\ Less(A, b) \subseteq A
    BY DomainsAre DEF Less
  <2>6. ClientOk(mem, held, wrote)
    BY <2>4, ClientLess
  <2> HIDE DEF held, wrote
  <2>7. Untouched(mem, m, Less(A, b)) => ClientOk(m, held, wrote)
    BY <2>4, <2>5, <2>6, ClientKept
  <2> SUFFICES HeapOk(R.S, DOMAIN live') /\ ClientOk(m, live', data')
    BY <1>6, <2>3 DEF Sound
  <2>8. CASE R.block = Zero /\ size = 0
    <3>1. live' = held /\ data' = wrote
      BY <1>3, <2>8 DEF Resized, held, wrote
    <3>2. HeapOk(R.S, Less(A, b)) /\ Untouched(mem, m, Less(A, b))
      BY <2>2, <2>4, <2>8, PtrsDiffer DEF Reallocated
    <3> QED
      BY <2>5, <2>7, <3>1, <3>2
  <2>9. CASE R.block = Zero /\ size # 0
    <3>1. live' = live /\ data' = data
      BY <1>3, <2>9 DEF Resized
    <3>2. HeapOk(R.S, A) /\ Untouched(mem, m, A)
      BY <2>2, <2>4, <2>9, PtrsDiffer DEF Reallocated
    <3>3. ClientOk(m, live, data)
      BY <2>4, <3>2, ClientKept
    <3> QED
      BY <3>1, <3>2, <3>3
  <2>10. CASE R.block # Zero
    <3> DEFINE c == R.block.n
               new == Carried(m, b, c, size)
    <3>1. live' = With(held, c, size) /\ data' = With(wrote, c, new)
      BY <1>3, <2>10 DEF Resized, held, wrote
    <3> HIDE DEF new
    <3>2. CASE /\ R.block = Ptr(b) /\ HeapOk(R.S, A)
               /\ Untouched(mem, m, Less(A, b))
               /\ SameWords(mem, m, b + 1, b + size) /\ size + 2 <= 2 * m[b].n
      <4>1. c = b
        BY <3>2, PtrIs
      <4>2. new = Contents(m, b, size)
        <5>1. live[b] \in Nat /\ data[b] = Contents(mem, b, live[b])
          BY <1>3, <2>4, SizesAssumption DEF ClientOk
        <5>2. b \in Nat
          <6>1. PICK B : Whole(State, B, A)
            BY <2>4 DEF HeapOk
          <6> QED
            BY <1>3, <6>1, SaneOk
        <5>3. \A i \in 1 .. size : i <= live[b] => data[b][i] = m[b + i]
          <6> SUFFICES ASSUME NEW i \in 1 .. size, i <= live[b]
                       PROVE  data[b][i] = m[b + i]
            OBVIOUS
          <6>1. i \in 1 .. live[b]
            BY <5>1, <1>1
          <6>2. data[b][i] = mem[b + i]
            BY <5>1, <6>1 DEF Contents
          <6>3. b + i \in b + 1 .. b + size
            BY <5>2, <1>1
          <6> QED
            BY <3>2, <6>2, <6>3 DEF SameWords
        <5> QED
          BY <4>1, <5>3 DEF new, Carried, Contents
      <4>3. ClientOk(m, With(held, b, size), With(wrote, b, new))
        BY <2>7, <3>2, <4>2, ClientMore
      <4>4. DOMAIN With(held, b, size) = A
        <5>1. DOMAIN With(held, b, size) = Plus(Less(A, b), b)
          BY <2>5, DomainsAre
        <5> QED
          BY <5>1, <1>3 DEF Plus, Less
      <4> QED
        BY <3>1, <3>2, <4>1, <4>3, <4>4
    <3>3. ASSUME NEW d, R.block = Ptr(d), d \notin A, HeapOk(R.S, Less(Plus(A, d), b)),
                 Untouched(mem, m, Less(A, b)), size + 2 <= 2 * m[d].n
          PROVE  HeapOk(R.S, DOMAIN live') /\ ClientOk(m, live', data')
      <4>1. c = d /\ d # b
        BY <1>3, <3>3, PtrIs
      <4>2. new = Contents(m, d, size)
        BY <4>1 DEF new, Carried, Contents
      <4>3. ClientOk(m, With(held, d, size), With(wrote, d, new))
        BY <2>7, <3>3, <4>2, ClientMore
      <4>4. DOMAIN With(held, d, size) = Less(Plus(A, d), b)
        <5>1. DOMAIN With(held, d, size) = Plus(Less(A, b), d)
          BY <2>5, DomainsAre
        <5> QED
          BY <5>1, <4>1 DEF Plus, Less
      <4> QED
        BY <3>1, <3>3, <4>1, <4>3, <4>4
    <3>4. \/ /\ R.block = Ptr(b) /\ HeapOk(R.S, A) /\ Untouched(mem, m, Less(A, b))
             /\ SameWords(mem, m, b + 1, b + size) /\ size + 2 <= 2 * m[b].n
          \/ \E d : /\ R.block = Ptr(d) /\ d \notin A /\ HeapOk(R.S, Less(Plus(A, d), b))
                    /\ Untouched(mem, m, Less(A, b)) /\ size + 2 <= 2 * m[d].n
      BY <2>2, <2>4, <2>10 DEF Reallocated
    <3> QED
      BY <3>2, <3>3, <3>4
  <2> QED
    BY <2>8, <2>9, <2>10
<1> QED
  BY <1>6, <1>7 DEF IInv

\* The inductive invariant: until links that were none are followed, the heap is in
\* order and its allocated blocks are the client's.
THEOREM HeapIsSound == Spec => []IInv
<1>1. ASSUME IInv, [Next]_vars
      PROVE  IInv'
  <2>1. CASE UNCHANGED vars
    <3>1. UNCHANGED <<mem, head, brk, end, errno, live, data, slip, calls>>
      BY <2>1 DEF vars
    <3>2. State' = State
      BY <3>1 DEF State
    <3> QED
      BY <1>1, <3>1, <3>2 DEF IInv, Sound
  <2>2. CASE Next
    <3>1. calls < MaxCalls
      BY <2>2 DEF Next
    <3>2. \/ \E size \in Sizes : Malloc(size)
          \/ \E b \in DOMAIN live : Free(b)
          \/ \E b \in DOMAIN live, size \in Sizes : Realloc(b, size)
      BY <2>2 DEF Next
    <3> QED
      BY <1>1, <3>1, <3>2, MallocSound, FreeSound, ReallocSound
  <2> QED
    BY <1>1, <2>1, <2>2
<1> QED
  BY <1>1, InitSound, PTL DEF Spec

\* TypeOK: as long as there was no slip, no word that sfmm.c leaves in the heap or in a
\* head of seg_free_list is larger than the heap or points out of it, and the heap ends
\* with a page.
THEOREM TypeCorrect == Spec => []TypeOK
<1>1. ASSUME IInv
      PROVE  TypeOK
  <2> SUFFICES ASSUME ~slip PROVE TypeOK
    BY DEF TypeOK
  <2>1. /\ errno \in {"none", "EINVAL", "ENOMEM"} /\ calls \in 0 .. MaxCalls
        /\ HeapOk(State, DOMAIN live) /\ ClientOk(mem, live, data)
    BY <1>1 DEF IInv, Sound
  <2>2. PICK B, rank : Held(State, B, DOMAIN live, B \ DOMAIN live, rank)
    BY <2>1 DEF HeapOk, Whole
  <2>3. /\ end = "none" /\ DOMAIN live \subseteq B
        /\ Heap(mem, head, brk, B, DOMAIN live, B \ DOMAIN live, rank)
    BY <2>2, StateIs DEF Held, Heap
  <2>4. mem \in [0 .. MaxWords - 1 -> Words] /\ head \in [Lists -> Words]
    BY <2>3 DEF Heap, Addresses
  <2>5. brk \in {p * PageWords : p \in 0 .. MaxPages}
    BY <2>1, StateIs DEF HeapOk, Pages
  <2>6. DOMAIN live \subseteq 0 .. MaxWords - 1
    <3>1. \A b \in B : b \in Addresses
      BY <2>3, BlockIs
    <3> QED
      BY <3>1, <2>3 DEF Addresses
  <2>7. ASSUME NEW b \in DOMAIN live
        PROVE  /\ live[b] \in Sizes /\ data[b] \in Seq(Words) /\ Len(data[b]) = live[b]
    <3>1. /\ live[b] \in Sizes /\ live[b] \in Nat /\ live[b] + 2 <= 2 * mem[b].n
          /\ data[b] = Contents(mem, b, live[b])
      BY <2>1, SizesAssumption DEF ClientOk
    <3>2. \A i \in 1 .. live[b] : mem[b + i] \in Words
      <4> TAKE i \in 1 .. live[b]
      <4>1. /\ b \in Nat /\ mem[b].n \in Nat /\ Past(mem, b) = b + 2 * mem[b].n
            /\ Past(mem, b) \in Nat /\ Past(mem, b) <= brk /\ brk <= MaxWords /\ brk \in Nat
        <5>1. b \in B
          BY <2>3
        <5>2. brk \in Nat
          BY <2>3, Constants DEF Heap
        <5> QED
          BY <5>1, <5>2, <2>3, BlockIs
      <4>2. b + i \in Nat /\ b + i < MaxWords /\ MaxWords \in Nat
        BY <3>1, <4>1, Constants
      <4>3. b + i \in 0 .. MaxWords - 1
        BY <4>2
      <4> QED
        BY <2>4, <4>3
    <3> DEFINE s == [i \in 1 .. live[b] |-> mem[b + i]]
    <3>3. s \in Seq(Words) /\ Len(s) = live[b]
      BY <3>1, <3>2
    <3> QED
      BY <3>1, <3>3 DEF Contents
  <2>8. DOMAIN data = DOMAIN live
    BY <2>1 DEF ClientOk
  <2> QED
    BY <2>1, <2>3, <2>4, <2>5, <2>6, <2>7, <2>8 DEF TypeOK
<1> QED
  BY <1>1, HeapIsSound, PTL

\* PayloadKept: sf_malloc(), sf_realloc() and sf_free() write to no word of a block the
\* client holds, whatever they split, merge, cut or move, until the links of a block
\* that is in no list are followed.
THEOREM PayloadIsKept == Spec => []PayloadKept
<1>1. ASSUME IInv
      PROVE  PayloadKept
  BY <1>1 DEF IInv, Sound, ClientOk, PayloadKept, Kept
<1> QED
  BY <1>1, HeapIsSound, PTL

\* ClientsGoOn: a client that frees and resizes what it holds never gets abort(), and
\* the searches of sf_malloc() come to an end and follow nothing but pointers, until
\* the links of a block that is in no list are followed.
THEOREM NoClientIsAborted == Spec => []ClientsGoOn
<1>1. ASSUME IInv
      PROVE  ClientsGoOn
  BY <1>1, StateIs DEF IInv, Sound, HeapOk, ClientsGoOn
<1> QED
  BY <1>1, HeapIsSound, PTL

-----------------------------------------------------------------------------
(* The blocks, one behind the other                                        *)

StartsTurn(known) == known \cup {b + 2 * mem[b].n : b \in {c \in known : c < brk}}

LEMMA StartsLoop ==
    \E t : /\ t[0] = {0}
           /\ \A k \in 0 .. MaxBlocks - 1 : t[k + 1] = StartsTurn(t[k])
           /\ Starts = t[MaxBlocks]
<1> DEFINE n == MaxBlocks
           Upto(k, f) == f = [i \in 0 .. k |-> IF i = 0 THEN {0} ELSE StartsTurn(f[i - 1])]
           Reached == {k \in Nat : \E f : Upto(k, f)}
<1>1. 0 \in Reached
  <2>1. Upto(0, [i \in 0 .. 0 |-> {0}])
    OBVIOUS
  <2> QED
    BY <2>1
<1>2. ASSUME NEW k \in Nat, k \in Reached
      PROVE  k + 1 \in Reached
  <2>1. PICK f : Upto(k, f)
    BY <1>2
  <2> DEFINE g == [i \in 0 .. k + 1 |-> IF i <= k THEN f[i] ELSE StartsTurn(f[i - 1])]
  <2>2. \A i \in 0 .. k : f[i] = IF i = 0 THEN {0} ELSE StartsTurn(f[i - 1])
    BY <2>1
  <2>3. ASSUME NEW i \in 0 .. k + 1
        PROVE  g[i] = IF i = 0 THEN {0} ELSE StartsTurn(g[i - 1])
    <3>1. CASE i = 0
      BY <3>1, <2>2
    <3>2. CASE i # 0
      <4>1. i - 1 \in 0 .. k /\ g[i - 1] = f[i - 1]
        BY <3>2
      <4>2. g[i] = StartsTurn(f[i - 1])
        BY <3>2, <2>2
      <4> QED
        BY <4>1, <4>2, <3>2
    <3> QED
      BY <3>1, <3>2
  <2>4. g = [i \in 0 .. k + 1 |-> g[i]]
    OBVIOUS
  <2> HIDE DEF g
  <2>5. Upto(k + 1, g)
    BY <2>3, <2>4
  <2> HIDE DEF Upto
  <2> QED
    BY <2>5
<1> HIDE DEF Reached
<1>0. n \in Nat
  BY Constants
<1>3. n \in Reached
  BY <1>0, <1>1, <1>2, SetInduction
<1> DEFINE f == CHOOSE f : Upto(n, f)
<1>4. Upto(n, f)
  BY <1>3 DEF Reached
<1>5. Starts = f[n]
  BY DEF Starts, StartsTurn
<1> HIDE DEF f
<1>6. f[0] = {0} /\ \A k \in 0 .. n - 1 : f[k + 1] = StartsTurn(f[k])
  <2>1. \A i \in 0 .. n : f[i] = IF i = 0 THEN {0} ELSE StartsTurn(f[i - 1])
    BY <1>4
  <2> HIDE DEF n, Upto
  <2>2. f[0] = {0}
    BY <1>0, <2>1
  <2>3. ASSUME NEW k \in 0 .. n - 1
        PROVE  f[k + 1] = StartsTurn(f[k])
    <3>1. k + 1 \in 0 .. n /\ k + 1 # 0 /\ (k + 1) - 1 = k
      BY <1>0
    <3> QED
      BY <2>1, <3>1
  <2> QED
    BY <2>2, <2>3
<1> QED
  BY <1>5, <1>6

LEMMA StartsAre ==
    ASSUME NEW B, NEW A, NEW F, NEW rank, Heap(mem, head, brk, B, A, F, rank)
    PROVE  Starts = B \cup {brk}
<1>1. PICK t : /\ t[0] = {0}
               /\ \A k \in 0 .. MaxBlocks - 1 : t[k + 1] = StartsTurn(t[k])
               /\ Starts = t[MaxBlocks]
  BY StartsLoop
<1>2. /\ MaxBlocks \in Nat /\ MaxWords \in Nat /\ MaxWords < 4 * MaxBlocks + 4
      /\ brk \in Nat /\ brk <= MaxWords /\ Tiling(mem, brk, B)
  BY Constants DEF Heap
<1>3. \A b \in B : /\ b \in Nat /\ b < brk /\ Past(mem, b) = b + 2 * mem[b].n
                   /\ Past(mem, b) \in Nat /\ Past(mem, b) >= b + 4
                   /\ Past(mem, b) \in B \cup {brk}
  <2> TAKE b \in B
  <2>1. Past(mem, b) \in B \cup {brk}
    BY <1>2 DEF Tiling
  <2> QED
    BY <2>1, BlockIs
<1> DEFINE All == B \cup {brk}
           Near(k) == {b \in All : b < 4 * k + 4}
           Good == {k \in 0 .. MaxBlocks : t[k] \subseteq All /\ Near(k) \subseteq t[k]}
<1>4. 0 \in All
  BY <1>2 DEF Tiling
<1>5. \A b \in All : b \in Nat /\ b <= MaxWords
  BY <1>2, <1>3
<1>6. \A c \in All : c # 0 => \E p \in B : Past(mem, p) = c
  BY <1>2 DEF Tiling
<1>7. 0 \in Good
  <2>1. \A b \in Near(0) : b = 0
    <3> SUFFICES ASSUME NEW b \in Near(0), b # 0 PROVE FALSE
      OBVIOUS
    <3>1. b \in All /\ b < 4
      OBVIOUS
    <3>2. PICK p \in B : Past(mem, p) = b
      BY <1>6, <3>1
    <3>3. p \in Nat /\ b \in Nat /\ b >= p + 4
      BY <1>3, <3>2
    <3> QED
      BY <3>1, <3>3
  <2> QED
    BY <1>1, <1>2, <1>4, <2>1
<1>8. ASSUME NEW k \in 0 .. MaxBlocks - 1, k \in Good
      PROVE  k + 1 \in Good
  <2>1. k \in Nat /\ k + 1 \in 0 .. MaxBlocks /\ t[k + 1] = StartsTurn(t[k])
    BY <1>1, <1>2
  <2>2. t[k] \subseteq All /\ Near(k) \subseteq t[k]
    BY <1>8
  <2>3. t[k + 1] \subseteq All
    <3> SUFFICES ASSUME NEW b \in t[k], b < brk PROVE b + 2 * mem[b].n \in All
      BY <2>1, <2>2 DEF StartsTurn
    <3>1. b \in B
      BY <2>2, <1>2
    <3> QED
      BY <3>1, <1>3
  <2>4. ASSUME NEW b \in Near(k + 1)
        PROVE  b \in t[k + 1]
    <3>1. b \in All /\ b < 4 * (k + 1) + 4 /\ b \in Nat
      BY <1>5
    <3>2. CASE b = 0
      <4>1. 0 < 4 * k + 4
        BY <2>1
      <4>2. 0 \in Near(k)
        BY <1>4, <4>1
      <4> QED
        BY <2>1, <2>2, <3>2, <4>2 DEF StartsTurn
    <3>3. CASE b # 0
      <4>1. PICK p \in B : Past(mem, p) = b
        BY <1>6, <3>1, <3>3
      <4>2. p \in Nat /\ p < brk /\ b >= p + 4 /\ b = p + 2 * mem[p].n
        BY <1>3, <4>1
      <4>3. p < 4 * k + 4
        BY <2>1, <3>1, <4>2
      <4>4. p \in t[k]
        BY <2>2, <4>3
      <4> QED
        BY <2>1, <4>2, <4>4 DEF StartsTurn
    <3> QED
      BY <3>2, <3>3
  <2> HIDE DEF Near, All
  <2>5. Near(k + 1) \subseteq t[k + 1]
    BY <2>4
  <2> QED
    BY <2>1, <2>3, <2>5
<1> HIDE DEF Good
<1>9. MaxBlocks \in Good
  BY <1>2, <1>7, <1>8, BoundedInduction
<1>10. t[MaxBlocks] \subseteq All /\ Near(MaxBlocks) \subseteq t[MaxBlocks]
  BY <1>9 DEF Good
<1>11. \A b \in All : b < 4 * MaxBlocks + 4
  <2> TAKE b \in All
  <2>1. b \in Nat /\ b <= MaxWords
    BY <1>5
  <2> QED
    BY <1>2, <2>1
<1>12. All \subseteq Near(MaxBlocks)
  BY <1>11
<1> HIDE DEF All, Near
<1>13. Starts = All
  BY <1>1, <1>10, <1>12
<1> QED
  BY <1>13 DEF All

LEMMA WordAlloc == \A w \in Words : w.alloc \in BOOLEAN
<1>1. \A a : Ptr(a).alloc \in BOOLEAN
  BY DEF Ptr, Word
<1>2. Data.alloc \in BOOLEAN
  BY DEF Data, Word
<1> QED
  BY <1>1, <1>2 DEF Words

\* HeapIsTiled: split, merge, extend and cut leave no word of the heap without a block
\* and none in two, header and footer agree, and the blocks the code takes for
\* allocated are those the client holds.
THEOREM BlocksAreTiled == Spec => []HeapIsTiled
<1>1. ASSUME IInv
      PROVE  HeapIsTiled
  <2> SUFFICES ASSUME ~slip PROVE HeapIsTiled
    BY DEF HeapIsTiled
  <2> DEFINE A == DOMAIN live
  <2>1. PICK B, rank : Held(State, B, A, B \ A, rank)
    BY <1>1 DEF IInv, Sound, HeapOk, Whole
  <2>2. Heap(mem, head, brk, B, A, B \ A, rank)
    BY <2>1, StateIs DEF Held
  <2>3. /\ Tiling(mem, brk, B) /\ mem \in [Addresses -> Words] /\ A \subseteq B
        /\ \A b \in A : Allocated(mem, b)
        /\ \A b \in B \ A : Idle(mem, b)
    BY <2>2 DEF Heap
  <2>4. Starts = B \cup {brk} /\ brk \in Nat
    <3>1. brk \in Nat
      BY <2>2, Constants DEF Heap
    <3> QED
      BY <2>2, <3>1, StartsAre
  <2>5. \A b \in B : b \in Nat /\ b < brk
    BY <2>3, <2>4 DEF Tiling
  <2>6. Blocks = B
    BY <2>5, <2>4 DEF Blocks
  <2>7. ASSUME NEW b \in B
        PROVE  /\ IsBlock(State, b) /\ mem[Footer(State, b)].kind = "meta"
               /\ mem[Footer(State, b)].n = mem[b].n
               /\ mem[b].alloc = (b \in A)
    <3>1. Footer(State, b) = Past(mem, b) - 1
      BY <2>5, <2>3, StateIs DEF Footer, Past, Tiling
    <3>2. /\ mem[b].kind = "meta" /\ mem[b].n \in Nat /\ mem[b].n >= 2
          /\ mem[Footer(State, b)].kind = "meta" /\ mem[Footer(State, b)].n = mem[b].n
      BY <2>3, <3>1 DEF Tiling, Foot
    <3>3. IsBlock(State, b)
      BY <3>2, StateIs DEF IsBlock
    <3>4. mem[b].alloc \in BOOLEAN
      <4>1. mem[b] \in Words
        BY <2>2, <2>3, BlockIs
      <4> QED
        BY <4>1, WordAlloc
    <3>5. mem[b].alloc = (b \in A)
      BY <3>4, <2>3 DEF Allocated, Idle
    <3> QED
      BY <3>2, <3>3, <3>5
  <2> QED
    BY <2>5, <2>6, <2>7, <2>4 DEF HeapIsTiled
<1> QED
  BY <1>1, HeapIsSound, PTL

-----------------------------------------------------------------------------
(* The lists, from head to end                                             *)

\* No block of a set of them is before all others in its list.
LEMMA NoEndlessList ==
    ASSUME NEW m, NEW h, NEW e, NEW B, NEW A, NEW F, NEW rank,
           Heap(m, h, e, B, A, F, rank),
           NEW W \in SUBSET B, \A b \in W : \E p \in W : rank[p] < rank[b]
    PROVE  W = {}
<1> SUFFICES ASSUME W # {} PROVE FALSE
  OBVIOUS
<1>1. MaxBlocks \in Nat
  BY Constants
<1>2. \A b \in W : rank[b] \in Int
  <2>1. \A b \in B : b \in Addresses
    BY BlockIs
  <2> QED
    BY <2>1 DEF Heap
<1> DEFINE Behind(k, p) == \E Q \in SUBSET W : /\ IsFiniteSet(Q) /\ Cardinality(Q) = k + 1
                                              /\ p \in Q /\ \A c \in Q : rank[p] <= rank[c]
           Good == {k \in 0 .. MaxBlocks : \E p \in W : Behind(k, p)}
<1>3. 0 \in Good
  <2>1. PICK p \in W : TRUE
    OBVIOUS
  <2>2. IsFiniteSet({p}) /\ Cardinality({p}) = 0 + 1 /\ {p} \in SUBSET W
    <3>1. IsFiniteSet({p}) /\ Cardinality({p}) = 1 /\ {p} \in SUBSET W
      BY FS_Singleton
    <3> QED
      BY <3>1
  <2>3. \A c \in {p} : rank[p] <= rank[c]
    BY <1>2
  <2>4. Behind(0, p)
    BY <2>2, <2>3
  <2> QED
    BY <2>4, <1>1
<1>4. ASSUME NEW k \in 0 .. MaxBlocks - 1, k \in Good
      PROVE  k + 1 \in Good
  <2>1. PICK b \in W, Q \in SUBSET W : /\ IsFiniteSet(Q) /\ Cardinality(Q) = k + 1
                                       /\ b \in Q /\ \A c \in Q : rank[b] <= rank[c]
    BY <1>4
  <2>2. PICK p \in W : rank[p] < rank[b]
    OBVIOUS
  <2>3. \A c \in Q : rank[p] < rank[c]
    BY <1>2, <2>1, <2>2
  <2>4. p \notin Q
    BY <1>2, <2>3
  <2>5. IsFiniteSet(Q \cup {p}) /\ Cardinality(Q \cup {p}) = (k + 1) + 1
    BY <2>1, <2>4, FS_AddElement
  <2>6. \A c \in Q \cup {p} : rank[p] <= rank[c]
    BY <1>2, <2>3
  <2>7. Behind(k + 1, p)
    BY <2>5, <2>6
  <2>8. k + 1 \in 0 .. MaxBlocks
    BY <1>1
  <2> QED
    BY <2>7, <2>8
<1> HIDE DEF Good
<1>5. MaxBlocks \in Good
  BY <1>1, <1>3, <1>4, BoundedInduction
<1>6. PICK Q \in SUBSET W : IsFiniteSet(Q) /\ Cardinality(Q) = MaxBlocks + 1
  BY <1>5 DEF Good
<1>7. Cardinality(Q) <= MaxBlocks
  BY <1>6, FewBlocks
<1> QED
  BY <1>1, <1>6, <1>7

\* One step along a list, and that Chain takes as many as there may be blocks.
ChainTurn(c) == IF Last(c).kind = "ptr" THEN Append(c, mem[Last(c).n + 1]) ELSE c

LEMMA ChainLoop ==
    ASSUME NEW l
    PROVE  \E t : /\ t[0] = <<head[l]>>
                  /\ \A k \in 0 .. MaxBlocks - 1 : t[k + 1] = ChainTurn(t[k])
                  /\ Chain(l) = t[MaxBlocks]
<1> DEFINE n == MaxBlocks
           Upto(k, f) == f = [i \in 0 .. k |-> IF i = 0 THEN <<head[l]>>
                                               ELSE ChainTurn(f[i - 1])]
           Reached == {k \in Nat : \E f : Upto(k, f)}
<1>1. 0 \in Reached
  <2>1. Upto(0, [i \in 0 .. 0 |-> <<head[l]>>])
    OBVIOUS
  <2> QED
    BY <2>1
<1>2. ASSUME NEW k \in Nat, k \in Reached
      PROVE  k + 1 \in Reached
  <2>1. PICK f : Upto(k, f)
    BY <1>2
  <2> DEFINE g == [i \in 0 .. k + 1 |-> IF i <= k THEN f[i] ELSE ChainTurn(f[i - 1])]
  <2>2. \A i \in 0 .. k : f[i] = IF i = 0 THEN <<head[l]>> ELSE ChainTurn(f[i - 1])
    BY <2>1
  <2>3. ASSUME NEW i \in 0 .. k + 1
        PROVE  g[i] = IF i = 0 THEN <<head[l]>> ELSE ChainTurn(g[i - 1])
    <3>1. CASE i = 0
      BY <3>1, <2>2
    <3>2. CASE i # 0
      <4>1. i - 1 \in 0 .. k /\ g[i - 1] = f[i - 1]
        BY <3>2
      <4>2. g[i] = ChainTurn(f[i - 1])
        BY <3>2, <2>2
      <4> QED
        BY <4>1, <4>2, <3>2
    <3> QED
      BY <3>1, <3>2
  <2>4. g = [i \in 0 .. k + 1 |-> g[i]]
    OBVIOUS
  <2> HIDE DEF g
  <2>5. Upto(k + 1, g)
    BY <2>3, <2>4
  <2> HIDE DEF Upto
  <2> QED
    BY <2>5
<1> HIDE DEF Reached
<1>3. n \in Nat
  BY Constants
<1>4. n \in Reached
  BY <1>1, <1>2, <1>3, SetInduction
<1> DEFINE f == CHOOSE f : Upto(n, f)
<1>5. Upto(n, f)
  BY <1>4 DEF Reached
<1>6. Chain(l) = f[n]
  BY DEF Chain, ChainTurn
<1> HIDE DEF f
<1>7. f[0] = <<head[l]>> /\ \A k \in 0 .. n - 1 : f[k + 1] = ChainTurn(f[k])
  <2>1. \A i \in 0 .. n : f[i] = IF i = 0 THEN <<head[l]>> ELSE ChainTurn(f[i - 1])
    BY <1>5
  <2> HIDE DEF n, Upto
  <2>2. f[0] = <<head[l]>>
    BY <1>3, <2>1
  <2>3. ASSUME NEW k \in 0 .. n - 1
        PROVE  f[k + 1] = ChainTurn(f[k])
    <3>1. k + 1 \in 0 .. n /\ k + 1 # 0 /\ (k + 1) - 1 = k
      BY <1>3
    <3> QED
      BY <2>1, <3>1
  <2> QED
    BY <2>2, <2>3
<1> QED
  BY <1>6, <1>7

\* The word c[i] of the chain of list l is a pointer to a listed block, which points
\* back to the one before it.
Link(c, i, l, F) == /\ c[i] = Ptr(c[i].n) /\ c[i].n \in F /\ Class(mem, c[i].n) = l
                    /\ mem[c[i].n + 2] = IF i = 1 THEN Zero ELSE c[i - 1]

\* All words of the chain are, but for the last one if that is NULL.
Links(c, l, F, rank) ==
    /\ c \in Seq(Words) /\ Len(c) > 0 /\ c[1] = head[l]
    /\ \A i \in 1 .. Len(c) : i < Len(c) \/ c[i] # Zero => Link(c, i, l, F)
    /\ \A i \in 1 .. Len(c) - 1 : c[i + 1] = mem[c[i].n + 1]
    /\ \A i, j \in 1 .. Len(c) : i < j /\ (j < Len(c) \/ c[j] # Zero)
                                    => rank[c[i].n] < rank[c[j].n]

LEMMA LinksStart ==
    ASSUME NEW B, NEW A, NEW F, NEW rank, Heap(mem, head, brk, B, A, F, rank),
           NEW l \in Lists
    PROVE  Links(<<head[l]>>, l, F, rank)
<1> DEFINE c == <<head[l]>>
<1>1. head[l] \in Words /\ Linked(mem, head, F, rank)
  BY DEF Heap
<1>2. c \in Seq(Words) /\ Len(c) = 1 /\ c[1] = head[l]
  BY <1>1
<1> HIDE DEF c
<1>3. c[1] # Zero => Link(c, 1, l, F)
  <2> SUFFICES ASSUME head[l] # Zero PROVE Link(c, 1, l, F)
    BY <1>2
  <2>1. PICK b \in F : head[l] = Ptr(b) /\ mem[b + 2] = Zero /\ Class(mem, b) = l
    BY <1>1 DEF Linked
  <2>2. c[1] = Ptr(b) /\ c[1].n = b
    BY <2>1, <1>2, PtrIs
  <2> QED
    BY <2>1, <2>2 DEF Link
<1>4. Links(c, l, F, rank)
  BY <1>2, <1>3 DEF Links
<1> QED
  BY <1>4 DEF c

LEMMA LinksGoOn ==
    ASSUME NEW B, NEW A, NEW F, NEW rank, Heap(mem, head, brk, B, A, F, rank),
           NEW l \in Lists, NEW c, Links(c, l, F, rank)
    PROVE  LET d == ChainTurn(c)
           IN  /\ Links(d, l, F, rank)
               /\ Last(c) = Zero => d = c
               /\ Last(c) # Zero => Len(d) = Len(c) + 1
<1>1. /\ mem \in [Addresses -> Words] /\ Linked(mem, head, F, rank) /\ F \subseteq B
      /\ rank \in [Addresses -> Int]
  BY DEF Heap
<1> DEFINE n == Len(c)
<1>2. n \in Nat /\ n > 0 /\ c \in Seq(Words) /\ Last(c) = c[n] /\ n \in 1 .. n
  BY DEF Links, Last
<1>3. CASE Last(c) = Zero
  <2>1. ChainTurn(c) = c
    BY <1>3, ZeroIs DEF ChainTurn
  <2> QED
    BY <1>3, <2>1
<1>4. CASE Last(c) # Zero
  <2> DEFINE b == c[n].n
             w == mem[b + 1]
             d == Append(c, w)
  <2>1. Link(c, n, l, F)
    BY <1>2, <1>4 DEF Links
  <2>2. c[n] = Ptr(b) /\ c[n].kind = "ptr" /\ b \in F /\ Class(mem, b) = l
    BY <2>1, PtrIs DEF Link
  <2>3. ChainTurn(c) = d
    BY <1>2, <2>2 DEF ChainTurn
  <2>4. w \in Words
    <3>1. b + 1 \in Addresses
      BY <2>2, <1>1, BlockIs
    <3> QED
      BY <3>1, <1>1
  <2> HIDE DEF w, b
  <2>5. /\ d \in Seq(Words) /\ Len(d) = n + 1 /\ d[n + 1] = w
        /\ \A i \in 1 .. n : d[i] = c[i]
    BY <1>2, <2>4
  <2> HIDE DEF d
  <2>6. \A i \in 1 .. n : Link(c, i, l, F)
    BY <1>2, <1>4 DEF Links
  <2>7. \A i \in 1 .. n : Link(d, i, l, F)
    <3> TAKE i \in 1 .. n
    <3>1. Link(c, i, l, F) /\ d[i] = c[i]
      BY <2>5, <2>6
    <3>2. i # 1 => i - 1 \in 1 .. n
      BY <1>2
    <3>3. i # 1 => d[i - 1] = c[i - 1]
      BY <2>5, <3>2
    <3> QED
      BY <3>1, <3>3 DEF Link
  <2>8. w # Zero => Link(d, n + 1, l, F) /\ rank[b] < rank[d[n + 1].n]
    <3> SUFFICES ASSUME w # Zero
                 PROVE  Link(d, n + 1, l, F) /\ rank[b] < rank[d[n + 1].n]
      OBVIOUS
    <3>1. PICK a \in F : /\ w = Ptr(a) /\ mem[a + 2] = Ptr(b)
                         /\ Class(mem, a) = Class(mem, b) /\ rank[b] < rank[a]
      BY <2>2, <1>1 DEF Linked, w
    <3>2. d[n + 1] = Ptr(a) /\ d[n + 1].n = a
      BY <2>5, <3>1, PtrIs
    <3>3. d[(n + 1) - 1] = Ptr(b) /\ n + 1 # 1
      BY <1>2, <2>2, <2>5
    <3> QED
      BY <2>2, <3>1, <3>2, <3>3 DEF Link
  <2>9. ASSUME NEW i \in 1 .. n + 1, i < n + 1 \/ d[i] # Zero
        PROVE  Link(d, i, l, F)
    <3>1. i \in 1 .. n \/ i = n + 1
      BY <1>2
    <3> QED
      BY <2>5, <2>7, <2>8, <2>9, <3>1
  <2>10. ASSUME NEW i \in 1 .. n
         PROVE  d[i + 1] = mem[d[i].n + 1]
    <3>1. CASE i = n
      BY <3>1, <2>5 DEF w, b
    <3>2. CASE i # n
      <4>1. i \in 1 .. n - 1 /\ i + 1 \in 1 .. n
        BY <3>2, <1>2
      <4>2. c[i + 1] = mem[c[i].n + 1]
        BY <4>1 DEF Links
      <4> QED
        BY <2>5, <4>1, <4>2
    <3> QED
      BY <3>1, <3>2
  <2>11. \A i, j \in 1 .. n : i < j => rank[c[i].n] < rank[c[j].n]
    BY <1>2, <1>4 DEF Links
  <2>12. \A i \in 1 .. n : rank[d[i].n] \in Int
    <3> TAKE i \in 1 .. n
    <3>1. d[i].n \in F
      BY <2>7 DEF Link
    <3>2. d[i].n \in Addresses
      BY <3>1, <1>1, BlockIs
    <3> QED
      BY <3>2, <1>1
  <2>13. ASSUME NEW i \in 1 .. n + 1, NEW j \in 1 .. n + 1, i < j,
                j < n + 1 \/ d[j] # Zero
         PROVE  rank[d[i].n] < rank[d[j].n]
    <3>1. i \in 1 .. n
      BY <1>2, <2>13
    <3>2. CASE j \in 1 .. n
      BY <2>5, <2>11, <2>13, <3>1, <3>2
    <3>3. CASE j = n + 1
      <4>1. rank[b] < rank[d[j].n]
        BY <2>5, <2>8, <2>13, <3>3
      <4>2. i = n \/ rank[c[i].n] < rank[b]
        BY <1>2, <2>11, <3>1 DEF b
      <4>3. d[i] = c[i] /\ rank[d[i].n] \in Int /\ (i = n => d[i].n = b)
        BY <2>5, <2>12, <3>1 DEF b
      <4>4. d[n].n = b /\ rank[b] \in Int
        BY <1>2, <2>5, <2>12 DEF b
      <4>5. rank[d[j].n] \in Int
        <5>1. d[j].n \in F
          BY <2>9, <2>13 DEF Link
        <5>2. d[j].n \in Addresses
          BY <5>1, <1>1, BlockIs
        <5> QED
          BY <5>2, <1>1
      <4> QED
        BY <4>1, <4>2, <4>3, <4>4, <4>5
    <3> QED
      BY <1>2, <3>2, <3>3
  <2>14. d[1] = head[l]
    <3>1. 1 \in 1 .. n
      BY <1>2
    <3> QED
      BY <3>1, <2>5 DEF Links
  <2>15. Len(d) > 0 /\ Len(d) - 1 = n
    BY <1>2, <2>5
  <2>16. Links(d, l, F, rank)
    BY <2>5, <2>9, <2>10, <2>13, <2>14, <2>15 DEF Links
  <2> QED
    BY <1>4, <2>3, <2>5, <2>16
<1> QED
  BY <1>3, <1>4

\* Before the turns are over, the chain has come to its end.
LEMMA ChainEnds ==
    ASSUME NEW B, NEW A, NEW F, NEW rank, Heap(mem, head, brk, B, A, F, rank),
           NEW l \in Lists
    PROVE  Links(Chain(l), l, F, rank) /\ Last(Chain(l)) = Zero
<1>1. PICK t : /\ t[0] = <<head[l]>>
               /\ \A k \in 0 .. MaxBlocks - 1 : t[k + 1] = ChainTurn(t[k])
               /\ Chain(l) = t[MaxBlocks]
  BY ChainLoop
<1>2. MaxBlocks \in Nat /\ F \subseteq B /\ rank \in [Addresses -> Int]
  BY Constants DEF Heap
<1> DEFINE Good == {k \in 0 .. MaxBlocks :
                      /\ Links(t[k], l, F, rank)
                      /\ Last(t[k]) = Zero \/ Len(t[k]) = k + 1}
<1>3. 0 \in Good
  <2>1. Links(t[0], l, F, rank)
    BY <1>1, LinksStart
  <2>2. Len(t[0]) = 0 + 1
    <3>1. Len(<<head[l]>>) = 1
      OBVIOUS
    <3> QED
      BY <3>1, <1>1
  <2> QED
    BY <2>1, <2>2, <1>2
<1>4. ASSUME NEW k \in 0 .. MaxBlocks - 1, k \in Good
      PROVE  k + 1 \in Good
  <2>1. k \in Nat /\ k + 1 \in 0 .. MaxBlocks /\ t[k + 1] = ChainTurn(t[k])
    BY <1>1, <1>2
  <2>2. Links(t[k], l, F, rank) /\ (Last(t[k]) = Zero \/ Len(t[k]) = k + 1)
    BY <1>4
  <2>3. /\ Links(t[k + 1], l, F, rank)
        /\ Last(t[k]) = Zero => t[k + 1] = t[k]
        /\ Last(t[k]) # Zero => Len(t[k + 1]) = Len(t[k]) + 1
    BY <2>1, <2>2, LinksGoOn
  <2>4. Last(t[k + 1]) = Zero \/ Len(t[k + 1]) = (k + 1) + 1
    BY <2>2, <2>3
  <2> QED
    BY <2>1, <2>3, <2>4
<1> HIDE DEF Good
<1>5. MaxBlocks \in Good
  BY <1>2, <1>3, <1>4, BoundedInduction
<1> DEFINE c == Chain(l)
           n == Len(c)
<1>6. Links(c, l, F, rank) /\ (Last(c) = Zero \/ n = MaxBlocks + 1)
  BY <1>1, <1>5 DEF Good
<1> HIDE DEF c
<1>7. ASSUME Last(c) # Zero
      PROVE  FALSE
  <2>1. /\ n \in Nat /\ Last(c) = c[n] /\ n = MaxBlocks + 1
    BY <1>2, <1>6, <1>7 DEF Last
  <2>2. /\ \A i \in 1 .. n : c[i].n \in F
        /\ \A i, j \in 1 .. n : i < j => rank[c[i].n] < rank[c[j].n]
    BY <1>6, <1>7, <2>1 DEF Links, Link
  <2>3. \A i \in 1 .. n : rank[c[i].n] \in Int
    <3>1. \A b \in B : b \in Addresses
      BY BlockIs
    <3> QED
      BY <3>1, <2>2, <1>2
  <2> DEFINE Q == {c[i].n : i \in 1 .. n}
             f == [i \in 1 .. n |-> c[i].n]
  <2>4. \A i, j \in 1 .. n : c[i].n = c[j].n => i = j
    <3> SUFFICES ASSUME NEW i \in 1 .. n, NEW j \in 1 .. n, c[i].n = c[j].n, i # j
                 PROVE  FALSE
      OBVIOUS
    <3>1. i < j \/ j < i
      BY <2>1
    <3>2. rank[c[i].n] < rank[c[j].n] \/ rank[c[j].n] < rank[c[i].n]
      BY <3>1, <2>2
    <3>3. rank[c[i].n] = rank[c[j].n] /\ rank[c[i].n] \in Int
      BY <2>3
    <3> QED
      BY <3>2, <3>3
  <2>5. f \in Bijection(1 .. n, Q)
    BY <2>4 DEF Bijection, Injection, Surjection, IsInjective
  <2>6. ExistsBijection(1 .. n, Q)
    BY <2>5 DEF ExistsBijection
  <2>7. IsFiniteSet(1 .. n) /\ Cardinality(1 .. n) = n
    BY <2>1, FS_Interval
  <2>8. IsFiniteSet(Q) /\ Cardinality(Q) = n
    BY <2>6, <2>7, FS_Bijection
  <2>9. Q \in SUBSET B
    BY <2>2, <1>2
  <2> HIDE DEF Q
  <2>10. Cardinality(Q) <= MaxBlocks
    BY <2>8, <2>9, FewBlocks
  <2> QED
    BY <2>1, <2>8, <2>10, <1>2
<1> QED
  BY <1>6, <1>7 DEF c

\* A chain that comes to its end has met every listed block of its class.
LEMMA ChainIsAll ==
    ASSUME NEW B, NEW A, NEW F, NEW rank, Heap(mem, head, brk, B, A, F, rank),
           NEW l \in Lists, NEW c, Links(c, l, F, rank), Last(c) = Zero,
           NEW b \in F, Class(mem, b) = l
    PROVE  \E i \in 1 .. Len(c) - 1 : c[i].n = b
<1> DEFINE n == Len(c)
           Met == {c[i].n : i \in 1 .. n - 1}
           W == {d \in F : Class(mem, d) = l /\ d \notin Met}
<1>1. Linked(mem, head, F, rank) /\ F \subseteq B
  BY DEF Heap
<1>2. n \in Nat /\ n > 0 /\ c[n] = Zero /\ c[1] = head[l]
  BY DEF Links, Last
<1>3. ASSUME NEW d \in W
      PROVE  \E p \in W : rank[p] < rank[d]
  <2>1. d \in F /\ Class(mem, d) = l
    OBVIOUS
  <2>2. CASE mem[d + 2] = Zero
    <3>1. c[1] = Ptr(d) /\ c[1].n = d
      BY <2>1, <2>2, <1>1, <1>2, PtrIs DEF Linked
    <3>2. n # 1
      BY <3>1, <1>2, PtrsDiffer
    <3>3. 1 \in 1 .. n - 1
      <4> HIDE DEF W, n
      <4> QED
        BY <3>2, <1>2
    <3>4. d \in Met
      BY <3>1, <3>3
    <3> QED
      BY <3>4
  <2>3. CASE mem[d + 2] # Zero
    <3>1. PICK p \in F : /\ mem[d + 2] = Ptr(p) /\ mem[p + 1] = Ptr(d)
                         /\ Class(mem, p) = Class(mem, d)
      BY <2>1, <2>3, <1>1 DEF Linked
    <3>2. rank[p] < rank[d]
      <4>1. mem[p + 1] # Zero
        BY <3>1, PtrsDiffer
      <4>2. PICK e \in F : mem[p + 1] = Ptr(e) /\ rank[p] < rank[e]
        BY <4>1, <1>1 DEF Linked
      <4>3. e = d
        BY <3>1, <4>2, PtrsDiffer
      <4> QED
        BY <4>2, <4>3
    <3>3. ASSUME p \in Met
          PROVE  FALSE
      <4>1. PICK i \in 1 .. n - 1 : c[i].n = p
        BY <3>3
      <4>2. c[i + 1] = Ptr(d)
        <5>1. c[i + 1] = mem[c[i].n + 1]
          BY <4>1 DEF Links
        <5> QED
          BY <5>1, <4>1, <3>1
      <4>3. i + 1 # n
        BY <4>2, <1>2, PtrsDiffer
      <4>4. i + 1 \in 1 .. n - 1
        BY <4>3, <1>2
      <4>5. d \in Met
        BY <4>2, <4>4, PtrIs
      <4> QED
        BY <4>5
    <3>4. p \in W
      BY <2>1, <3>1, <3>3
    <3> QED
      BY <3>2, <3>4
  <2> QED
    BY <2>2, <2>3
<1>4. W \in SUBSET B
  BY <1>1
<1>5. b \notin W => b \in Met
  OBVIOUS
<1> HIDE DEF W
<1>6. W = {}
  BY <1>3, <1>4, NoEndlessList
<1> QED
  BY <1>5, <1>6

\* ListsAreFree: whatever is taken out of the lists, merged, split off and put back,
\* every free block is in the list for its size once, nothing else is in it, and the
\* prev of each is the block whose next it is.
THEOREM ListsAreComplete == Spec => []ListsAreFree
<1>1. ASSUME IInv
      PROVE  ListsAreFree
  <2> SUFFICES ASSUME ~slip, NEW l \in Lists
               PROVE  LET c == Chain(l)
                          at == [i \in 1 .. Len(c) - 1 |-> c[i].n]
                      IN  /\ Last(c) = Zero
                          /\ IsInjective(at)
                          /\ Range(at) = {b \in FreeBlocks : ListOf(mem[b].n) = l}
                          /\ \A i \in DOMAIN at :
                                mem[at[i] + 2] = IF i = 1 THEN Zero ELSE Ptr(at[i - 1])
    BY DEF ListsAreFree
  <2>1. PICK B, rank : Held(State, B, DOMAIN live, B \ DOMAIN live, rank)
    BY <1>1 DEF IInv, Sound, HeapOk, Whole
  <2> DEFINE A == DOMAIN live
             F == B \ A
             c == Chain(l)
             n == Len(c)
             at == [i \in 1 .. n - 1 |-> c[i].n]
  <2>2. Heap(mem, head, brk, B, A, F, rank)
    BY <2>1, StateIs DEF Held
  <2>3. FreeBlocks = F
    <3>1. /\ Tiling(mem, brk, B) /\ A \subseteq B
          /\ \A b \in A : Allocated(mem, b)
          /\ \A b \in B \ A : Idle(mem, b)
      BY <2>2 DEF Heap
    <3>2. Starts = B \cup {brk} /\ brk \in Nat
      <4>1. brk \in Nat
        BY <2>2, Constants DEF Heap
      <4> QED
        BY <2>2, <4>1, StartsAre
    <3>3. \A b \in B : b # brk
      BY <3>1, <3>2 DEF Tiling
    <3>4. Blocks = B
      BY <3>2, <3>3 DEF Blocks
    <3> QED
      BY <3>1, <3>4 DEF FreeBlocks, Allocated, Idle
  <2>4. Links(c, l, F, rank) /\ Last(c) = Zero
    BY <2>2, ChainEnds
  <2>5. \A b \in F : Class(mem, b) = l => \E i \in 1 .. n - 1 : c[i].n = b
    BY <2>2, <2>4, ChainIsAll
  <2>6. F \subseteq B /\ rank \in [Addresses -> Int] /\ \A b \in B : b \in Addresses
    BY <2>2, BlockIs DEF Heap
  <2> HIDE DEF c, A, F
  <2>7. n \in Nat /\ c[n] = Zero
    BY <2>4 DEF Links, Last
  <2>8. \A i \in 1 .. n - 1 : Link(c, i, l, F)
    BY <2>4, <2>7 DEF Links
  <2>9. IsInjective(at)
    <3> SUFFICES ASSUME NEW i \in 1 .. n - 1, NEW j \in 1 .. n - 1,
                        c[i].n = c[j].n, i # j
                 PROVE  FALSE
      BY DEF IsInjective
    <3>1. i < j \/ j < i
      BY <2>7
    <3>2. i \in 1 .. n /\ j \in 1 .. n /\ i < n /\ j < n
      BY <2>7
    <3>3. rank[c[i].n] < rank[c[j].n] \/ rank[c[j].n] < rank[c[i].n]
      BY <2>4, <3>1, <3>2 DEF Links
    <3>4. rank[c[i].n] \in Int
      BY <2>6, <2>8 DEF Link
    <3> QED
      BY <3>3, <3>4
  <2>10. Range(at) = {b \in FreeBlocks : ListOf(mem[b].n) = l}
    <3>1. \A i \in 1 .. n - 1 : c[i].n \in F /\ ListOf(mem[c[i].n].n) = l
      BY <2>8 DEF Link, Class
    <3>2. \A b \in F : ListOf(mem[b].n) = l => \E i \in 1 .. n - 1 : c[i].n = b
      BY <2>5 DEF Class
    <3>3. Range(at) = {c[i].n : i \in 1 .. n - 1}
      BY DEF Range
    <3> HIDE DEF at
    <3> QED
      BY <2>3, <3>1, <3>2, <3>3
  <2>11. ASSUME NEW i \in 1 .. n - 1
         PROVE  mem[at[i] + 2] = IF i = 1 THEN Zero ELSE Ptr(at[i - 1])
    <3>1. at[i] = c[i].n /\ mem[c[i].n + 2] = IF i = 1 THEN Zero ELSE c[i - 1]
      BY <2>8 DEF Link
    <3>2. i # 1 => /\ i - 1 \in 1 .. n - 1
                   /\ at[i - 1] = c[i - 1].n /\ c[i - 1] = Ptr(c[i - 1].n)
      <4>1. i # 1 => i - 1 \in 1 .. n - 1
        BY <2>7
      <4> QED
        BY <4>1, <2>8 DEF Link
    <3> HIDE DEF at
    <3> QED
      BY <3>1, <3>2
  <2> QED
    BY <2>4, <2>9, <2>10, <2>11 DEF c
<1> QED
  BY <1>1, HeapIsSound, PTL

=============================================================================
