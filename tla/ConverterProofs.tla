--------------------------- MODULE ConverterProofs ---------------------------
(***************************************************************************)
(* What the encoders and decoders of the converter do for every code       *)
(* point, and that its loops do it to every text.                          *)
(***************************************************************************)
EXTENDS Converter, SequenceTheorems, NaturalsInduction, WellFoundedInduction,
        TLAPS

-----------------------------------------------------------------------------
(* One glyph: the run of Converter sees those on the boundaries.           *)

\* Taking six bits off and putting them back, once, twice and three times.
LEMMA SixBits ==
    ASSUME NEW n \in Nat
    PROVE  /\ High6(n) \in Nat /\ Low6(n) \in 0 .. 63
           /\ n = High6(n) * 64 + Low6(n)
BY DEF High6, Low6

\* An encoded code point of one byte is itself.
LEMMA OneByte ==
    ASSUME NEW cp \in Nat, cp <= 127
    PROVE  /\ utf8_one_byte_encode(cp) = <<cp>>
           /\ remaining_utf8_bytes(cp) = 0
BY DEF utf8_one_byte_encode, remaining_utf8_bytes

\* Two bytes decode to what was encoded, and the first one tells that one
\* more follows.
LEMMA TwoBytes ==
    ASSUME NEW cp \in Nat, 128 <= cp, cp <= 2047
    PROVE  LET b == utf8_two_byte_encode(cp)
           IN /\ utf8_two_byte_decode(b) = cp
              /\ remaining_utf8_bytes(b[1]) = 1
<1> DEFINE h == High6(cp)
           l == Low6(cp)
<1>1. /\ h \in 2 .. 31 /\ l \in 0 .. 63
      /\ cp = h * 64 + l
  BY SixBits DEF High6, Low6
<1>2. utf8_two_byte_encode(cp) = <<192 + h, 128 + l>>
  BY <1>1 DEF utf8_two_byte_encode
<1>3. (192 + h) % 32 = h /\ (128 + l) % 64 = l
  BY <1>1
<1>4. /\ (192 + h) \div 8 # 30 /\ (192 + h) \div 16 # 14
      /\ (192 + h) \div 32 = 6
  BY <1>1
<1> HIDE DEF h, l
<1>5. utf8_two_byte_decode(<<192 + h, 128 + l>>) = cp
  BY <1>1, <1>3 DEF utf8_two_byte_decode, Low6
<1>6. remaining_utf8_bytes(192 + h) = 1
  BY <1>1, <1>4 DEF remaining_utf8_bytes
<1> QED
  BY <1>2, <1>5, <1>6

\* Three bytes decode to what was encoded, and the first one tells that two follow.
LEMMA ThreeBytes ==
    ASSUME NEW cp \in Nat, 2048 <= cp, cp <= 65535
    PROVE  LET b == utf8_three_byte_encode(cp)
           IN /\ utf8_three_byte_decode(b) = cp
              /\ remaining_utf8_bytes(b[1]) = 2
<1> DEFINE m == High6(cp)
           h == High6(m)
<1>1. /\ h \in 0 .. 15 /\ Low6(m) \in 0 .. 63 /\ Low6(cp) \in 0 .. 63
      /\ m = h * 64 + Low6(m) /\ cp = m * 64 + Low6(cp)
  <2>1. m \in Nat /\ Low6(cp) \in 0 .. 63 /\ cp = m * 64 + Low6(cp)
    BY SixBits
  <2>2. h \in Nat /\ Low6(m) \in 0 .. 63 /\ m = h * 64 + Low6(m)
    BY <2>1, SixBits
  <2> HIDE DEF h, m
  <2> QED
    BY <2>1, <2>2, SMT
<1>2. h % 16 = h
  BY <1>1
<1>3. utf8_three_byte_encode(cp) = <<224 + h, 128 + Low6(m), 128 + Low6(cp)>>
  BY <1>2 DEF utf8_three_byte_encode
<1> HIDE DEF h, m
<1>4. /\ (224 + h) % 16 = h
      /\ Low6(128 + Low6(m)) = Low6(m) /\ Low6(128 + Low6(cp)) = Low6(cp)
  BY <1>1 DEF Low6
<1>5. (224 + h) \div 8 # 30 /\ (224 + h) \div 16 = 14
  BY <1>1
<1>6. cp = h * 4096 + Low6(m) * 64 + Low6(cp)
  BY <1>1
<1> QED
  BY <1>3, <1>4, <1>5, <1>6
     DEF utf8_three_byte_decode, remaining_utf8_bytes

\* Four bytes decode to what was encoded, and the first one tells that three follow.
LEMMA FourBytes ==
    ASSUME NEW cp \in Nat, 65536 <= cp, cp <= 1114111
    PROVE  LET b == utf8_four_byte_encode(cp)
           IN /\ utf8_four_byte_decode(b) = cp
              /\ remaining_utf8_bytes(b[1]) = 3
<1> DEFINE m == High6(cp)
           n == High6(m)
           h == High6(n)
<1>1. /\ h \in 0 .. 4 /\ Low6(n) \in 0 .. 63
      /\ Low6(m) \in 0 .. 63 /\ Low6(cp) \in 0 .. 63
      /\ n = h * 64 + Low6(n) /\ m = n * 64 + Low6(m)
      /\ cp = m * 64 + Low6(cp)
  <2>1. m \in Nat /\ Low6(cp) \in 0 .. 63 /\ cp = m * 64 + Low6(cp)
    BY SixBits
  <2>2. n \in Nat /\ Low6(m) \in 0 .. 63 /\ m = n * 64 + Low6(m)
    BY <2>1, SixBits
  <2>3. h \in Nat /\ Low6(n) \in 0 .. 63 /\ n = h * 64 + Low6(n)
    BY <2>2, SixBits
  <2> HIDE DEF h, n, m
  <2> QED
    BY <2>1, <2>2, <2>3, SMT
<1>2. h % 8 = h
  BY <1>1
<1>3. utf8_four_byte_encode(cp)
        = <<240 + h, 128 + Low6(n), 128 + Low6(m), 128 + Low6(cp)>>
  BY <1>2 DEF utf8_four_byte_encode
<1> HIDE DEF h, n, m
<1>4. /\ (240 + h) % 8 = h
      /\ Low6(128 + Low6(n)) = Low6(n)
      /\ Low6(128 + Low6(m)) = Low6(m) /\ Low6(128 + Low6(cp)) = Low6(cp)
  <2>1. (240 + h) % 8 = h
    BY <1>1, SMT
  <2>2. \A d \in 0 .. 63 : Low6(128 + d) = d
    BY SMT DEF Low6
  <2> QED
    BY <1>1, <2>1, <2>2
<1>5. (240 + h) \div 8 = 30
  BY <1>1
<1>6. cp = h * 262144 + Low6(n) * 4096 + Low6(m) * 64 + Low6(cp)
  BY <1>1, SMTT(30)
<1> QED
  BY <1>3, <1>4, <1>5, <1>6
     DEF utf8_four_byte_decode, remaining_utf8_bytes

\* Every code point comes back from UTF-8, and its first byte alone tells how
\* many follow, which is what from_utf8_to_utf16le() reads (utf8.c:24-30).
THEOREM Utf8RoundTrip ==
    ASSUME NEW cp \in Nat, cp <= 1114111
    PROVE  LET size == utf8_glyph_size_of_code_point(cp)
               b == code_point_to_utf8_glyph(cp)
           IN /\ utf8_decode(size, b) = cp
              /\ remaining_utf8_bytes(b[1]) = size - 1
<1> DEFINE size == utf8_glyph_size_of_code_point(cp)
           b == code_point_to_utf8_glyph(cp)
<1>1. CASE cp <= 127
  <2>1. size = 1
    BY <1>1, SMT DEF utf8_glyph_size_of_code_point
  <2>2. b = utf8_one_byte_encode(cp)
    BY <2>1 DEF code_point_to_utf8_glyph
  <2>3. b = <<cp>> /\ remaining_utf8_bytes(cp) = 0
    BY <1>1, <2>2, OneByte
  <2>4. utf8_decode(size, b) = cp
    BY <2>1, <2>3, SMT DEF utf8_decode, utf8_one_byte_decode
  <2> QED
    BY <2>1, <2>3, <2>4, SMT
<1>2. CASE 128 <= cp /\ cp <= 2047
  <2>1. size = 2
    BY <1>2, SMT DEF utf8_glyph_size_of_code_point
  <2>2. b = utf8_two_byte_encode(cp)
    BY <2>1 DEF code_point_to_utf8_glyph
  <2>3. utf8_two_byte_decode(b) = cp /\ remaining_utf8_bytes(b[1]) = 1
    BY <1>2, <2>2, TwoBytes
  <2>4. utf8_decode(size, b) = cp
    BY <2>1, <2>3 DEF utf8_decode
  <2> QED
    BY <2>1, <2>3, <2>4
<1>3. CASE 2048 <= cp /\ cp <= 65535
  <2>1. size = 3
    BY <1>3, SMT DEF utf8_glyph_size_of_code_point
  <2>2. b = utf8_three_byte_encode(cp)
    BY <2>1 DEF code_point_to_utf8_glyph
  <2>3. utf8_three_byte_decode(b) = cp /\ remaining_utf8_bytes(b[1]) = 2
    BY <1>3, <2>2, ThreeBytes
  <2>4. utf8_decode(size, b) = cp
    BY <2>1, <2>3 DEF utf8_decode
  <2> QED
    BY <2>1, <2>3, <2>4
<1>4. CASE 65536 <= cp /\ cp <= 1114111
  <2>1. size = 4
    BY <1>4, SMT DEF utf8_glyph_size_of_code_point
  <2>2. b = utf8_four_byte_encode(cp)
    BY <2>1 DEF code_point_to_utf8_glyph
  <2>3. utf8_four_byte_decode(b) = cp /\ remaining_utf8_bytes(b[1]) = 3
    BY <1>4, <2>2, FourBytes
  <2>4. utf8_decode(size, b) = cp
    BY <2>1, <2>3 DEF utf8_decode
  <2> QED
    BY <2>1, <2>3, <2>4
<1> QED
  BY <1>1, <1>2, <1>3, <1>4, SMT

\* The ten bits of a lower surrogate, and what is above them.
LEMMA TenBits ==
    ASSUME NEW n \in Nat, n < 1024 * 1024
    PROVE  /\ n \div 1024 \in 0 .. 1023 /\ n % 1024 \in 0 .. 1023
           /\ n = (n \div 1024) * 1024 + (n % 1024)
BY SMT

\* A supplementary code point comes back from its two units if and only if the
\* upper one passes the test, and it does but for the first and the last 1024
\* (utf.c:97-122); otherwise the lower unit is taken for the code point.
THEOREM SurrogateRoundTrip ==
    ASSUME NEW cp \in Nat, 65536 <= cp, cp <= 1114111
    PROVE  LET units == code_point_to_utf16_glyph(cp)
           IN /\ Len(units) = 2
              /\ 55296 <= units[1] /\ units[1] <= 56319
              /\ 56320 <= units[2] /\ units[2] <= 57343
              /\ utf16_glyph_to_code_point(units[1], units[2]) =
                   IF 66560 <= cp /\ cp <= 1113087 THEN cp ELSE units[2]
<1> DEFINE h == (cp - 65536) \div 1024
           l == (cp - 65536) % 1024
<1>1. /\ h \in 0 .. 1023 /\ l \in 0 .. 1023
      /\ cp = h * 1024 + l + 65536
  <2>1. cp - 65536 \in Nat /\ cp - 65536 < 1024 * 1024
    BY SMT
  <2>2. cp - 65536 = h * 1024 + l /\ h \in 0 .. 1023 /\ l \in 0 .. 1023
    BY <2>1, TenBits, SMTT(30)
  <2> QED
    BY <2>2, SMT
<1>2. code_point_to_utf16_glyph(cp) = <<h + 55296, l + 56320>>
  <2>1. (h + 55296) % 65536 = h + 55296
    BY <1>1, SMT
  <2>2. is_code_point_surrogate(cp)
    BY SMT DEF is_code_point_surrogate
  <2> QED
    BY <2>1, <2>2 DEF code_point_to_utf16_glyph, HiSurrogate, LoSurrogate
<1> HIDE DEF h, l
<1>3. h \in 1 .. 1022 <=> (66560 <= cp /\ cp <= 1113087)
  BY <1>1, SMT
<1>4. utf16_glyph_to_code_point(h + 55296, l + 56320)
        = IF h \in 1 .. 1022 THEN cp ELSE l + 56320
  BY <1>1, SMT DEF utf16_glyph_to_code_point, is_upper_surrogate_pair,
                   HiSurrogate, LoSurrogate
<1>5. /\ 55296 <= h + 55296 /\ h + 55296 <= 56319
      /\ 56320 <= l + 56320 /\ l + 56320 <= 57343
  BY <1>1, SMT
<1> QED
  BY <1>2, <1>3, <1>4, <1>5, SMT

\* Turning a unit round twice gives it back (wrappers.c:63-74).
THEOREM TurnedTwice ==
    ASSUME NEW unit \in Nat, unit < 65536
    PROVE  /\ reverse_bytes(unit) \in Nat /\ reverse_bytes(unit) < 65536
           /\ reverse_bytes(reverse_bytes(unit)) = unit
<1> DEFINE h == unit \div 256
           l == unit % 256
<1>1. h \in 0 .. 255 /\ l \in 0 .. 255 /\ unit = h * 256 + l
  BY SMT
<1> HIDE DEF h, l
<1>2. (l * 256 + h) % 256 = h /\ (l * 256 + h) \div 256 = l
  BY <1>1, SMT
<1>3. reverse_bytes(unit) = l * 256 + h
  BY DEF reverse_bytes, h, l
<1>4. reverse_bytes(l * 256 + h) = h * 256 + l
  BY <1>2 DEF reverse_bytes
<1>5. l * 256 + h \in Nat /\ l * 256 + h < 65536
  BY <1>1, SMT
<1> QED
  BY <1>1, <1>3, <1>4, <1>5
-----------------------------------------------------------------------------
(* Induction, and what FlattenSeq does                                     *)

\* A nonempty set of natural numbers has a smallest element.
LEMMA SmallestExists ==
    ASSUME NEW S \in SUBSET Nat, S # {}
    PROVE  \E d \in S : \A e \in S : d <= e
<1> DEFINE Less == {ss \in Nat \X Nat : ss[1] < ss[2]}
<1>1. IsWellFoundedOn(Less, Nat)
  BY NatLessThanWellFounded DEF OpToRel
<1>2. PICK d \in S : \A e \in S : <<e, d>> \notin Less
  <2> HIDE DEF Less
  <2> QED
    BY <1>1, WFMin
<1>3. \A e \in S : d <= e
  <2> TAKE e \in S
  <2>1. e \in Nat /\ d \in Nat /\ ~(e < d)
    BY <1>2
  <2> QED
    BY <2>1
<1> QED
  BY <1>3

\* Induction with the set of the numbers for which the claim holds.
LEMMA SetInduction ==
    ASSUME NEW S, 0 \in S, \A n \in Nat : n \in S => n + 1 \in S
    PROVE  \A n \in Nat : n \in S
<1> SUFFICES ASSUME ~ \A n \in Nat : n \in S
             PROVE  FALSE
  OBVIOUS
<1> DEFINE Bad == {n \in Nat : n \notin S}
<1>1. PICK d \in Bad : \A e \in Bad : d <= e
  <2>1. Bad \in SUBSET Nat /\ Bad # {}
    OBVIOUS
  <2> HIDE DEF Bad
  <2> QED
    BY <2>1, SmallestExists
<1>2. d \in Nat /\ d # 0
  OBVIOUS
<1>3. d - 1 \in Nat /\ d - 1 \notin Bad
  BY <1>1, <1>2
<1>4. (d - 1) + 1 \in S
  BY <1>3
<1> QED
  BY <1>2, <1>4

\* What the recursive function within FlattenSeq is.
Flattening(f, s) ==
    f = [i \in 1 .. Len(s) |-> IF i = 1 THEN s[i] ELSE f[i - 1] \o s[i]]

\* FlattenSeq looks it up at the length of the sequence.
LEMMA FlattenSeqIs ==
    ASSUME NEW s, Len(s) # 0
    PROVE  FlattenSeq(s) = (CHOOSE f : Flattening(f, s))[Len(s)]
BY DEF FlattenSeq, Flattening

\* Such a function exists, ...
LEMMA FlatteningExists ==
    ASSUME NEW s, Len(s) \in Nat
    PROVE  \E f : Flattening(f, s)
<1> DEFINE Upto(n, f) ==
             f = [i \in 1 .. n |-> IF i = 1 THEN s[i] ELSE f[i - 1] \o s[i]]
           Reached == {n \in Nat : \E f : Upto(n, f)}
<1>1. 0 \in Reached
  <2>1. Upto(0, [i \in 1 .. 0 |-> s[i]])
    OBVIOUS
  <2> QED
    BY <2>1
<1>2. ASSUME NEW n \in Nat, n \in Reached
      PROVE  n + 1 \in Reached
  <2>1. PICK f : Upto(n, f)
    BY <1>2
  <2> DEFINE g == [i \in 1 .. n + 1 |->
                     IF i <= n THEN f[i]
                     ELSE IF i = 1 THEN s[i] ELSE f[i - 1] \o s[i]]
  <2>2. \A i \in 1 .. n : f[i] = IF i = 1 THEN s[i] ELSE f[i - 1] \o s[i]
    BY <2>1
  <2>3. ASSUME NEW i \in 1 .. n + 1
        PROVE  g[i] = IF i = 1 THEN s[i] ELSE g[i - 1] \o s[i]
    <3>1. CASE i = 1
      BY <3>1, <2>2
    <3>2. CASE i # 1
      <4>1. i - 1 \in 1 .. n
        BY <3>2
      <4>2. g[i - 1] = f[i - 1]
        BY <4>1
      <4>3. CASE i <= n
        <5>1. i \in 1 .. n /\ g[i] = f[i]
          BY <4>3
        <5>2. f[i] = f[i - 1] \o s[i]
          BY <5>1, <2>2, <3>2
        <5> QED
          BY <5>1, <5>2, <4>2, <3>2
      <4>4. CASE ~(i <= n)
        BY <4>2, <4>4, <3>2
      <4> QED
        BY <4>3, <4>4
    <3> QED
      BY <3>1, <3>2
  <2>4. g = [i \in 1 .. n + 1 |-> g[i]]
    OBVIOUS
  <2> HIDE DEF g
  <2>5. Upto(n + 1, g)
    BY <2>3, <2>4
  <2> HIDE DEF Upto
  <2> QED
    BY <2>5
<1> HIDE DEF Reached
<1>3. \A n \in Nat : n \in Reached
  BY <1>1, <1>2, SetInduction
<1> QED
  BY <1>3 DEF Flattening, Reached

\* ... and adding a sequence at the end does not change what it is before.
LEMMA FlatteningsAgree ==
    ASSUME NEW T, NEW s \in Seq(T), NEW e \in T,
           NEW f, Flattening(f, s),
           NEW g, Flattening(g, Append(s, e))
    PROVE  /\ \A i \in 1 .. Len(s) : f[i] = g[i]
           /\ g[Len(s) + 1] = IF s = <<>> THEN e ELSE f[Len(s)] \o e
<1> DEFINE a == Append(s, e)
           Same == {n \in Nat : n \in 1 .. Len(s) => f[n] = g[n]}
<1>1. /\ Len(a) = Len(s) + 1 /\ Len(s) \in Nat
      /\ \A i \in 1 .. Len(s) : a[i] = s[i]
      /\ a[Len(s) + 1] = e
  OBVIOUS
<1>2. \A i \in 1 .. Len(s) : f[i] = IF i = 1 THEN s[i] ELSE f[i - 1] \o s[i]
  BY DEF Flattening
<1>3. \A i \in 1 .. Len(a) : g[i] = IF i = 1 THEN a[i] ELSE g[i - 1] \o a[i]
  BY DEF Flattening
<1> HIDE DEF a
<1>4. 0 \in Same
  OBVIOUS
<1>5. ASSUME NEW n \in Nat, n \in Same
      PROVE  n + 1 \in Same
  <2> SUFFICES ASSUME n + 1 \in 1 .. Len(s)
               PROVE  f[n + 1] = g[n + 1]
    OBVIOUS
  <2>1. n + 1 \in 1 .. Len(a) /\ a[n + 1] = s[n + 1]
    BY <1>1
  <2>2. CASE n = 0
    BY <2>1, <2>2, <1>2, <1>3
  <2>3. CASE n # 0
    <3>1. f[n] = g[n] /\ n + 1 # 1 /\ (n + 1) - 1 = n
      BY <1>5, <2>3
    <3>2. f[n + 1] = f[n] \o s[n + 1]
      BY <3>1, <1>2
    <3>3. g[n + 1] = g[n] \o a[n + 1]
      BY <3>1, <1>3, <2>1
    <3> QED
      BY <3>1, <3>2, <3>3, <2>1
  <2> QED
    BY <2>2, <2>3
<1> HIDE DEF Same
<1>6. \A n \in Nat : n \in Same
  BY <1>4, <1>5, SetInduction
<1>7. \A i \in 1 .. Len(s) : f[i] = g[i]
  BY <1>6 DEF Same
<1>8. CASE s = <<>>
  BY <1>8, <1>1, <1>3
<1>9. CASE s # <<>>
  <2>1. Len(s) \in 1 .. Len(s) /\ Len(s) + 1 \in 1 .. Len(a)
    BY <1>9, <1>1, EmptySeq
  <2>2. Len(s) + 1 # 1 /\ (Len(s) + 1) - 1 = Len(s)
    BY <2>1
  <2>3. g[Len(s) + 1] = g[(Len(s) + 1) - 1] \o a[Len(s) + 1]
    BY <1>3, <2>1, <2>2
  <2> QED
    BY <2>1, <2>2, <2>3, <1>1, <1>7, <1>9
<1> QED
  BY <1>7, <1>8, <1>9

\* What FlattenSeq does to the last of the sequences.
LEMMA FlattenAppend ==
    ASSUME NEW T, NEW s \in Seq(Seq(T)), NEW e \in Seq(T)
    PROVE  FlattenSeq(Append(s, e)) = FlattenSeq(s) \o e
<1> DEFINE a == Append(s, e)
<1>1. /\ Len(a) = Len(s) + 1 /\ Len(s) \in Nat /\ Len(a) # 0
      /\ \A i \in 1 .. Len(s) : a[i] = s[i]
      /\ a[Len(s) + 1] = e
  OBVIOUS
<1> DEFINE f == CHOOSE h : Flattening(h, s)
           g == CHOOSE h : Flattening(h, a)
<1>2. Flattening(f, s)
  <2> HIDE DEF a
  <2> QED
    BY <1>1, FlatteningExists
<1>3. Flattening(g, a)
  <2>1. Len(a) \in Nat
    BY <1>1
  <2> HIDE DEF a
  <2> QED
    BY <2>1, FlatteningExists
<1> HIDE DEF f, g
<1>4. g[Len(s) + 1] = IF s = <<>> THEN e ELSE f[Len(s)] \o e
  <2> DEFINE U == Seq(T)
  <2>1. s \in Seq(U) /\ e \in U
    OBVIOUS
  <2> HIDE DEF U
  <2> QED
    BY <1>2, <1>3, <2>1, FlatteningsAgree
<1>5. FlattenSeq(a) = g[Len(s) + 1]
  <2> HIDE DEF a
  <2>1. FlattenSeq(a) = g[Len(a)]
    BY <1>1, FlattenSeqIs DEF g
  <2> QED
    BY <2>1, <1>1
<1>6. CASE s = <<>>
  <2>1. FlattenSeq(s) = <<>>
    BY <1>6 DEF FlattenSeq
  <2>2. <<>> \o e = e
    BY ConcatEmptySeq
  <2> QED
    BY <1>4, <1>5, <1>6, <2>1, <2>2
<1>7. CASE s # <<>>
  <2>1. Len(s) # 0
    BY <1>7
  <2>2. FlattenSeq(s) = f[Len(s)]
    BY <2>1, FlattenSeqIs DEF f
  <2> QED
    BY <1>4, <1>5, <1>7, <2>2
<1> QED
  BY <1>6, <1>7
\* Induction over the length of a sequence, with a set of sequences.
LEMMA AppendInduction ==
    ASSUME NEW T, NEW A, <<>> \in A,
           \A s \in Seq(T), e \in T : s \in A => Append(s, e) \in A
    PROVE  \A s \in Seq(T) : s \in A
<1> DEFINE S == {n \in Nat : \A s \in Seq(T) : Len(s) = n => s \in A}
<1>1. 0 \in S
  <2>1. \A s \in Seq(T) : Len(s) = 0 => s = <<>>
    BY EmptySeq
  <2> QED
    BY <2>1
<1>2. ASSUME NEW n \in Nat, n \in S
      PROVE  n + 1 \in S
  <2> SUFFICES ASSUME NEW s \in Seq(T), Len(s) = n + 1
               PROVE  s \in A
    OBVIOUS
  <2>1. PICK p \in Seq(T), e \in T : s = Append(p, e)
    <3>1. s # <<>>
      BY EmptySeq
    <3> QED
      BY <3>1, SequenceEmptyOrAppend
  <2>2. Len(p) = n
    <3>1. Len(s) = Len(p) + 1 /\ Len(p) \in Nat
      BY <2>1, AppendProperties
    <3> QED
      BY <3>1
  <2> QED
    BY <1>2, <2>1, <2>2
<1> HIDE DEF S
<1>3. \A n \in Nat : n \in S
  BY <1>1, <1>2, SetInduction
<1> QED
  BY <1>3 DEF S

\* Nothing gives nothing, and one sequence gives itself.
LEMMA FlattenShort ==
    ASSUME NEW T, NEW e \in Seq(T)
    PROVE  FlattenSeq(<<>>) = <<>> /\ FlattenSeq(<<e>>) = e
<1>1. FlattenSeq(<<>>) = <<>>
  BY DEF FlattenSeq
<1>2. <<>> \in Seq(Seq(T)) /\ <<e>> = Append(<<>>, e)
  OBVIOUS
<1>3. FlattenSeq(<<e>>) = <<>> \o e
  BY <1>1, <1>2, FlattenAppend
<1> QED
  BY <1>1, <1>3, ConcatEmptySeq

\* Sequences over a set give a sequence over it.
LEMMA FlattenType ==
    ASSUME NEW T
    PROVE  \A s \in Seq(Seq(T)) : FlattenSeq(s) \in Seq(T)
<1> DEFINE U == Seq(T)
           A == {s \in Seq(U) : FlattenSeq(s) \in Seq(T)}
<1>1. <<>> \in A
  <2>1. <<>> \in Seq(U) /\ <<>> \in Seq(T)
    BY EmptySeq
  <2>2. FlattenSeq(<<>>) = <<>>
    BY DEF FlattenSeq
  <2> QED
    BY <2>1, <2>2
<1>2. ASSUME NEW s \in Seq(U), NEW e \in U, s \in A
      PROVE  Append(s, e) \in A
  <2>1. FlattenSeq(Append(s, e)) = FlattenSeq(s) \o e
    BY FlattenAppend
  <2>2. FlattenSeq(s) \o e \in Seq(T)
    BY <1>2, ConcatProperties
  <2>3. Append(s, e) \in Seq(U)
    BY AppendProperties
  <2> QED
    BY <2>1, <2>2, <2>3
<1> HIDE DEF A
<1>3. \A s \in Seq(U) : s \in A
  <2> HIDE DEF U
  <2> QED
    BY <1>1, <1>2, AppendInduction
<1> QED
  BY <1>3 DEF A

\* What is before and what is behind can be flattened apart.
LEMMA FlattenConcat ==
    ASSUME NEW T, NEW s \in Seq(Seq(T)), NEW t \in Seq(Seq(T))
    PROVE  FlattenSeq(s \o t) = FlattenSeq(s) \o FlattenSeq(t)
<1> DEFINE U == Seq(T)
           A == {v \in Seq(U) : FlattenSeq(s \o v) = FlattenSeq(s) \o FlattenSeq(v)}
<1>0. FlattenSeq(s) \in Seq(T)
  BY FlattenType
<1>1. <<>> \in A
  <2>1. <<>> \in Seq(U) /\ FlattenSeq(<<>>) = <<>>
    BY DEF FlattenSeq
  <2>2. s \o <<>> = s /\ FlattenSeq(s) \o <<>> = FlattenSeq(s)
    BY <1>0, ConcatEmptySeq
  <2> QED
    BY <2>1, <2>2
<1>2. ASSUME NEW v \in Seq(U), NEW e \in U, v \in A
      PROVE  Append(v, e) \in A
  <2>1. s \o Append(v, e) = Append(s \o v, e)
    <3>1. s \in Seq(U)
      OBVIOUS
    <3> HIDE DEF U
    <3> QED
      BY <3>1
  <2>2. s \o v \in Seq(Seq(T))
    BY ConcatProperties
  <2>3. FlattenSeq(Append(s \o v, e)) = FlattenSeq(s \o v) \o e
    BY <2>2, FlattenAppend
  <2>4. FlattenSeq(Append(v, e)) = FlattenSeq(v) \o e
    BY FlattenAppend
  <2>5. FlattenSeq(v) \in Seq(T)
    BY FlattenType
  <2>6. (FlattenSeq(s) \o FlattenSeq(v)) \o e = FlattenSeq(s) \o (FlattenSeq(v) \o e)
    BY <1>0, <2>5, ConcatAssociative, SMTT(30)
  <2>7. Append(v, e) \in Seq(U)
    BY AppendProperties
  <2> QED
    BY <1>2, <2>1, <2>3, <2>4, <2>6, <2>7
<1> HIDE DEF A
<1>3. \A v \in Seq(U) : v \in A
  <2> HIDE DEF U
  <2> QED
    BY <1>1, <1>2, AppendInduction
<1> QED
  BY <1>3 DEF A

-----------------------------------------------------------------------------
(* The encodings of one code point                                         *)

\* The code points without an interval, which the solver would enumerate.
LEMMA CodePointIs ==
    ASSUME NEW cp
    PROVE  cp \in CodePoint <=> cp \in Nat /\ cp <= 1114111
<1>1. /\ MaxCodePoint \in Nat
      /\ MaxCodePoint <= 1114111 /\ 1114111 <= MaxCodePoint
  BY SMT DEF MaxCodePoint
<1>2. cp \in 0 .. MaxCodePoint <=> cp \in Nat /\ cp <= MaxCodePoint
  BY <1>1
<1>3. cp \in Nat => (cp <= MaxCodePoint <=> cp <= 1114111)
  BY <1>1, SMT
<1> QED
  BY <1>2, <1>3, SMT DEF CodePoint

\* Dividing by a power of 64 takes six bits off so many times.
LEMMA Places ==
    ASSUME NEW cp \in Nat
    PROVE  /\ cp \div 64 = High6(cp)
           /\ cp \div 4096 = High6(High6(cp))
           /\ cp \div 262144 = High6(High6(High6(cp)))
<1> DEFINE m == High6(cp)
           n == High6(m)
           h == High6(n)
           a == Low6(cp)
           b == Low6(m)
           c == Low6(n)
<1>1. m \in Nat /\ a \in 0 .. 63 /\ cp = m * 64 + a
  BY SixBits
<1>2. n \in Nat /\ b \in 0 .. 63 /\ m = n * 64 + b
  BY <1>1, SixBits
<1>3. h \in Nat /\ c \in 0 .. 63 /\ n = h * 64 + c
  BY <1>2, SixBits
<1> HIDE DEF h, n, m, a, b, c
<1>4. cp = n * 4096 + (b * 64 + a)
  BY <1>1, <1>2, SMT
<1>5. cp \div 4096 = n
  <2>1. b * 64 + a \in Nat /\ b * 64 + a <= 4095
    BY <1>1, <1>2, SMT
  <2> QED
    BY <1>2, <1>4, <2>1, SMT
<1>6. cp = h * 262144 + (c * 4096 + b * 64 + a)
  <2>1. n * 4096 = h * 262144 + c * 4096
    BY <1>3, SMT
  <2> QED
    BY <1>1, <1>2, <1>3, <1>4, <2>1, SMT
<1>7. cp \div 262144 = h
  <2>1. c * 4096 + b * 64 + a \in Nat /\ c * 4096 + b * 64 + a <= 262143
    BY <1>1, <1>2, <1>3, SMT
  <2> QED
    BY <1>3, <1>6, <2>1, SMT
<1> QED
  BY <1>5, <1>7 DEF h, n, m, High6

\* Bytes in a row are a sequence of bytes.
LEMMA Tuples ==
    ASSUME NEW T, NEW a \in T, NEW b \in T, NEW c \in T, NEW d \in T
    PROVE  /\ <<a>> \in Seq(T) /\ Len(<<a>>) = 1
           /\ <<a, b>> \in Seq(T) /\ Len(<<a, b>>) = 2
           /\ <<a, b, c>> \in Seq(T) /\ Len(<<a, b, c>>) = 3
           /\ <<a, b, c, d>> \in Seq(T) /\ Len(<<a, b, c, d>>) = 4
OBVIOUS

\* The bytes the Unicode standard gives a code point are those of the encoders.
LEMMA Utf8BytesAre ==
    ASSUME NEW cp \in CodePoint
    PROVE  /\ Utf8Bytes(cp) = code_point_to_utf8_glyph(cp)
           /\ Utf8Bytes(cp) \in Seq(Byte)
           /\ Len(Utf8Bytes(cp)) = utf8_glyph_size_of_code_point(cp)
<1> DEFINE a == cp % 64
           b == (cp \div 64) % 64
           c == (cp \div 4096) % 64
           d == (cp \div 262144) % 64
           size == utf8_glyph_size_of_code_point(cp)
<1>0. cp \in Nat /\ cp <= 1114111
  BY CodePointIs, SMT
<1>1. a \in 0 .. 63 /\ b \in 0 .. 63 /\ c \in 0 .. 63 /\ d \in 0 .. 63
  BY <1>0, SMT
<1>2. CASE cp < 128
  <2>1. Utf8Bytes(cp) = <<cp>> /\ size = 1 /\ cp \in Byte /\ cp % 256 = cp
    BY <1>0, <1>2, SMT DEF Utf8Bytes, utf8_glyph_size_of_code_point, Byte
  <2>2. code_point_to_utf8_glyph(cp) = <<cp>>
    BY <2>1 DEF code_point_to_utf8_glyph, utf8_one_byte_encode
  <2> QED
    BY <2>1, <2>2, Tuples
<1>3. CASE 128 <= cp /\ cp < 2048
  <2>1. Utf8Bytes(cp) = [i \in 1 .. 2 |->
             ((cp \div <<262144, 4096, 64, 1>>[4 - 2 + i]) % 64)
               + IF i = 1 THEN <<192, 224, 240>>[2 - 1] ELSE 128]
    BY <1>0, <1>3, SMT DEF Utf8Bytes
  <2>2. Utf8Bytes(cp) = <<192 + b, 128 + a>>
    BY <1>0, <2>1, SMT
  <2>3. b = (cp \div 64) % 32 /\ b \in 0 .. 31 /\ size = 2
    BY <1>0, <1>3, SMT DEF utf8_glyph_size_of_code_point
  <2>4. code_point_to_utf8_glyph(cp) = <<192 + b, 128 + a>>
    BY <2>3 DEF code_point_to_utf8_glyph, utf8_two_byte_encode, High6, Low6
  <2> HIDE DEF a, b, size
  <2>5. 192 + b \in Byte /\ 128 + a \in Byte
    BY <1>1, <2>3 DEF Byte
  <2> QED
    BY <2>2, <2>3, <2>4, <2>5, Tuples DEF size
<1>4. CASE 2048 <= cp /\ cp < 65536
  <2>1. Utf8Bytes(cp) = [i \in 1 .. 3 |->
             ((cp \div <<262144, 4096, 64, 1>>[4 - 3 + i]) % 64)
               + IF i = 1 THEN <<192, 224, 240>>[3 - 1] ELSE 128]
    <3>1. ~(cp < 128) /\ ~(cp < 2048) /\ cp < 65536
      BY <1>0, <1>4, SMT
    <3> QED
      BY <3>1, SMTT(30) DEF Utf8Bytes
  <2>2. Utf8Bytes(cp) = <<224 + c, 128 + b, 128 + a>>
    BY <1>0, <2>1, SMT
  <2>3. c = (cp \div 4096) % 16 /\ c \in 0 .. 15 /\ size = 3
    BY <1>0, <1>4, SMT DEF utf8_glyph_size_of_code_point
  <2>4. code_point_to_utf8_glyph(cp) = <<224 + c, 128 + b, 128 + a>>
    <3>1. code_point_to_utf8_glyph(cp) = utf8_three_byte_encode(cp)
      BY <2>3 DEF code_point_to_utf8_glyph
    <3>2. High6(High6(cp)) = cp \div 4096 /\ High6(cp) = cp \div 64
      BY <1>0, Places
    <3> QED
      BY <2>3, <3>1, <3>2 DEF utf8_three_byte_encode, Low6
  <2> HIDE DEF a, b, c, size
  <2>5. 224 + c \in Byte /\ 128 + b \in Byte /\ 128 + a \in Byte
    BY <1>1, <2>3 DEF Byte
  <2> QED
    BY <2>2, <2>3, <2>4, <2>5, Tuples DEF size
<1>5. CASE 65536 <= cp
  <2>1. Utf8Bytes(cp) = [i \in 1 .. 4 |->
             ((cp \div <<262144, 4096, 64, 1>>[4 - 4 + i]) % 64)
               + IF i = 1 THEN <<192, 224, 240>>[4 - 1] ELSE 128]
    <3>1. ~(cp < 128) /\ ~(cp < 2048) /\ ~(cp < 65536)
      BY <1>0, <1>5, SMT
    <3> QED
      BY <3>1, SMTT(30) DEF Utf8Bytes
  <2>2. Utf8Bytes(cp) = <<240 + d, 128 + c, 128 + b, 128 + a>>
    BY <1>0, <2>1, SMT
  <2>3. d = (cp \div 262144) % 8 /\ d \in 0 .. 4 /\ size = 4
    BY <1>0, <1>5, SMT DEF utf8_glyph_size_of_code_point
  <2>4. code_point_to_utf8_glyph(cp) = <<240 + d, 128 + c, 128 + b, 128 + a>>
    <3>1. code_point_to_utf8_glyph(cp) = utf8_four_byte_encode(cp)
      BY <2>3 DEF code_point_to_utf8_glyph
    <3>2. /\ High6(High6(High6(cp))) = cp \div 262144
          /\ High6(High6(cp)) = cp \div 4096 /\ High6(cp) = cp \div 64
      BY <1>0, Places
    <3> QED
      BY <2>3, <3>1, <3>2, SMT DEF utf8_four_byte_encode, Low6
  <2> HIDE DEF a, b, c, d, size
  <2>5. 240 + d \in Byte /\ 128 + c \in Byte /\ 128 + b \in Byte /\ 128 + a \in Byte
    BY <1>1, <2>3 DEF Byte
  <2> QED
    BY <2>2, <2>3, <2>4, <2>5, Tuples, SMT DEF size
<1> QED
  BY <1>0, <1>2, <1>3, <1>4, <1>5, SMT

-----------------------------------------------------------------------------
(* Texts: each element in its place, the results one behind the other      *)

Spelled(G, t) == FlattenSeq([i \in DOMAIN t |-> G[t[i]]])

\* What G makes of each element of S.
Speller(G, S, T) == G \in [S -> Seq(T)]

\* A function on the numbers from 1 is a sequence.
LEMMA FunctionIsSeq ==
    ASSUME NEW T, NEW n \in Nat, NEW w \in [1 .. n -> T]
    PROVE  w \in Seq(T) /\ Len(w) = n
OBVIOUS

\* What Spelled flattens.
LEMMA Letters ==
    ASSUME NEW S, NEW T, NEW G, Speller(G, S, T), NEW t \in Seq(S)
    PROVE  /\ [i \in DOMAIN t |-> G[t[i]]] \in Seq(Seq(T))
           /\ Spelled(G, t) \in Seq(T)
<1>1. DOMAIN t = 1 .. Len(t) /\ Len(t) \in Nat
  BY LenProperties
<1>2. \A i \in 1 .. Len(t) : G[t[i]] \in Seq(T)
  BY ElementOfSeq DEF Speller
<1>3. [i \in DOMAIN t |-> G[t[i]]] \in Seq(Seq(T))
  <2> DEFINE U == Seq(T)
             w == [i \in DOMAIN t |-> G[t[i]]]
  <2>1. w \in [1 .. Len(t) -> U]
    BY <1>1, <1>2
  <2> HIDE DEF U, w
  <2>2. w \in Seq(U)
    BY <1>1, <2>1, FunctionIsSeq
  <2> QED
    BY <2>2 DEF U, w
<1> QED
  BY <1>3, FlattenType DEF Spelled

\* A text of one element.
One(x) == <<x>>

\* To append an element is to put the text of it behind.
LEMMA OneBehind ==
    ASSUME NEW S, NEW t \in Seq(S), NEW x \in S
    PROVE  /\ One(x) \in Seq(S)
           /\ Append(t, x) = t \o One(x)
BY DEF One

\* A text that is not empty begins with an element.
LEMMA OneBefore ==
    ASSUME NEW S, NEW t \in Seq(S), t # <<>>
    PROVE  \E x \in S, r \in Seq(S) : One(x) \in Seq(S) /\ t = One(x) \o r
<1>1. Head(t) \in S /\ Tail(t) \in Seq(S)
  BY HeadTailProperties
<1>2. t = One(Head(t)) \o Tail(t) /\ One(Head(t)) \in Seq(S)
  BY <1>1 DEF One
<1> QED
  BY <1>1, <1>2

\* Nothing is spelled as nothing.
LEMMA SpelledNothing ==
    ASSUME NEW G
    PROVE  Spelled(G, <<>>) = <<>>
BY SMT DEF Spelled, FlattenSeq

\* And an element alone as it is.
LEMMA SpelledShort ==
    ASSUME NEW S, NEW T, NEW G, Speller(G, S, T), NEW x \in S
    PROVE  Spelled(G, <<>>) = <<>> /\ Spelled(G, One(x)) = G[x]
<1>1. G[x] \in Seq(T)
  BY DEF Speller
<1>2. /\ [i \in DOMAIN <<>> |-> G[<<>>[i]]] = <<>>
      /\ [i \in DOMAIN One(x) |-> G[One(x)[i]]] = <<G[x]>>
  BY DEF One
<1> QED
  BY <1>1, <1>2, FlattenShort DEF Spelled

\* Two texts can be spelled apart.
LEMMA SpelledConcat ==
    ASSUME NEW S, NEW T, NEW G, Speller(G, S, T),
           NEW s \in Seq(S), NEW t \in Seq(S)
    PROVE  Spelled(G, s \o t) = Spelled(G, s) \o Spelled(G, t)
<1> DEFINE v == s \o t
           L(w) == [i \in DOMAIN w |-> G[w[i]]]
           U == Seq(T)
<1>1. /\ v \in Seq(S) /\ Len(v) = Len(s) + Len(t)
      /\ \A i \in 1 .. Len(s) + Len(t) :
           v[i] = IF i <= Len(s) THEN s[i] ELSE t[i - Len(s)]
  BY ConcatProperties
<1>2. /\ DOMAIN s = 1 .. Len(s) /\ DOMAIN t = 1 .. Len(t)
      /\ DOMAIN v = 1 .. Len(v)
      /\ Len(s) \in Nat /\ Len(t) \in Nat
  BY <1>1, LenProperties
<1>3. L(s) \in Seq(U) /\ L(t) \in Seq(U) /\ L(v) \in Seq(U)
  <2> HIDE DEF v
  <2>1. L(s) \in Seq(U)
    BY Letters
  <2>2. L(t) \in Seq(U)
    BY Letters
  <2>3. L(v) \in Seq(U)
    <3>1. v \in Seq(S)
      BY <1>1
    <3> QED
      BY <3>1, Letters
  <2> QED
    BY <2>1, <2>2, <2>3
<1> HIDE DEF v, U
<1>4. Len(L(s)) = Len(s) /\ Len(L(t)) = Len(t) /\ Len(L(v)) = Len(v)
  BY <1>1, <1>2
<1>5. L(v) = L(s) \o L(t)
  <2>1. /\ L(s) \o L(t) \in Seq(U)
        /\ Len(L(s) \o L(t)) = Len(s) + Len(t)
        /\ \A i \in 1 .. Len(s) + Len(t) :
             (L(s) \o L(t))[i] = IF i <= Len(s) THEN L(s)[i] ELSE L(t)[i - Len(s)]
    <3> HIDE DEF L
    <3>1. L(s) \in Seq(U) /\ L(t) \in Seq(U)
      BY <1>3
    <3>2. /\ L(s) \o L(t) \in Seq(U)
          /\ Len(L(s) \o L(t)) = Len(L(s)) + Len(L(t))
          /\ \A i \in 1 .. Len(L(s)) + Len(L(t)) : (L(s) \o L(t))[i] =
                IF i <= Len(L(s)) THEN L(s)[i] ELSE L(t)[i - Len(L(s))]
      BY <3>1, ConcatProperties, Zenon
    <3> QED
      BY <3>2, <1>4, Zenon
  <2>2. ASSUME NEW i \in 1 .. Len(s) + Len(t)
        PROVE  L(v)[i] = (L(s) \o L(t))[i]
    <3>1. L(v)[i] = G[v[i]]
      BY <1>1, <1>2
    <3>2. CASE i <= Len(s)
      BY <3>1, <3>2, <2>1, <1>1, <1>2
    <3>3. CASE ~(i <= Len(s))
      <4>1. i - Len(s) \in 1 .. Len(t)
        BY <3>3, <1>2
      <4> QED
        BY <3>1, <3>3, <4>1, <2>1, <1>1, <1>2
    <3> QED
      BY <3>2, <3>3
  <2> HIDE DEF L
  <2> QED
    BY <1>1, <1>3, <1>4, <2>1, <2>2, SeqEqual
<1> HIDE DEF L
<1>6. FlattenSeq(L(s) \o L(t)) = FlattenSeq(L(s)) \o FlattenSeq(L(t))
  BY <1>3, FlattenConcat DEF U
<1> QED
  BY <1>5, <1>6 DEF Spelled, L, v

\* A text that is longer by one element, behind or before.
LEMMA SpelledMore ==
    ASSUME NEW S, NEW T, NEW G, Speller(G, S, T), NEW t \in Seq(S), NEW x \in S
    PROVE  /\ Spelled(G, t \o One(x)) = Spelled(G, t) \o G[x]
           /\ Spelled(G, One(x) \o t) = G[x] \o Spelled(G, t)
<1>1. One(x) \in Seq(S)
  BY OneBehind
<1>2. Spelled(G, One(x)) = G[x]
  BY SpelledShort
<1>3. Spelled(G, t \o One(x)) = Spelled(G, t) \o Spelled(G, One(x))
  BY <1>1, SpelledConcat
<1>4. Spelled(G, One(x) \o t) = Spelled(G, One(x)) \o Spelled(G, t)
  BY <1>1, SpelledConcat
<1> QED
  BY <1>2, <1>3, <1>4

\* A text spelled in parts whose parts are spelled is the text spelled at once.
LEMMA SpelledTwice ==
    ASSUME NEW S, NEW R, NEW T, NEW F, Speller(F, S, R), NEW G, Speller(G, R, T),
           NEW H, Speller(H, S, T), \A x \in S : H[x] = Spelled(G, F[x])
    PROVE  \A t \in Seq(S) : Spelled(H, t) = Spelled(G, Spelled(F, t))
<1> DEFINE A == {t \in Seq(S) : Spelled(H, t) = Spelled(G, Spelled(F, t))}
<1>1. <<>> \in A
  <2>1. Spelled(H, <<>>) = <<>> /\ Spelled(F, <<>>) = <<>> /\ Spelled(G, <<>>) = <<>>
    BY SpelledNothing
  <2>2. <<>> \in Seq(S)
    BY EmptySeq
  <2> QED
    BY <2>1, <2>2
<1>2. ASSUME NEW t \in Seq(S), NEW x \in S, t \in A
      PROVE  Append(t, x) \in A
  <2>1. Append(t, x) = t \o One(x) /\ Append(t, x) \in Seq(S) /\ One(x) \in Seq(S)
    BY OneBehind, AppendProperties
  <2>2. Spelled(H, t \o One(x)) = Spelled(H, t) \o H[x]
    BY SpelledMore
  <2>3. Spelled(F, t \o One(x)) = Spelled(F, t) \o F[x]
    BY SpelledMore
  <2>4. Spelled(F, t) \in Seq(R) /\ F[x] \in Seq(R)
    BY Letters DEF Speller
  <2>5. Spelled(G, Spelled(F, t) \o F[x])
          = Spelled(G, Spelled(F, t)) \o Spelled(G, F[x])
    BY <2>4, SpelledConcat
  <2> QED
    BY <1>2, <2>1, <2>2, <2>3, <2>5
<1> HIDE DEF A
<1>3. \A t \in Seq(S) : t \in A
  BY <1>1, <1>2, AppendInduction
<1> QED
  BY <1>3 DEF A

\* What a loop has written of a text, behind what was written before it.
Written(G, before, done, out) == out = before \o Spelled(G, done)

\* How far a loop has come: of what it is to convert a part has been read as F
\* spells it and written as G does, and the rest is still to be read.
Halfway(S, F, G, all, before, in, out) ==
    \E done, rest \in Seq(S) :
        /\ all = done \o rest
        /\ in = Spelled(F, rest)
        /\ Written(G, before, done, out)

\* Nothing has been written at first.
LEMMA WrittenNothing ==
    ASSUME NEW G, NEW T, NEW before \in Seq(T)
    PROVE  Written(G, before, <<>>, before)
<1>1. Spelled(G, <<>>) = <<>>
  BY DEF Spelled, FlattenSeq
<1> QED
  BY <1>1, ConcatEmptySeq DEF Written

\* Writing one element more.
LEMMA WrittenMore ==
    ASSUME NEW S, NEW T, NEW G, Speller(G, S, T), NEW before \in Seq(T),
           NEW done \in Seq(S), NEW x \in S,
           NEW out, Written(G, before, done, out)
    PROVE  Written(G, before, done \o One(x), out \o G[x])
<1> DEFINE p == Spelled(G, done)
           q == G[x]
<1>1. p \in Seq(T) /\ q \in Seq(T)
  BY Letters DEF Speller
<1>2. Spelled(G, done \o One(x)) = p \o q
  BY SpelledMore
<1>3. out = before \o p
  BY DEF Written
<1> HIDE DEF p, q
<1>4. (before \o p) \o q = before \o (p \o q)
  BY <1>1, ConcatAssociative, SMTT(30)
<1>5. Written(G, before, done \o One(x), out \o q)
  BY <1>2, <1>3, <1>4 DEF Written
<1> QED
  BY <1>5 DEF q

\* At first everything is still to be read.
LEMMA HalfwayBegins ==
    ASSUME NEW S, NEW F, NEW G, NEW T, NEW all \in Seq(S), NEW before \in Seq(T)
    PROVE  Halfway(S, F, G, all, before, Spelled(F, all), before)
<1>1. <<>> \in Seq(S) /\ all = <<>> \o all
  BY EmptySeq, ConcatEmptySeq
<1>2. Written(G, before, <<>>, before)
  BY WrittenNothing
<1> QED
  BY <1>1, <1>2 DEF Halfway

\* As long as there is something to read it begins with an element, and reading
\* and writing this element is a turn of the loop.
LEMMA HalfwayTakes ==
    ASSUME NEW S, NEW T, NEW F, Speller(F, S, T), NEW G, Speller(G, S, T),
           NEW all \in Seq(S), NEW before \in Seq(T), NEW in, NEW out,
           Halfway(S, F, G, all, before, in, out), in # <<>>
    PROVE  \E x \in S, tail \in Seq(T) :
              /\ in = F[x] \o tail
              /\ Halfway(S, F, G, all, before, tail, out \o G[x])
<1>1. PICK done \in Seq(S), rest \in Seq(S) :
             /\ all = done \o rest
             /\ in = Spelled(F, rest)
             /\ Written(G, before, done, out)
  BY DEF Halfway
<1>2. rest # <<>>
  <2>1. Spelled(F, <<>>) = <<>>
    BY DEF Spelled, FlattenSeq
  <2> QED
    BY <1>1, <2>1
<1>3. PICK x \in S, r \in Seq(S) : One(x) \in Seq(S) /\ rest = One(x) \o r
  BY <1>2, OneBefore
<1>4. in = F[x] \o Spelled(F, r)
  <2>1. Spelled(F, One(x) \o r) = F[x] \o Spelled(F, r)
    BY <1>3, SpelledMore
  <2> QED
    BY <1>1, <1>3, <2>1
<1>5. Spelled(F, r) \in Seq(T)
  BY <1>3, Letters
<1>6. all = (done \o One(x)) \o r /\ done \o One(x) \in Seq(S)
  <2>1. (done \o One(x)) \o r = done \o (One(x) \o r)
    BY <1>3, ConcatAssociative, SMTT(30)
  <2>2. done \o One(x) \in Seq(S)
    BY <1>3, ConcatProperties
  <2> QED
    BY <1>1, <1>3, <2>1, <2>2
<1>7. Written(G, before, done \o One(x), out \o G[x])
  BY <1>1, <1>3, WrittenMore
<1>8. Halfway(S, F, G, all, before, Spelled(F, r), out \o G[x])
  BY <1>3, <1>6, <1>7 DEF Halfway
<1> QED
  BY <1>3, <1>4, <1>5, <1>8

\* When there is nothing to read any more everything has been written.
LEMMA HalfwayEnds ==
    ASSUME NEW S, NEW T, NEW F, Speller(F, S, T), NEW G,
           \A x \in S : F[x] # <<>>,
           NEW all \in Seq(S), NEW before, NEW out,
           Halfway(S, F, G, all, before, <<>>, out)
    PROVE  out = before \o Spelled(G, all)
<1>1. PICK done \in Seq(S), rest \in Seq(S) :
             /\ all = done \o rest
             /\ <<>> = Spelled(F, rest)
             /\ Written(G, before, done, out)
  BY DEF Halfway
<1>2. rest = <<>>
  <2> SUFFICES ASSUME rest # <<>>
               PROVE  FALSE
    OBVIOUS
  <2>1. PICK x \in S, r \in Seq(S) : One(x) \in Seq(S) /\ rest = One(x) \o r
    BY OneBefore
  <2>2. Spelled(F, rest) = F[x] \o Spelled(F, r)
    BY <2>1, SpelledMore
  <2>3. F[x] \in Seq(T) /\ Spelled(F, r) \in Seq(T) /\ F[x] # <<>>
    BY <2>1, Letters DEF Speller
  <2> QED
    <3> DEFINE p == F[x]
               q == Spelled(F, r)
    <3>1. p \in Seq(T) /\ q \in Seq(T) /\ p # <<>> /\ p \o q = <<>>
      BY <1>1, <2>2, <2>3
    <3> HIDE DEF p, q
    <3> QED
      BY <3>1, ConcatEqualIffEmpty
<1> QED
  BY <1>1, <1>2, ConcatEmptySeq DEF Written

-----------------------------------------------------------------------------
(* The encodings as spellings                                              *)

EncodeF(enc) == [cp \in CodePoint |-> Encoded(enc, cp)]
UnitF == [cp \in CodePoint |-> Units(cp)]
PutF(enc) == [u \in Unit |-> InOrder(enc, u)]
Wide == {"UTF16LE", "UTF16BE"}

\* The bytes and the units without an interval.
LEMMA UnitIs ==
    ASSUME NEW u
    PROVE  /\ u \in Byte <=> u \in Nat /\ u <= 255
           /\ u \in Unit <=> u \in Nat /\ u <= 65535
<1>1. u \in Byte <=> u \in Nat /\ u <= 255
  BY SMT DEF Byte
<1>2. u \in Unit <=> u \in Nat /\ u <= 65535
  <2>1. MaxUnit \in Nat /\ MaxUnit <= 65535 /\ 65535 <= MaxUnit
    BY SMT DEF MaxUnit
  <2>2. u \in 0 .. MaxUnit <=> u \in Nat /\ u <= MaxUnit
    BY <2>1
  <2>3. u \in Nat => (u <= MaxUnit <=> u <= 65535)
    BY <2>1, SMT
  <2> QED
    BY <2>2, <2>3, SMT DEF Unit
<1> QED
  BY <1>1, <1>2

\* The parts of a unit, and the unit they make when they change places.
LEMMA UnitParts ==
    ASSUME NEW u \in Unit
    PROVE  /\ u % 256 \in Byte /\ u \div 256 \in Byte
           /\ u = (u % 256) + 256 * (u \div 256)
           /\ reverse_bytes(u) \in Unit
           /\ reverse_bytes(u) % 256 = u \div 256
           /\ reverse_bytes(u) \div 256 = u % 256
<1> DEFINE h == u \div 256
           l == u % 256
<1>1. h \in 0 .. 255 /\ l \in 0 .. 255 /\ u = l + 256 * h
  <2>1. u \in Nat /\ u <= 65535
    BY UnitIs
  <2> QED
    BY <2>1, SMT
<1>2. reverse_bytes(u) = l * 256 + h
  BY DEF reverse_bytes
<1> HIDE DEF h, l
<1>3. (l * 256 + h) % 256 = h /\ (l * 256 + h) \div 256 = l
  BY <1>1, SMT
<1>4. l * 256 + h \in Unit
  <2>1. l * 256 + h \in Nat /\ l * 256 + h <= 65535
    BY <1>1, SMT
  <2> QED
    BY <2>1, UnitIs
<1>5. l \in Byte /\ h \in Byte
  BY <1>1 DEF Byte
<1> QED
  BY <1>1, <1>2, <1>3, <1>4, <1>5 DEF h, l

\* A unit as it is in a file.
LEMMA InOrderIs ==
    ASSUME NEW u \in Unit
    PROVE  /\ InOrder("UTF16LE", u) = <<u % 256, u \div 256>>
           /\ InOrder("UTF16BE", u) = <<u \div 256, u % 256>>
           /\ \A enc \in Wide : /\ InOrder(enc, u) \in Seq(Byte)
                                /\ Len(InOrder(enc, u)) = 2
                                /\ InOrder(enc, u) # <<>>
<1>1. InOrder("UTF16LE", u) = <<u % 256, u \div 256>>
  BY DEF InOrder, Memory
<1>2. InOrder("UTF16BE", u) = <<u \div 256, u % 256>>
  BY UnitParts DEF InOrder, Memory
<1>3. u % 256 \in Byte /\ u \div 256 \in Byte
  BY UnitParts
<1>4. \A a, b \in Byte : /\ <<a, b>> \in Seq(Byte) /\ Len(<<a, b>>) = 2
                         /\ <<a, b>> # <<>>
  OBVIOUS
<1>5. \A enc \in Wide : InOrder(enc, u) \in {<<u % 256, u \div 256>>, <<u \div 256, u % 256>>}
  BY <1>1, <1>2 DEF Wide
<1>6. ASSUME NEW enc \in Wide
      PROVE  /\ InOrder(enc, u) \in Seq(Byte)
             /\ Len(InOrder(enc, u)) = 2
             /\ InOrder(enc, u) # <<>>
  <2> DEFINE h == u \div 256
             l == u % 256
  <2>1. h \in Byte /\ l \in Byte /\ InOrder(enc, u) \in {<<l, h>>, <<h, l>>}
    BY <1>3, <1>5
  <2> HIDE DEF h, l
  <2> QED
    BY <2>1, <1>4
<1> QED
  BY <1>1, <1>2, <1>6

\* A code point that needs two units.
Surrogates(cp, up, low) == /\ Units(cp) = <<up, low>>
                           /\ 55296 <= up /\ up <= 56319
                           /\ 56320 <= low /\ low <= 57343

\* A code point that needs one.
Single(cp) == cp < 65536

\* The units of a code point.
LEMMA UnitsAre ==
    ASSUME NEW cp \in CodePoint
    PROVE  /\ Units(cp) = code_point_to_utf16_glyph(cp)
           /\ Single(cp) => Units(cp) = <<cp>> /\ cp \in Unit
           /\ ~Single(cp) => \E up, low \in Unit : Surrogates(cp, up, low)
<1>0. cp \in Nat /\ cp <= 1114111
  BY CodePointIs, SMT
<1>1. CASE Single(cp)
  <2>1. ~is_code_point_surrogate(cp)
    BY <1>0, <1>1, SMT DEF is_code_point_surrogate, Single
  <2>2. cp \in Unit
    BY <1>0, <1>1, UnitIs, SMT DEF Single
  <2> QED
    BY <1>1, <2>1, <2>2 DEF Units, Single, code_point_to_utf16_glyph
<1>2. CASE ~Single(cp)
  <2> DEFINE h == (cp - 65536) \div 1024
             l == cp % 1024
  <2>1. is_code_point_surrogate(cp)
    BY <1>0, <1>2, SMT DEF is_code_point_surrogate, Single
  <2>2. (cp - 65536) % 1024 = l /\ l \in 0 .. 1023
    BY <1>0, <1>2, SMT DEF Single
  <2>3. h \in 0 .. 1023
    <3> DEFINE n == cp - 65536
    <3>1. n \in Nat /\ n < 1024 * 1024
      BY <1>0, <1>2, SMT DEF Single
    <3> HIDE DEF n
    <3>2. n \div 1024 \in 0 .. 1023
      BY <3>1, TenBits, SMT
    <3> QED
      BY <3>2 DEF n
  <2>4. Units(cp) = <<55296 + h, 56320 + l>>
    BY <1>2, SMT DEF Units, Single
  <2>5. code_point_to_utf16_glyph(cp) = <<(h + 55296) % 65536, l + 56320>>
    BY <2>1, <2>2 DEF code_point_to_utf16_glyph, HiSurrogate, LoSurrogate
  <2> HIDE DEF h, l
  <2>6. (h + 55296) % 65536 = 55296 + h /\ l + 56320 = 56320 + l
    BY <2>2, <2>3, SMT
  <2>7. /\ 55296 + h \in Nat /\ 56320 + l \in Nat
        /\ 55296 <= 55296 + h /\ 55296 + h <= 56319
        /\ 56320 <= 56320 + l /\ 56320 + l <= 57343
    BY <2>2, <2>3, SMT
  <2>8. 55296 + h \in Unit /\ 56320 + l \in Unit
    BY <2>7, UnitIs, SMT
  <2> QED
    BY <1>2, <2>4, <2>5, <2>6, <2>7, <2>8 DEF Surrogates
<1> QED
  BY <1>1, <1>2

\* Two sequences one behind the other.
LEMMA FlattenTwo ==
    ASSUME NEW T, NEW a \in Seq(T), NEW b \in Seq(T)
    PROVE  FlattenSeq(<<a, b>>) = a \o b
<1>1. <<a>> \in Seq(Seq(T)) /\ <<a, b>> = Append(<<a>>, b)
  OBVIOUS
<1>2. FlattenSeq(<<a>>) = a
  BY FlattenShort
<1>3. FlattenSeq(Append(<<a>>, b)) = FlattenSeq(<<a>>) \o b
  BY <1>1, FlattenAppend
<1> QED
  BY <1>1, <1>2, <1>3

\* Units are put into the file two bytes each, and code points have units.
LEMMA UnitSpellers ==
    ASSUME NEW enc \in Wide
    PROVE  /\ Speller(PutF(enc), Unit, Byte)
           /\ Speller(UnitF, CodePoint, Unit)
           /\ \A u \in Unit : PutF(enc)[u] = InOrder(enc, u) /\ PutF(enc)[u] # <<>>
           /\ \A cp \in CodePoint : UnitF[cp] = Units(cp) /\ UnitF[cp] # <<>>
<1>1. \A u \in Unit : InOrder(enc, u) \in Seq(Byte) /\ InOrder(enc, u) # <<>>
  BY InOrderIs
<1>2. ASSUME NEW cp \in CodePoint
      PROVE  Units(cp) \in Seq(Unit) /\ Units(cp) # <<>>
  <2>1. CASE Single(cp)
    <3>1. Units(cp) = <<cp>> /\ cp \in Unit
      BY <2>1, UnitsAre
    <3> QED
      BY <3>1
  <2>2. CASE ~Single(cp)
    <3>1. PICK up \in Unit, low \in Unit : Units(cp) = <<up, low>>
      BY <2>2, UnitsAre DEF Surrogates
    <3> QED
      BY <3>1
  <2> QED
    BY <2>1, <2>2
<1> QED
  BY <1>1, <1>2 DEF Speller, PutF, UnitF

\* What is put into the file for a code point in UTF-16.
LEMMA EncodedWide ==
    ASSUME NEW enc \in Wide, NEW cp \in CodePoint
    PROVE  /\ Encoded(enc, cp) = Spelled(PutF(enc), UnitF[cp])
           /\ Encoded(enc, cp) \in Seq(Byte)
           /\ Single(cp) => /\ Encoded(enc, cp) = InOrder(enc, cp)
                            /\ Len(Encoded(enc, cp)) = 2
           /\ ~Single(cp) =>
                 /\ \E up, low \in Unit :
                       /\ Surrogates(cp, up, low)
                       /\ Encoded(enc, cp) = InOrder(enc, up) \o InOrder(enc, low)
                 /\ Len(Encoded(enc, cp)) = 4
<1> DEFINE w == [i \in DOMAIN Units(cp) |-> InOrder(enc, Units(cp)[i])]
<1>1. Encoded(enc, cp) = FlattenSeq(w)
  <2>1. enc # "UTF8"
    BY DEF Wide
  <2> QED
    BY <2>1 DEF Encoded, Flat
<1>2. Units(cp) \in Seq(Unit) /\ UnitF[cp] = Units(cp)
  BY UnitSpellers DEF Speller
<1>3. FlattenSeq(w) = Spelled(PutF(enc), UnitF[cp])
  <2>1. \A i \in DOMAIN Units(cp) : Units(cp)[i] \in Unit
    BY <1>2
  <2>2. \A i \in DOMAIN Units(cp) : PutF(enc)[Units(cp)[i]] = InOrder(enc, Units(cp)[i])
    BY <2>1, UnitSpellers
  <2>3. w = [i \in DOMAIN Units(cp) |-> PutF(enc)[Units(cp)[i]]]
    BY <2>2
  <2> QED
    BY <1>2, <2>3 DEF Spelled
<1>4. Spelled(PutF(enc), UnitF[cp]) \in Seq(Byte)
  BY <1>2, UnitSpellers, Letters
<1>5. Encoded(enc, cp) = Spelled(PutF(enc), UnitF[cp])
  BY <1>1, <1>3
<1>6. Encoded(enc, cp) \in Seq(Byte)
  BY <1>4, <1>5
<1>7. CASE Single(cp)
  <2>1. Units(cp) = <<cp>> /\ cp \in Unit
    BY <1>7, UnitsAre
  <2>2. w = <<InOrder(enc, cp)>>
    BY <2>1
  <2>3. InOrder(enc, cp) \in Seq(Byte) /\ Len(InOrder(enc, cp)) = 2
    BY <2>1, InOrderIs
  <2>4. FlattenSeq(w) = InOrder(enc, cp)
    BY <2>2, <2>3, FlattenShort
  <2> QED
    <3>1. Encoded(enc, cp) = InOrder(enc, cp) /\ Len(Encoded(enc, cp)) = 2
      BY <1>1, <2>3, <2>4
    <3> HIDE DEF w
    <3> QED
      BY <1>7, <1>5, <1>6, <3>1, SMT
<1>8. CASE ~Single(cp)
  <2>1. PICK up \in Unit, low \in Unit : Surrogates(cp, up, low)
    BY <1>8, UnitsAre
  <2>2. w = <<InOrder(enc, up), InOrder(enc, low)>>
    BY <2>1 DEF Surrogates
  <2>3. /\ InOrder(enc, up) \in Seq(Byte) /\ Len(InOrder(enc, up)) = 2
        /\ InOrder(enc, low) \in Seq(Byte) /\ Len(InOrder(enc, low)) = 2
    BY InOrderIs
  <2>4. FlattenSeq(w) = InOrder(enc, up) \o InOrder(enc, low)
    BY <2>2, <2>3, FlattenTwo
  <2>5. Len(InOrder(enc, up) \o InOrder(enc, low)) = 4
    BY <2>3, ConcatProperties, SMTT(30)
  <2>6. Encoded(enc, cp) = InOrder(enc, up) \o InOrder(enc, low)
    BY <1>1, <2>4
  <2>7. Len(Encoded(enc, cp)) = 4
    BY <2>5, <2>6
  <2>8. \E u, l \in Unit : /\ Surrogates(cp, u, l)
                           /\ Encoded(enc, cp) = InOrder(enc, u) \o InOrder(enc, l)
    BY <2>1, <2>6
  <2> HIDE DEF w
  <2> QED
    BY <1>8, <1>5, <1>6, <2>7, <2>8
<1> QED
  BY <1>7, <1>8

\* A text in an encoding is its code points, each of which has bytes.
LEMMA EncodedTextIs ==
    ASSUME NEW enc \in Formats
    PROVE  /\ Speller(EncodeF(enc), CodePoint, Byte)
           /\ \A cp \in CodePoint : /\ EncodeF(enc)[cp] = Encoded(enc, cp)
                                    /\ Encoded(enc, cp) # <<>>
           /\ \A t \in Seq(CodePoint) :
                 EncodedText(enc, t) = Spelled(EncodeF(enc), t)
<1>1. ASSUME NEW cp \in CodePoint
      PROVE  Encoded(enc, cp) \in Seq(Byte) /\ Encoded(enc, cp) # <<>>
  <2>1. CASE enc = "UTF8"
    <3>1. Encoded(enc, cp) = Utf8Bytes(cp)
      BY <2>1 DEF Encoded
    <3>2. Utf8Bytes(cp) \in Seq(Byte) /\ Len(Utf8Bytes(cp)) \in 1 .. 4
      BY Utf8BytesAre, SMT DEF utf8_glyph_size_of_code_point
    <3> QED
      BY <3>1, <3>2
  <2>2. CASE enc \in Wide
    <3>1. Encoded(enc, cp) \in Seq(Byte) /\ Len(Encoded(enc, cp)) \in {2, 4}
      <4>1. Encoded(enc, cp) \in Seq(Byte)
        BY <2>2, EncodedWide
      <4>2. CASE Single(cp)
        BY <4>1, <4>2, <2>2, EncodedWide
      <4>3. CASE ~Single(cp)
        BY <4>1, <4>3, <2>2, EncodedWide
      <4> QED
        BY <4>2, <4>3
    <3> DEFINE b == Encoded(enc, cp)
    <3> HIDE DEF b
    <3>2. b \in Seq(Byte) /\ Len(b) # 0
      <4>1. b \in Seq(Byte) /\ Len(b) \in {2, 4}
        BY <3>1, Zenon DEF b
      <4> QED
        BY <4>1
    <3>3. b \in Seq(Byte) /\ b # <<>>
      BY <3>2, EmptySeq
    <3> QED
      BY <3>3 DEF b
  <2>3. enc = "UTF8" \/ enc \in Wide
    BY DEF Formats, Wide
  <2> QED
    BY <2>1, <2>2, <2>3
<1>2. ASSUME NEW t \in Seq(CodePoint)
      PROVE  EncodedText(enc, t) = Spelled(EncodeF(enc), t)
  <2>1. \A i \in DOMAIN t : t[i] \in CodePoint
    OBVIOUS
  <2>2. [i \in DOMAIN t |-> Encoded(enc, t[i])]
          = [i \in DOMAIN t |-> EncodeF(enc)[t[i]]]
    BY <2>1 DEF EncodeF
  <2> QED
    BY <2>2 DEF EncodedText, Flat, Spelled
<1> QED
  BY <1>1, <1>2 DEF Speller, EncodeF

-----------------------------------------------------------------------------
(* The input                                                               *)

\* The text as far as the file holds it whole, after the mark, and what the
\* file has of one more code point.
Body == IF cut THEN Front(text) ELSE text
Kept == One(BOM) \o Body
Fragment == IF cut THEN Front(Encoded("UTF8", Last(text))) ELSE <<>>

Sources == /\ text \in Texts
           /\ written \in Formats
           /\ cut \in BOOLEAN
           /\ cut => written = "UTF8" /\ text # <<>>

\* The byte order mark in the three encodings.
LEMMA MarkBytes ==
    /\ BOM \in CodePoint /\ BOM \in Unit /\ One(BOM) \in Seq(CodePoint)
    /\ Encoded("UTF8", BOM) = <<239, 187, 191>>
    /\ Encoded("UTF16LE", BOM) = <<255, 254>>
    /\ Encoded("UTF16BE", BOM) = <<254, 255>>
<1>1. BOM \in Nat /\ BOM <= 65535 /\ BOM <= 1114111 /\ Single(BOM)
  BY SMT DEF BOM, Single
<1>2. BOM \in CodePoint /\ BOM \in Unit
  BY <1>1, CodePointIs, UnitIs, SMT
<1>3. One(BOM) \in Seq(CodePoint)
  BY <1>2 DEF One
<1>4. Encoded("UTF8", BOM) = <<239, 187, 191>>
  <2>1. utf8_glyph_size_of_code_point(BOM) = 3
    BY SMT DEF BOM, utf8_glyph_size_of_code_point
  <2>2. code_point_to_utf8_glyph(BOM) = utf8_three_byte_encode(BOM)
    BY <2>1 DEF code_point_to_utf8_glyph
  <2>3. utf8_three_byte_encode(BOM) = <<239, 187, 191>>
    BY SMT DEF BOM, utf8_three_byte_encode, High6, Low6
  <2> QED
    BY <1>2, <2>2, <2>3, Utf8BytesAre DEF Encoded
<1>5. BOM % 256 = 255 /\ BOM \div 256 = 254
  BY SMT DEF BOM
<1>6. /\ Encoded("UTF16LE", BOM) = InOrder("UTF16LE", BOM)
      /\ Encoded("UTF16BE", BOM) = InOrder("UTF16BE", BOM)
  BY <1>1, <1>2, EncodedWide DEF Wide
<1> QED
  BY <1>2, <1>3, <1>4, <1>5, <1>6, InOrderIs

\* Only what is behind is shortened.
LEMMA FrontOfConcat ==
    ASSUME NEW T, NEW a \in Seq(T), NEW b \in Seq(T), b # <<>>
    PROVE  /\ Front(a \o b) = a \o Front(b)
           /\ Front(b) \in Seq(T) /\ Len(Front(b)) = Len(b) - 1
           /\ \A i \in 1 .. Len(Front(b)) : Front(b)[i] = b[i]
<1>0. Len(b) \in Nat \ {0} /\ Len(a) \in Nat
  OBVIOUS
<1>1. /\ Len(b) \in Nat \ {0} /\ Len(a) \in Nat
      /\ Len(a \o b) = Len(a) + Len(b) /\ a \o b \in Seq(T)
  BY <1>0, ConcatProperties, SMTT(30)
<1>2. /\ Front(b) \in Seq(T) /\ Len(Front(b)) = Len(b) - 1
      /\ \A i \in 1 .. Len(Front(b)) : Front(b)[i] = b[i]
  BY <1>1, SMTT(30) DEF Front
<1>3. /\ Front(a \o b) \in Seq(T) /\ Len(Front(a \o b)) = Len(a) + Len(b) - 1
      /\ \A i \in 1 .. Len(Front(a \o b)) : Front(a \o b)[i] = (a \o b)[i]
  <2> DEFINE c == a \o b
  <2>1. c \in Seq(T) /\ Len(c) = Len(a) + Len(b)
    BY <1>1
  <2> HIDE DEF c
  <2>2. /\ Front(c) \in Seq(T) /\ Len(Front(c)) = Len(a) + Len(b) - 1
        /\ \A i \in 1 .. Len(Front(c)) : Front(c)[i] = c[i]
    BY <1>1, <2>1 DEF Front
  <2> QED
    BY <2>2 DEF c
<1>4. /\ a \o Front(b) \in Seq(T) /\ Len(a \o Front(b)) = Len(a) + Len(b) - 1
      /\ \A i \in 1 .. Len(a) + Len(b) - 1 :
            (a \o Front(b))[i] = IF i <= Len(a) THEN a[i] ELSE Front(b)[i - Len(a)]
  <2> DEFINE f == Front(b)
  <2>1. f \in Seq(T) /\ Len(f) = Len(b) - 1
    BY <1>2
  <2> HIDE DEF f
  <2>2. /\ a \o f \in Seq(T) /\ Len(a \o f) = Len(a) + Len(f)
        /\ \A i \in 1 .. Len(a) + Len(f) :
              (a \o f)[i] = IF i <= Len(a) THEN a[i] ELSE f[i - Len(a)]
    BY <2>1, ConcatProperties
  <2>3. Len(a) + Len(f) = Len(a) + Len(b) - 1
    BY <1>1, <2>1
  <2> QED
    BY <2>2, <2>3 DEF f
<1>5. ASSUME NEW i \in 1 .. Len(a) + Len(b) - 1
      PROVE  Front(a \o b)[i] = (a \o Front(b))[i]
  <2>1. i \in 1 .. Len(a) + Len(b)
    BY <1>1
  <2>2. (a \o b)[i] = IF i <= Len(a) THEN a[i] ELSE b[i - Len(a)]
    BY <2>1, ConcatProperties
  <2>3. ~(i <= Len(a)) => i - Len(a) \in 1 .. Len(Front(b))
    BY <1>1, <1>2
  <2>4. ~(i <= Len(a)) => Front(b)[i - Len(a)] = b[i - Len(a)]
    BY <1>2, <2>3
  <2>5. Front(a \o b)[i] = (a \o b)[i]
    BY <1>3
  <2>6. (a \o Front(b))[i] = IF i <= Len(a) THEN a[i] ELSE Front(b)[i - Len(a)]
    BY <1>4
  <2> QED
    BY <2>2, <2>4, <2>5, <2>6
<1> DEFINE f == Front(a \o b)
           g == a \o Front(b)
<1>6. /\ f \in Seq(T) /\ g \in Seq(T) /\ Len(f) = Len(g)
      /\ \A i \in 1 .. Len(f) : f[i] = g[i]
  BY <1>3, <1>4, <1>5
<1> HIDE DEF f, g
<1>7. f = g
  BY <1>6, SeqEqual
<1> QED
  BY <1>2, <1>7 DEF f, g

\* A text whose last code point is taken away is what is before it.
LEMMA FrontAndLast ==
    ASSUME NEW S, NEW t \in Seq(S), t # <<>>
    PROVE  Front(t) \in Seq(S) /\ Last(t) \in S /\ t = Front(t) \o One(Last(t))
<1>1. Len(t) \in Nat \ {0}
  BY EmptySeq
<1>2. Front(t) \in Seq(S) /\ Last(t) \in S
  BY <1>1 DEF Front, Last
<1>3. t = SubSeq(t, 1, Len(t) - 1) \o <<t[Len(t)]>>
  <2>1. SubSeq(t, 1, Len(t)) = SubSeq(t, 1, Len(t) - 1) \o <<t[Len(t)]>>
    BY <1>1, SubSeqRecursiveSecond
  <2> QED
    BY <2>1, SubSeqFull
<1> QED
  BY <1>2, <1>3 DEF Front, Last, One

\* The file begins with the whole code points, and with the mark in any case.
LEMMA InputIs ==
    ASSUME Sources
    PROVE  /\ Kept \in Seq(CodePoint) /\ Body \in Seq(CodePoint)
           /\ Fragment \in Seq(Byte)
           /\ Input = Spelled(EncodeF(written), Kept) \o Fragment
           /\ \E more \in Seq(Byte) : Input = Encoded(written, BOM) \o more
<1> DEFINE F == EncodeF(written)
<1>1. /\ written \in Formats /\ text \in Seq(CodePoint)
      /\ cut \in BOOLEAN
      /\ cut => written = "UTF8" /\ text # <<>>
  BY TextsAssumption DEF Sources
<1>2. /\ Speller(F, CodePoint, Byte)
      /\ \A cp \in CodePoint : /\ F[cp] = Encoded(written, cp)
                               /\ Encoded(written, cp) # <<>>
      /\ \A t \in Seq(CodePoint) : EncodedText(written, t) = Spelled(F, t)
  BY <1>1, EncodedTextIs
<1> HIDE DEF F
<1>3. One(BOM) \in Seq(CodePoint) /\ BOM \in CodePoint
  BY MarkBytes
<1>4. Body \in Seq(CodePoint)
  BY <1>1, FrontAndLast DEF Body
<1>5. Kept \in Seq(CodePoint)
  BY <1>3, <1>4, ConcatProperties DEF Kept
<1>6. Spelled(F, Kept) = F[BOM] \o Spelled(F, Body)
  BY <1>2, <1>3, <1>4, SpelledMore DEF Kept
<1>7. Spelled(F, Kept) \in Seq(Byte) /\ Spelled(F, Body) \in Seq(Byte)
  BY <1>2, <1>4, <1>5, Letters
<1>8. F[BOM] \in Seq(Byte) /\ F[BOM] = Encoded(written, BOM)
  BY <1>2, <1>3 DEF Speller
<1>9. File(written, text) = Spelled(F, One(BOM) \o text)
  <2>1. One(BOM) \o text \in Seq(CodePoint)
    BY <1>1, <1>3, ConcatProperties
  <2> QED
    BY <1>2, <2>1 DEF File, One
<1>10. Fragment \in Seq(Byte) /\ Input = Spelled(F, Kept) \o Fragment
  <2>1. CASE ~cut
    <3>1. Fragment = <<>> /\ Input = Spelled(F, Kept)
      BY <1>9, <2>1 DEF Fragment, Input, Kept, Body
    <3> QED
      BY <1>7, <3>1, ConcatEmptySeq, EmptySeq
  <2>2. CASE cut
    <3> DEFINE c == Last(text)
               b == F[c]
    <3>1. /\ c \in CodePoint /\ Body \in Seq(CodePoint)
          /\ text = Body \o One(c) /\ Body = Front(text)
      BY <1>1, <2>2, FrontAndLast DEF Body
    <3> HIDE DEF c
    <3>2. One(BOM) \o text = Kept \o One(c)
      <4>1. One(c) \in Seq(CodePoint)
        BY <3>1 DEF One
      <4>2. (One(BOM) \o Body) \o One(c) = One(BOM) \o (Body \o One(c))
        BY <1>3, <3>1, <4>1, ConcatAssociative, SMTT(30)
      <4> QED
        BY <3>1, <4>2 DEF Kept
    <3>3. File(written, text) = Spelled(F, Kept) \o b
      <4>1. Spelled(F, Kept \o One(c)) = Spelled(F, Kept) \o F[c]
        BY <1>2, <1>5, <3>1, SpelledMore
      <4> QED
        BY <1>9, <3>2, <4>1
    <3>4. b \in Seq(Byte) /\ b # <<>> /\ b = Encoded("UTF8", c)
      BY <1>1, <1>2, <2>2, <3>1 DEF Speller
    <3>5. Input = Front(Spelled(F, Kept) \o b) /\ Fragment = Front(b)
      BY <2>2, <3>3, <3>4 DEF Input, Fragment, c
    <3> HIDE DEF b
    <3> DEFINE s == Spelled(F, Kept)
    <3>6. s \in Seq(Byte)
      BY <1>7
    <3> HIDE DEF s
    <3>7. Front(s \o b) = s \o Front(b) /\ Front(b) \in Seq(Byte)
      BY <3>4, <3>6, FrontOfConcat
    <3> QED
      BY <3>5, <3>7 DEF s
  <2> QED
    BY <1>1, <2>1, <2>2
<1>11. \E more \in Seq(Byte) : Input = Encoded(written, BOM) \o more
  <2> DEFINE m == F[BOM]
             s == Spelled(F, Body)
  <2>1. m \in Seq(Byte) /\ s \in Seq(Byte) /\ Fragment \in Seq(Byte)
    BY <1>7, <1>8, <1>10
  <2>2. Input = (m \o s) \o Fragment
    BY <1>6, <1>10
  <2> HIDE DEF m, s
  <2>3. (m \o s) \o Fragment = m \o (s \o Fragment)
    BY <2>1, ConcatAssociative, SMTT(30)
  <2>4. s \o Fragment \in Seq(Byte)
    BY <2>1, ConcatProperties
  <2>5. Input = Encoded(written, BOM) \o (s \o Fragment)
    BY <1>8, <2>2, <2>3 DEF m
  <2> QED
    BY <2>4, <2>5
<1> QED
  BY <1>4, <1>5, <1>10, <1>11 DEF F

\* check_bom() finds the encoding the file is in.
LEMMA Recognised ==
    ASSUME Sources, infile = Input
    PROVE  Recognise(infile) = written
<1>1. PICK more \in Seq(Byte) : infile = Encoded(written, BOM) \o more
  BY InputIs
<1>2. written \in {"UTF8", "UTF16LE", "UTF16BE"}
  BY DEF Sources, Formats
<1>3. CASE written = "UTF8"
  <2>1. infile[1] = 239 /\ infile[2] = 187 /\ infile[3] = 191
    BY <1>1, <1>3, MarkBytes
  <2> QED
    BY <1>3, <2>1, SMT DEF Recognise
<1>4. CASE written = "UTF16LE"
  <2>1. infile[1] = 255 /\ infile[2] = 254
    BY <1>1, <1>4, MarkBytes
  <2> QED
    BY <1>4, <2>1, SMT DEF Recognise
<1>5. CASE written = "UTF16BE"
  <2>1. infile[1] = 254 /\ infile[2] = 255
    BY <1>1, <1>5, MarkBytes
  <2> QED
    BY <1>5, <2>1, SMT DEF Recognise
<1> QED
  BY <1>2, <1>3, <1>4, <1>5

-----------------------------------------------------------------------------
(* From UTF-8                                                              *)

\* A decoder looks at as many bytes as the glyph has.
LEMMA DecodesAlike ==
    ASSUME NEW size \in 1 .. 4, NEW a, NEW b,
           \A i \in 1 .. size : a[i] = b[i]
    PROVE  utf8_decode(size, a) = utf8_decode(size, b)
<1>1. CASE size = 1
  BY <1>1, SMT DEF utf8_decode, utf8_one_byte_decode
<1>2. CASE size = 2
  <2>1. a[1] = b[1] /\ a[2] = b[2]
    BY <1>2
  <2> QED
    BY <1>2, <2>1 DEF utf8_decode, utf8_two_byte_decode
<1>3. CASE size = 3
  <2>1. a[1] = b[1] /\ a[2] = b[2] /\ a[3] = b[3]
    BY <1>3
  <2> QED
    BY <1>3, <2>1 DEF utf8_decode, utf8_three_byte_decode
<1>4. CASE size = 4
  <2>1. a[1] = b[1] /\ a[2] = b[2] /\ a[3] = b[3] /\ a[4] = b[4]
    BY <1>4
  <2> QED
    BY <1>4, <2>1, SMT DEF utf8_decode, utf8_four_byte_decode
<1> QED
  BY <1>1, <1>2, <1>3, <1>4

\* What is behind the first of two sequences is the second.
LEMMA Behind ==
    ASSUME NEW T, NEW a \in Seq(T), NEW b \in Seq(T)
    PROVE  /\ SubSeq(a \o b, Len(a) + 1, Len(a \o b)) = b
           /\ \A i \in 1 .. Len(a) : (a \o b)[i] = a[i]
           /\ Len(a \o b) = Len(a) + Len(b)
<1> DEFINE c == a \o b
           s == SubSeq(c, Len(a) + 1, Len(c))
<1>1. /\ Len(a) \in Nat /\ Len(b) \in Nat
      /\ c \in Seq(T) /\ Len(c) = Len(a) + Len(b)
      /\ \A i \in 1 .. Len(a) + Len(b) :
            c[i] = IF i <= Len(a) THEN a[i] ELSE b[i - Len(a)]
  BY ConcatProperties
<1> HIDE DEF c
<1>2. s \in Seq(T) /\ Len(s) = Len(b) /\ \A i \in 1 .. Len(b) : s[i] = c[Len(a) + i]
  <2>1. \A i \in Len(a) + 1 .. Len(c) : c[i] \in T
    BY <1>1
  <2> QED
    BY <1>1, <2>1
<1>3. ASSUME NEW i \in 1 .. Len(b)
      PROVE  s[i] = b[i]
  <2>1. /\ Len(a) + i \in 1 .. Len(a) + Len(b) /\ ~(Len(a) + i <= Len(a))
        /\ (Len(a) + i) - Len(a) = i
    BY <1>1
  <2>2. s[i] = c[Len(a) + i]
    BY <1>2
  <2> HIDE DEF s
  <2> QED
    BY <1>1, <2>1, <2>2
<1> HIDE DEF s
<1>4. s = b
  BY <1>2, <1>3, SeqEqual
<1>5. \A i \in 1 .. Len(a) : c[i] = a[i]
  BY <1>1
<1> QED
  BY <1>1, <1>4, <1>5 DEF c, s

\* The encoder's bytes tell how many they are, and come back.
LEMMA Utf8Glyph ==
    ASSUME NEW cp \in CodePoint
    PROVE  /\ Encoded("UTF8", cp) \in Seq(Byte)
           /\ Len(Encoded("UTF8", cp)) \in 1 .. 4
           /\ remaining_utf8_bytes(Encoded("UTF8", cp)[1])
                = Len(Encoded("UTF8", cp)) - 1
           /\ utf8_decode(Len(Encoded("UTF8", cp)), Encoded("UTF8", cp)) = cp
           /\ Len(Encoded("UTF8", cp)) = 1 <=> cp <= 127
<1> DEFINE b == Encoded("UTF8", cp)
           size == utf8_glyph_size_of_code_point(cp)
<1>1. b = code_point_to_utf8_glyph(cp) /\ b \in Seq(Byte) /\ Len(b) = size
  BY Utf8BytesAre DEF Encoded
<1>2. cp \in Nat /\ cp <= 1114111
  BY CodePointIs, SMT
<1>3. size \in 1 .. 4 /\ (size = 1 <=> cp <= 127)
  BY <1>2, SMT DEF utf8_glyph_size_of_code_point
<1>4. utf8_decode(size, b) = cp /\ remaining_utf8_bytes(b[1]) = size - 1
  BY <1>1, <1>2, Utf8RoundTrip, SMT
<1> HIDE DEF b, size
<1>5. Len(b) \in 1 .. 4 /\ (Len(b) = 1 <=> cp <= 127)
  BY <1>1, <1>3
<1>6. utf8_decode(Len(b), b) = cp /\ remaining_utf8_bytes(b[1]) = Len(b) - 1
  BY <1>1, <1>4
<1> QED
  BY <1>1, <1>5, <1>6 DEF b

\* What the file has of a code point without its last byte.
LEMMA FragmentIs ==
    ASSUME Sources
    PROVE  /\ Fragment # <<>> <=> cut /\ Last(text) > 127
           /\ Fragment # <<>> =>
                 remaining_utf8_bytes(Fragment[1]) = Len(Fragment)
<1>1. /\ text \in Seq(CodePoint) /\ cut \in BOOLEAN
      /\ cut => text # <<>>
  BY TextsAssumption DEF Sources
<1>2. CASE ~cut
  BY <1>2 DEF Fragment
<1>3. CASE cut
  <2> DEFINE c == Last(text)
             b == Encoded("UTF8", c)
  <2>1. c \in CodePoint
    BY <1>1, <1>3, FrontAndLast
  <2> HIDE DEF c
  <2>2. /\ b \in Seq(Byte) /\ Len(b) \in 1 .. 4
        /\ remaining_utf8_bytes(b[1]) = Len(b) - 1
        /\ Len(b) = 1 <=> c <= 127
    BY <2>1, Utf8Glyph
  <2>3. Fragment = Front(b)
    BY <1>3 DEF Fragment, c
  <2> HIDE DEF b
  <2>4. b # <<>>
    BY <2>2
  <2>5. /\ Front(b) \in Seq(Byte) /\ Len(Front(b)) = Len(b) - 1
        /\ \A i \in 1 .. Len(Front(b)) : Front(b)[i] = b[i]
    BY <2>2, <2>4, FrontOfConcat
  <2>6. Fragment = <<>> <=> Len(b) = 1
    BY <2>2, <2>3, <2>5
  <2>7. c > 127 <=> ~(c <= 127)
    BY <2>1, CodePointIs, SMT
  <2>8. Fragment # <<>> => Fragment[1] = b[1]
    BY <2>2, <2>3, <2>5, <2>6
  <2>9. Len(Fragment) = Len(b) - 1
    BY <2>3, <2>5
  <2>10. Fragment # <<>> => remaining_utf8_bytes(Fragment[1]) = Len(Fragment)
    BY <2>2, <2>8, <2>9
  <2>11. Fragment # <<>> <=> cut /\ c > 127
    BY <1>3, <2>2, <2>6, <2>7
  <2> QED
    BY <2>10, <2>11 DEF c
<1> QED
  BY <1>1, <1>2, <1>3

\* What is written when the whole code points of the text are written.
Utf8Whole(to) == Encoded(to, BOM) \o Spelled(EncodeF(to), Kept)

\* Two or four bytes behind it.
Stale(whole, out) ==
    \E J : \E junk \in Seq(J) : Len(junk) \in {2, 4} /\ out = whole \o junk

\* The loop is halfway through the whole code points and the fragment is still
\* to be read, or has been read.
Utf8Going(to, in, out) ==
    \E ahead \in Seq(Byte) :
        /\ in = ahead \o Fragment
        /\ Halfway(CodePoint, EncodeF("UTF8"), EncodeF(to), Kept,
                   Encoded(to, BOM), ahead, out)
Utf8Over(to, in, out) == /\ in = <<>> /\ Fragment # <<>>
                         /\ Stale(Utf8Whole(to), out)
Utf8Progress(to, in, out) == Utf8Going(to, in, out) \/ Utf8Over(to, in, out)

\* A glyph that is there whole is read and written whole.
LEMMA Utf8GlyphTurn ==
    ASSUME NEW to \in Wide, encoding_to = to, NEW n \in 0 .. 3, FromUtf8(n),
           NEW cp \in CodePoint, NEW tail \in Seq(Byte),
           infile = Encoded("UTF8", cp) \o tail
    PROVE  infile' = tail /\ outfile' = outfile \o Encoded(to, cp)
<1> DEFINE b == Encoded("UTF8", cp)
<1>1. /\ b \in Seq(Byte) /\ Len(b) \in 1 .. 4
      /\ remaining_utf8_bytes(b[1]) = Len(b) - 1
      /\ utf8_decode(Len(b), b) = cp
  BY Utf8Glyph
<1>2. infile = b \o tail
  OBVIOUS
<1> HIDE DEF b
<1>3. /\ SubSeq(infile, Len(b) + 1, Len(infile)) = tail
      /\ \A i \in 1 .. Len(b) : infile[i] = b[i]
      /\ Len(infile) = Len(b) + Len(tail)
  <2>1. /\ SubSeq(b \o tail, Len(b) + 1, Len(b \o tail)) = tail
        /\ \A i \in 1 .. Len(b) : (b \o tail)[i] = b[i]
        /\ Len(b \o tail) = Len(b) + Len(tail)
    BY <1>1, Behind
  <2> QED
    BY <1>2, <2>1
<1>4. n = Len(b) - 1 /\ n + 1 = Len(b) /\ n + 2 = Len(b) + 1
  <2>1. 1 \in 1 .. Len(b)
    BY <1>1
  <2>2. n = remaining_utf8_bytes(infile[1])
    BY DEF FromUtf8
  <2> QED
    BY <1>1, <1>3, <2>1, <2>2
<1>5. infile' = tail
  BY <1>3, <1>4 DEF FromUtf8
<1>6. utf8_decode(n + 1, bytes') = cp
  <2>1. bytes' = Refilled(n + 1)
    BY DEF FromUtf8
  <2>2. Len(tail) \in Nat
    OBVIOUS
  <2>3. ASSUME NEW i \in 1 .. Len(b)
        PROVE  bytes'[i] = b[i]
    <3>1. i \in 1 .. 4 /\ i <= n + 1 /\ i <= Len(infile)
      <4>1. Len(infile) = Len(b) + Len(tail)
        BY <1>3
      <4>2. Len(b) \in 1 .. 4
        BY <1>1
      <4>3. i \in Nat /\ 1 <= i /\ i <= Len(b) /\ n + 1 = Len(b)
        BY <1>4, <4>2
      <4>4. i <= Len(infile)
        BY <2>2, <4>1, <4>2, <4>3
      <4> QED
        BY <4>2, <4>3, <4>4
    <3>2. Refilled(n + 1)[i] = infile[i]
      BY <3>1 DEF Refilled
    <3> QED
      BY <1>3, <2>1, <3>2
  <2>4. utf8_decode(Len(b), bytes') = utf8_decode(Len(b), b)
    BY <1>1, <2>3, DecodesAlike
  <2> QED
    BY <1>1, <1>4, <2>4
<1> DEFINE us == code_point_to_utf16_glyph(cp)
           w == [i \in DOMAIN us |-> InOrder(to, us[i])]
<1>7. outfile' = outfile \o FlattenSeq(w)
  <2> DEFINE d == utf8_decode(n + 1, bytes')
             vs == code_point_to_utf16_glyph(d)
  <2>1. outfile' = outfile \o FlattenSeq([i \in DOMAIN vs |-> InOrder(to, vs[i])])
    BY DEF FromUtf8, Flat
  <2>2. d = cp
    BY <1>6
  <2> HIDE DEF d
  <2> QED
    BY <2>1, <2>2
<1>8. FlattenSeq(w) = Encoded(to, cp)
  <2>1. Units(cp) = us
    BY UnitsAre
  <2>2. to # "UTF8"
    BY DEF Wide
  <2> QED
    BY <2>1, <2>2 DEF Encoded, Flat
<1> QED
  BY <1>5, <1>7, <1>8

\* One that is cut is read to the end of the file, and two or four bytes are
\* written for it.
LEMMA Utf8FragmentTurn ==
    ASSUME Sources, NEW to \in Wide, encoding_to = to, NEW n \in 0 .. 3, FromUtf8(n),
           infile = Fragment, NEW whole, outfile = whole
    PROVE  infile' = <<>> /\ Stale(whole, outfile')
<1>1. Fragment \in Seq(Byte) /\ Fragment # <<>>
  BY InputIs DEF FromUtf8, Turn
<1>2. n = Len(infile)
  BY <1>1, FragmentIs DEF FromUtf8
<1>3. infile' = <<>>
  <2>1. infile' = SubSeq(infile, n + 2, Len(infile))
    BY DEF FromUtf8
  <2>2. n + 2 \in Int /\ Len(infile) \in Int /\ Len(infile) < n + 2
    BY <1>1, <1>2
  <2> QED
    BY <2>1, <2>2, SubSeqEmpty
<1> DEFINE cp == utf8_decode(n + 1, bytes')
           us == code_point_to_utf16_glyph(cp)
           w == [i \in DOMAIN us |-> InOrder(to, us[i])]
           junk == FlattenSeq(w)
<1>4. outfile' = whole \o junk
  BY DEF FromUtf8, Flat
<1>5. \E J : junk \in Seq(J) /\ Len(junk) \in {2, 4}
  <2> HIDE DEF cp
  <2>1. (\E u : us = <<u>>) \/ (\E u, v : us = <<u, v>>)
    BY DEF code_point_to_utf16_glyph
  <2>2. CASE \E u : us = <<u>>
    <3>1. PICK u : us = <<u>>
      BY <2>2
    <3>2. w = <<InOrder(to, u)>>
      BY <3>1
    <3>3. PICK p, q : InOrder(to, u) = <<p, q>>
      BY DEF InOrder, Memory
    <3>4. <<p, q>> \in Seq({p, q}) /\ Len(<<p, q>>) = 2
      OBVIOUS
    <3>5. junk = <<p, q>>
      BY <3>2, <3>3, <3>4, FlattenShort
    <3> HIDE DEF junk
    <3> QED
      BY <3>4, <3>5
  <2>3. CASE \E u, v : us = <<u, v>>
    <3>1. PICK u, v : us = <<u, v>>
      BY <2>3
    <3>2. w = <<InOrder(to, u), InOrder(to, v)>>
      BY <3>1
    <3>3. PICK p, q, r, s : InOrder(to, u) = <<p, q>> /\ InOrder(to, v) = <<r, s>>
      BY DEF InOrder, Memory
    <3>4. <<p, q>> \in Seq({p, q, r, s}) /\ <<r, s>> \in Seq({p, q, r, s})
      OBVIOUS
    <3>5. junk = <<p, q>> \o <<r, s>>
      BY <3>2, <3>3, <3>4, FlattenTwo
    <3> DEFINE a == <<p, q>>
               b == <<r, s>>
               J == {p, q, r, s}
    <3>6. a \in Seq(J) /\ b \in Seq(J) /\ Len(a) = 2 /\ Len(b) = 2
      BY <3>4
    <3>7. junk = a \o b
      BY <3>5
    <3> HIDE DEF junk, a, b, J
    <3>8. a \o b \in Seq(J) /\ Len(a \o b) = Len(a) + Len(b)
      BY <3>6, ConcatProperties
    <3>9. Len(a \o b) = 4
      BY <3>6, <3>8
    <3> QED
      BY <3>7, <3>8, <3>9
  <2> QED
    BY <2>1, <2>2, <2>3
<1> HIDE DEF junk
<1>6. Stale(whole, outfile')
  BY <1>4, <1>5 DEF Stale
<1> QED
  BY <1>3, <1>6

\* What the loop from UTF-8 reads and writes, and where it begins.
LEMMA Utf8Spellers ==
    ASSUME Sources, NEW to \in Wide
    PROVE  /\ Speller(EncodeF("UTF8"), CodePoint, Byte)
           /\ Speller(EncodeF(to), CodePoint, Byte)
           /\ \A cp \in CodePoint : /\ EncodeF("UTF8")[cp] = Encoded("UTF8", cp)
                                    /\ EncodeF("UTF8")[cp] # <<>>
                                    /\ EncodeF(to)[cp] = Encoded(to, cp)
           /\ Kept \in Seq(CodePoint)
           /\ Encoded(to, BOM) \in Seq(Byte)
           /\ Fragment \in Seq(Byte)
<1>1. "UTF8" \in Formats /\ to \in Formats
  BY DEF Formats, Wide
<1>2. /\ Speller(EncodeF("UTF8"), CodePoint, Byte)
      /\ \A cp \in CodePoint : /\ EncodeF("UTF8")[cp] = Encoded("UTF8", cp)
                               /\ Encoded("UTF8", cp) # <<>>
  BY <1>1, EncodedTextIs
<1>3. /\ Speller(EncodeF(to), CodePoint, Byte)
      /\ \A cp \in CodePoint : EncodeF(to)[cp] = Encoded(to, cp)
  BY <1>1, EncodedTextIs
<1>4. Encoded(to, BOM) \in Seq(Byte)
  BY MarkBytes, EncodedWide
<1>5. Kept \in Seq(CodePoint) /\ Fragment \in Seq(Byte)
  BY InputIs
<1> QED
  BY <1>2, <1>3, <1>4, <1>5

\* A turn of the loop from UTF-8.
LEMMA Utf8Turn ==
    ASSUME Sources, NEW to \in Wide, encoding_to = to, NEW n \in 0 .. 3, FromUtf8(n),
           Utf8Progress(to, infile, outfile)
    PROVE  Utf8Progress(to, infile', outfile')
<1> DEFINE F == EncodeF("UTF8")
           G == EncodeF(to)
           mark == Encoded(to, BOM)
<1>1. /\ Speller(F, CodePoint, Byte) /\ Speller(G, CodePoint, Byte)
      /\ \A cp \in CodePoint : /\ F[cp] = Encoded("UTF8", cp) /\ F[cp] # <<>>
                               /\ G[cp] = Encoded(to, cp)
      /\ Kept \in Seq(CodePoint) /\ mark \in Seq(Byte) /\ Fragment \in Seq(Byte)
  BY Utf8Spellers
<1>2. infile # <<>>
  BY DEF FromUtf8, Turn
<1>3. PICK ahead \in Seq(Byte) :
             /\ infile = ahead \o Fragment
             /\ Halfway(CodePoint, F, G, Kept, mark, ahead, outfile)
  BY <1>2 DEF Utf8Progress, Utf8Going, Utf8Over
<1> HIDE DEF F, G, mark
<1>4. CASE ahead # <<>>
  <2>1. PICK x \in CodePoint, tail \in Seq(Byte) :
               /\ ahead = F[x] \o tail
               /\ Halfway(CodePoint, F, G, Kept, mark, tail, outfile \o G[x])
    <3>1. /\ Speller(F, CodePoint, Byte) /\ Speller(G, CodePoint, Byte)
          /\ Kept \in Seq(CodePoint) /\ mark \in Seq(Byte)
      BY <1>1
    <3>2. Halfway(CodePoint, F, G, Kept, mark, ahead, outfile)
      BY <1>3
    <3> QED
      BY <1>4, <3>1, <3>2, HalfwayTakes, SMTT(30)
  <2> DEFINE b == F[x]
  <2>2. b \in Seq(Byte) /\ b = Encoded("UTF8", x) /\ G[x] = Encoded(to, x)
    BY <1>1 DEF Speller
  <2>3. infile = (b \o tail) \o Fragment
    BY <1>3, <2>1
  <2> HIDE DEF b
  <2>4. (b \o tail) \o Fragment = b \o (tail \o Fragment) /\ tail \o Fragment \in Seq(Byte)
    <3> DEFINE rest == Fragment
    <3>1. rest \in Seq(Byte) /\ tail \in Seq(Byte) /\ b \in Seq(Byte)
      BY <1>1, <2>2
    <3> HIDE DEF rest
    <3>2. (b \o tail) \o rest = b \o (tail \o rest) /\ tail \o rest \in Seq(Byte)
      BY <3>1, ConcatAssociative, ConcatProperties, SMTT(30)
    <3> QED
      BY <3>2 DEF rest
  <2>5. infile = Encoded("UTF8", x) \o (tail \o Fragment)
    BY <2>2, <2>3, <2>4
  <2>6. infile' = tail \o Fragment /\ outfile' = outfile \o G[x]
    <3> DEFINE t == tail \o Fragment
    <3>1. t \in Seq(Byte) /\ infile = Encoded("UTF8", x) \o t
      BY <2>4, <2>5
    <3> HIDE DEF t
    <3>2. infile' = t /\ outfile' = outfile \o Encoded(to, x)
      BY <3>1, Utf8GlyphTurn
    <3> QED
      BY <2>2, <3>2 DEF t
  <2>7. Utf8Going(to, infile', outfile')
    BY <2>1, <2>6 DEF Utf8Going, F, G, mark
  <2> QED
    BY <2>7 DEF Utf8Progress
<1>5. CASE ahead = <<>>
  <2>1. infile = Fragment
    BY <1>1, <1>3, <1>5, ConcatEmptySeq
  <2>2. outfile = mark \o Spelled(G, Kept)
    BY <1>1, <1>3, <1>5, HalfwayEnds
  <2>3. outfile = Utf8Whole(to)
    BY <2>2 DEF Utf8Whole, mark, G
  <2>4. infile' = <<>> /\ Stale(Utf8Whole(to), outfile')
    BY <2>1, <2>3, Utf8FragmentTurn
  <2> QED
    BY <1>2, <2>1, <2>4 DEF Utf8Progress, Utf8Over
<1> QED
  BY <1>4, <1>5

\* What has been added is behind, and makes the sequence longer by its length.
LEMMA StaleIsBehind ==
    ASSUME NEW T, NEW whole \in Seq(T), NEW J, NEW junk \in Seq(J)
    PROVE  /\ IsPrefix(whole, whole \o junk)
           /\ Len(whole \o junk) - Len(whole) = Len(junk)
<1> DEFINE S == T \cup J
           out == whole \o junk
<1>1. whole \in Seq(S) /\ junk \in Seq(S)
  BY SeqMonotonic
<1>2. Len(whole) \in Nat /\ Len(junk) \in Nat
  BY LenProperties
<1> HIDE DEF S
<1>3. /\ out \in Seq(S) /\ Len(out) = Len(whole) + Len(junk)
      /\ \A i \in 1 .. Len(whole) : out[i] = whole[i]
  <2>1. /\ out \in Seq(S) /\ Len(out) = Len(whole) + Len(junk)
        /\ \A i \in 1 .. Len(whole) + Len(junk) :
              out[i] = IF i <= Len(whole) THEN whole[i] ELSE junk[i - Len(whole)]
    BY <1>1, ConcatProperties
  <2> HIDE DEF out
  <2> QED
    BY <1>2, <2>1
<1> HIDE DEF out
<1>4. SubSeq(whole, 1, Len(whole)) = SubSeq(out, 1, Len(whole))
  <2> DEFINE a == SubSeq(whole, 1, Len(whole))
             b == SubSeq(out, 1, Len(whole))
  <2>1. a = whole
    BY <1>1, SubSeqFull
  <2>2. /\ b \in Seq(S) /\ Len(b) = Len(whole)
        /\ \A i \in 1 .. Len(whole) : b[i] = out[i]
    <3>1. \A i \in 1 .. Len(whole) : out[i] \in S
      BY <1>1, <1>3, ElementOfSeq
    <3> QED
      BY <1>2, <3>1
  <2> HIDE DEF b
  <2>3. b = whole
    BY <1>1, <1>3, <2>2, SeqEqual
  <2> QED
    BY <2>1, <2>3 DEF b
<1>5. IsPrefix(whole, out)
  BY <1>2, <1>3, <1>4 DEF IsPrefix
<1> QED
  BY <1>2, <1>3, <1>5 DEF out

\* When the file has been read what has been written is as the property says.
LEMMA Utf8End ==
    ASSUME Sources, NEW to \in Wide, Utf8Progress(to, <<>>, outfile)
    PROVE  LET kept == File(to, <<BOM>> \o IF cut THEN Front(text) ELSE text)
               extra == Len(outfile) - Len(kept)
           IN /\ IsPrefix(kept, outfile)
              /\ extra \in (IF cut /\ Last(text) > 127 THEN {2, 4} ELSE {0})
<1> DEFINE F == EncodeF("UTF8")
           G == EncodeF(to)
           mark == Encoded(to, BOM)
           whole == Utf8Whole(to)
<1>1. /\ Speller(F, CodePoint, Byte) /\ Speller(G, CodePoint, Byte)
      /\ \A cp \in CodePoint : F[cp] # <<>> /\ G[cp] = Encoded(to, cp)
      /\ Kept \in Seq(CodePoint) /\ mark \in Seq(Byte) /\ Fragment \in Seq(Byte)
  BY Utf8Spellers
<1>2. whole = mark \o Spelled(G, Kept) /\ whole \in Seq(Byte)
  BY <1>1, Letters, ConcatProperties DEF Utf8Whole
<1>3. File(to, <<BOM>> \o IF cut THEN Front(text) ELSE text) = whole
  <2>1. One(BOM) \in Seq(CodePoint) /\ BOM \in CodePoint
    BY MarkBytes
  <2>2. One(BOM) \o Kept \in Seq(CodePoint)
    BY <1>1, <2>1, ConcatProperties
  <2>3. to \in Formats
    BY DEF Formats, Wide
  <2>4. EncodedText(to, One(BOM) \o Kept) = Spelled(G, One(BOM) \o Kept)
    BY <2>2, <2>3, EncodedTextIs
  <2>5. Spelled(G, One(BOM) \o Kept) = G[BOM] \o Spelled(G, Kept)
    BY <1>1, <2>1, SpelledMore
  <2>6. File(to, <<BOM>> \o IF cut THEN Front(text) ELSE text)
          = EncodedText(to, One(BOM) \o Kept)
    BY DEF File, Kept, Body, One
  <2> QED
    BY <1>1, <1>2, <2>1, <2>4, <2>5, <2>6
<1>4. IsPrefix(whole, outfile) /\ Len(outfile) - Len(whole)
        \in (IF cut /\ Last(text) > 127 THEN {2, 4} ELSE {0})
  <2>1. CASE Utf8Going(to, <<>>, outfile)
    <3>1. PICK ahead \in Seq(Byte) :
                 /\ <<>> = ahead \o Fragment
                 /\ Halfway(CodePoint, F, G, Kept, mark, ahead, outfile)
      BY <2>1 DEF Utf8Going
    <3>2. ahead = <<>> /\ Fragment = <<>>
      <4>1. Fragment \in Seq(Byte)
        BY <1>1
      <4>2. ahead \o Fragment = <<>> <=> ahead = <<>> /\ Fragment = <<>>
        BY <4>1, ConcatEqualIffEmpty
      <4>3. ahead \o Fragment = <<>>
        BY <3>1
      <4> QED
        BY <4>2, <4>3
    <3> HIDE DEF F, G, mark, whole
    <3>3. outfile = mark \o Spelled(G, Kept)
      BY <1>1, <3>1, <3>2, HalfwayEnds
    <3>4. outfile = whole
      BY <1>2, <3>3
    <3>5. ~(cut /\ Last(text) > 127)
      BY <3>2, FragmentIs, Zenon
    <3>6. whole \o <<>> = whole /\ <<>> \in Seq(Byte) /\ Len(<<>>) = 0
      BY <1>2, ConcatEmptySeq
    <3>7. IsPrefix(whole, whole) /\ Len(whole) - Len(whole) = 0
      BY <1>2, <3>6, StaleIsBehind
    <3> QED
      BY <3>4, <3>5, <3>7
  <2>2. CASE Utf8Over(to, <<>>, outfile)
    <3>a. PICK J : \E junk \in Seq(J) :
                 Len(junk) \in {2, 4} /\ outfile = whole \o junk
      BY <2>2, Zenon DEF Utf8Over, Stale
    <3>1. PICK junk \in Seq(J) :
                 Len(junk) \in {2, 4} /\ outfile = whole \o junk
      BY <3>a
    <3>2. cut /\ Last(text) > 127
      BY <2>2, FragmentIs, Zenon DEF Utf8Over
    <3> HIDE DEF whole
    <3>3. IsPrefix(whole, outfile) /\ Len(outfile) - Len(whole) = Len(junk)
      BY <1>2, <3>1, StaleIsBehind
    <3> QED
      BY <3>1, <3>2, <3>3
  <2> QED
    BY <2>1, <2>2 DEF Utf8Progress
<1> QED
  BY <1>3, <1>4

\* The loop begins behind the mark that has just been written, with the whole
\* file before it: the mark of the file has not been skipped.
LEMMA Utf8Start ==
    ASSUME Sources, written = "UTF8", encoding_from = "UTF8",
           NEW to \in Wide, encoding_to = to
    PROVE  Utf8Progress(to, Input, Mark)
<1> DEFINE F == EncodeF("UTF8")
           G == EncodeF(to)
           mark == Encoded(to, BOM)
<1>1. Kept \in Seq(CodePoint) /\ mark \in Seq(Byte) /\ Speller(F, CodePoint, Byte)
  BY Utf8Spellers
<1>2. Input = Spelled(F, Kept) \o Fragment
  BY InputIs
<1>3. Mark = mark
  BY MarkBytes DEF Mark, Wide
<1> HIDE DEF F, G, mark
<1>4. Spelled(F, Kept) \in Seq(Byte)
  BY <1>1, Letters
<1>5. Halfway(CodePoint, F, G, Kept, mark, Spelled(F, Kept), mark)
  BY <1>1, HalfwayBegins
<1>6. Utf8Going(to, Input, Mark)
  BY <1>2, <1>3, <1>4, <1>5 DEF Utf8Going, F, G, mark
<1> QED
  BY <1>6 DEF Utf8Progress

-----------------------------------------------------------------------------
(* Between the two encodings in UTF-16                                     *)

\* A text is written in UTF-16 unit by unit.
LEMMA WideText ==
    ASSUME NEW enc \in Wide
    PROVE  \A t \in Seq(CodePoint) :
              /\ Spelled(UnitF, t) \in Seq(Unit)
              /\ Spelled(EncodeF(enc), t) = Spelled(PutF(enc), Spelled(UnitF, t))
<1> DEFINE F == UnitF
           G == PutF(enc)
           H == EncodeF(enc)
<1>1. Speller(G, Unit, Byte) /\ Speller(F, CodePoint, Unit)
  BY UnitSpellers
<1>2. enc \in Formats
  BY DEF Formats, Wide
<1>3. Speller(H, CodePoint, Byte) /\ \A cp \in CodePoint : H[cp] = Encoded(enc, cp)
  BY <1>2, EncodedTextIs
<1>4. \A cp \in CodePoint : H[cp] = Spelled(G, F[cp])
  BY <1>3, EncodedWide
<1> HIDE DEF F, G, H
<1>5. \A t \in Seq(CodePoint) : Spelled(H, t) = Spelled(G, Spelled(F, t))
  BY <1>1, <1>3, <1>4, SpelledTwice
<1>6. \A t \in Seq(CodePoint) : Spelled(F, t) \in Seq(Unit)
  BY <1>1, Letters
<1> QED
  BY <1>5, <1>6 DEF F, G, H

\* The units of the file, the mark among them, and what is written of them.
AllUnits == Spelled(UnitF, One(BOM) \o text)
Turned == <<254, 255>> \o Spelled(PutF("UTF16BE"), AllUnits)

\* The loop is halfway through the units, or past them with a stale one.
LeGoing(in, out) ==
    Halfway(Unit, PutF("UTF16LE"), PutF("UTF16BE"), AllUnits, <<254, 255>>,
            in, out)
StaleUnit(out) ==
    \E J : \E junk \in Seq(J) : Len(junk) = 2 /\ out = Turned \o junk
LeProgress(in, out) == LeGoing(in, out) \/ (in = <<>> /\ StaleUnit(out))

\* A file in UTF-16 is whole: it has all the units of the text.
LEMMA WideInput ==
    ASSUME Sources, written \in Wide
    PROVE  /\ One(BOM) \o text \in Seq(CodePoint)
           /\ AllUnits \in Seq(Unit)
           /\ Input = Spelled(EncodeF(written), One(BOM) \o text)
           /\ Input = Spelled(PutF(written), AllUnits)
<1> DEFINE all == One(BOM) \o text
           F == EncodeF(written)
<1>1. ~cut /\ text \in Seq(CodePoint)
  BY TextsAssumption DEF Sources, Wide
<1>2. Kept = all /\ Fragment = <<>> /\ Kept \in Seq(CodePoint)
  BY <1>1, InputIs DEF Kept, Body, Fragment
<1>3. Input = Spelled(F, all) \o <<>>
  BY <1>2, InputIs
<1>4. Speller(F, CodePoint, Byte)
  BY EncodedTextIs DEF Formats, Wide
<1> HIDE DEF all, F
<1>5. Spelled(F, all) \in Seq(Byte)
  BY <1>2, <1>4, Letters
<1>6. Input = Spelled(F, all)
  BY <1>3, <1>5, ConcatEmptySeq
<1>7. /\ Spelled(UnitF, all) \in Seq(Unit)
      /\ Spelled(F, all) = Spelled(PutF(written), Spelled(UnitF, all))
  BY <1>2, WideText DEF F
<1> QED
  BY <1>2, <1>6, <1>7 DEF all, F, AllUnits

\* What has been written by a loop that is halfway are bytes.
LEMMA HalfwayOut ==
    ASSUME NEW S, NEW T, NEW F, NEW G, Speller(G, S, T),
           NEW all, NEW before \in Seq(T), NEW in, NEW out,
           Halfway(S, F, G, all, before, in, out)
    PROVE  out \in Seq(T)
<1>1. PICK done \in Seq(S) : Written(G, before, done, out)
  BY DEF Halfway
<1> DEFINE s == Spelled(G, done)
<1>2. s \in Seq(T)
  BY Letters
<1>3. out = before \o s
  BY <1>1 DEF Written
<1> HIDE DEF s
<1>4. before \o s \in Seq(T)
  BY <1>2, ConcatProperties
<1> QED
  BY <1>3, <1>4

\* A unit at the head of the file comes into memory as it is, whichever way
\* round it is in the file.
LEMMA HeadUnit ==
    ASSUME NEW enc \in Wide, encoding_from = enc, NEW u \in Unit,
           NEW tail \in Seq(Byte), infile = InOrder(enc, u) \o tail
    PROVE  /\ UnitAt(1) = u
           /\ SubSeq(infile, 3, Len(infile)) = tail
           /\ Len(infile) = 2 + Len(tail)
<1> DEFINE b == InOrder(enc, u)
<1>1. b \in Seq(Byte) /\ Len(b) = 2
  BY InOrderIs
<1>2. enc = "UTF16LE" \/ enc = "UTF16BE"
  BY DEF Wide
<1>3. /\ enc = "UTF16LE" => b = <<u % 256, u \div 256>>
      /\ enc = "UTF16BE" => b = <<u \div 256, u % 256>>
  BY InOrderIs
<1>4. infile = b \o tail
  OBVIOUS
<1>5. /\ u % 256 \in Byte /\ u \div 256 \in Byte
      /\ u = (u % 256) + 256 * (u \div 256)
  BY UnitParts
<1> HIDE DEF b
<1>6. /\ SubSeq(infile, 3, Len(infile)) = tail
      /\ infile[1] = b[1] /\ infile[2] = b[2]
      /\ Len(infile) = 2 + Len(tail)
  <2>1. /\ SubSeq(b \o tail, Len(b) + 1, Len(b \o tail)) = tail
        /\ \A i \in 1 .. Len(b) : (b \o tail)[i] = b[i]
        /\ Len(b \o tail) = Len(b) + Len(tail)
    BY <1>1, Behind
  <2>2. Len(b) + 1 = 3 /\ 1 \in 1 .. Len(b) /\ 2 \in 1 .. Len(b)
    BY <1>1
  <2> QED
    BY <1>1, <1>4, <2>1, <2>2
<1>7. CASE enc = "UTF16LE"
  <2>1. infile[1] = u % 256 /\ infile[2] = u \div 256
    BY <1>3, <1>6, <1>7
  <2>2. UnitAt(1) = infile[1] + 256 * infile[2]
    BY <1>7 DEF UnitAt
  <2> QED
    BY <1>5, <1>6, <2>1, <2>2
<1>8. CASE enc = "UTF16BE"
  <2>1. infile[1] = u \div 256 /\ infile[2] = u % 256
    BY <1>3, <1>6, <1>8
  <2>2. UnitAt(1) = reverse_bytes(infile[1] + 256 * infile[2])
    BY <1>8 DEF UnitAt
  <2>3. infile[1] + 256 * infile[2] = reverse_bytes(u)
    <3>1. u \div 256 \in Nat /\ u % 256 \in Nat
      BY <1>5, UnitIs
    <3>2. infile[1] + 256 * infile[2] = (u % 256) * 256 + (u \div 256)
      BY <2>1, <3>1
    <3> QED
      BY <3>2 DEF reverse_bytes
  <2>4. reverse_bytes(reverse_bytes(u)) = u
    BY UnitIs, TurnedTwice, SMT
  <2> QED
    BY <1>6, <2>2, <2>3, <2>4
<1> QED
  BY <1>2, <1>7, <1>8

\* And the one behind it.
LEMMA SecondUnit ==
    ASSUME NEW enc \in Wide, encoding_from = enc,
           NEW u \in Unit, NEW v \in Unit, NEW tail \in Seq(Byte),
           infile = InOrder(enc, u) \o (InOrder(enc, v) \o tail)
    PROVE  /\ UnitAt(3) = v
           /\ SubSeq(infile, 5, Len(infile)) = tail
           /\ Len(infile) = 4 + Len(tail)
<1> DEFINE a == InOrder(enc, u)
           b == InOrder(enc, v)
<1>1. a \in Seq(Byte) /\ Len(a) = 2 /\ b \in Seq(Byte) /\ Len(b) = 2
  BY InOrderIs
<1>2. enc = "UTF16LE" \/ enc = "UTF16BE"
  BY DEF Wide
<1>3. /\ enc = "UTF16LE" => b = <<v % 256, v \div 256>>
      /\ enc = "UTF16BE" => b = <<v \div 256, v % 256>>
  BY InOrderIs
<1>4. infile = a \o (b \o tail)
  OBVIOUS
<1>5. /\ v % 256 \in Byte /\ v \div 256 \in Byte
      /\ v = (v % 256) + 256 * (v \div 256)
  BY UnitParts
<1> HIDE DEF a, b
<1>6. /\ SubSeq(infile, 5, Len(infile)) = tail
      /\ infile[3] = b[1] /\ infile[4] = b[2]
      /\ Len(infile) = 4 + Len(tail)
  <2> DEFINE c == a \o b
  <2>1. /\ c \in Seq(Byte) /\ Len(c) = Len(a) + Len(b)
        /\ \A i \in 1 .. Len(a) + Len(b) :
              c[i] = IF i <= Len(a) THEN a[i] ELSE b[i - Len(a)]
    BY <1>1, ConcatProperties
  <2>2. infile = c \o tail
    <3>1. (a \o b) \o tail = a \o (b \o tail)
      BY <1>1, ConcatAssociative, SMTT(30)
    <3> QED
      BY <1>4, <3>1
  <2> HIDE DEF c
  <2>3. Len(c) = 4 /\ c[3] = b[1] /\ c[4] = b[2]
    BY <1>1, <2>1
  <2>4. /\ SubSeq(c \o tail, Len(c) + 1, Len(c \o tail)) = tail
        /\ \A i \in 1 .. Len(c) : (c \o tail)[i] = c[i]
        /\ Len(c \o tail) = Len(c) + Len(tail)
    BY <2>1, Behind
  <2>5. Len(c) + 1 = 5 /\ 3 \in 1 .. Len(c) /\ 4 \in 1 .. Len(c)
    BY <2>3
  <2> QED
    BY <2>2, <2>3, <2>4, <2>5
<1>7. CASE enc = "UTF16LE"
  <2>1. infile[3] = v % 256 /\ infile[4] = v \div 256
    BY <1>3, <1>6, <1>7
  <2>2. UnitAt(3) = infile[3] + 256 * infile[4]
    BY <1>7 DEF UnitAt
  <2> QED
    BY <1>5, <1>6, <2>1, <2>2
<1>8. CASE enc = "UTF16BE"
  <2>1. infile[3] = v \div 256 /\ infile[4] = v % 256
    BY <1>3, <1>6, <1>8
  <2>2. UnitAt(3) = reverse_bytes(infile[3] + 256 * infile[4])
    BY <1>8 DEF UnitAt
  <2>3. infile[3] + 256 * infile[4] = reverse_bytes(v)
    <3>1. v \div 256 \in Nat /\ v % 256 \in Nat
      BY <1>5, UnitIs
    <3>2. infile[3] + 256 * infile[4] = (v % 256) * 256 + (v \div 256)
      BY <2>1, <3>1
    <3> QED
      BY <3>2 DEF reverse_bytes
  <2>4. reverse_bytes(reverse_bytes(v)) = v
    BY UnitIs, TurnedTwice, SMT
  <2> QED
    BY <1>6, <2>2, <2>3, <2>4
<1> QED
  BY <1>2, <1>7, <1>8

\* What write() takes from memory.
LEMMA UnitsFromMemory ==
    ASSUME NEW a, NEW b
    PROVE  /\ Flat(<<a>>, Memory) = Memory(a)
           /\ Flat(<<a, b>>, Memory) = Memory(a) \o Memory(b)
           /\ \E J : Memory(a) \in Seq(J)
           /\ Len(Memory(a)) = 2
<1> DEFINE J == {a % 256, a \div 256, b % 256, b \div 256}
           p == Memory(a)
           q == Memory(b)
<1>1. p \in Seq(J) /\ Len(p) = 2 /\ q \in Seq(J)
  BY DEF Memory
<1>2. /\ Flat(<<a>>, Memory) = FlattenSeq([i \in {1} |-> Memory(<<a>>[i])])
      /\ Flat(<<a, b>>, Memory) = FlattenSeq([i \in 1 .. 2 |-> Memory(<<a, b>>[i])])
  BY DEF Flat
<1>3. /\ [i \in {1} |-> Memory(<<a>>[i])] = <<Memory(a)>>
      /\ [i \in 1 .. 2 |-> Memory(<<a, b>>[i])] = <<Memory(a), Memory(b)>>
  OBVIOUS
<1>4. Flat(<<a>>, Memory) = FlattenSeq(<<p>>) /\ Flat(<<a, b>>, Memory) = FlattenSeq(<<p, q>>)
  BY <1>2, <1>3
<1> HIDE DEF J, p, q
<1>5. FlattenSeq(<<p>>) = p /\ FlattenSeq(<<p, q>>) = p \o q
  BY <1>1, FlattenShort, FlattenTwo
<1> QED
  BY <1>1, <1>4, <1>5 DEF p, q

\* What the loop between the encodings in UTF-16 reads and writes.
LEMMA LeSpellers ==
    ASSUME Sources, written = "UTF16LE"
    PROVE  /\ Speller(PutF("UTF16LE"), Unit, Byte)
           /\ Speller(PutF("UTF16BE"), Unit, Byte)
           /\ \A u \in Unit : /\ PutF("UTF16LE")[u] = InOrder("UTF16LE", u)
                              /\ PutF("UTF16LE")[u] # <<>>
                              /\ PutF("UTF16BE")[u] = Memory(reverse_bytes(u))
           /\ AllUnits \in Seq(Unit)
           /\ <<254, 255>> \in Seq(Byte)
<1>1. "UTF16LE" \in Wide /\ "UTF16BE" \in Wide
  BY DEF Wide
<1>2. \A u \in Unit : InOrder("UTF16BE", u) = Memory(reverse_bytes(u))
  BY DEF InOrder
<1>3. AllUnits \in Seq(Unit)
  BY <1>1, WideInput
<1>4. <<254, 255>> \in Seq(Byte)
  BY DEF Byte
<1> QED
  BY <1>1, <1>2, <1>3, <1>4, UnitSpellers

\* The next unit: it is at the head of the file and has its place in the text.
LEMMA LeTakes ==
    ASSUME Sources, written = "UTF16LE", NEW in, NEW out, in # <<>>,
           LeProgress(in, out)
    PROVE  \E u \in Unit, tail \in Seq(Byte) :
              /\ in = InOrder("UTF16LE", u) \o tail
              /\ LeGoing(tail, out \o Memory(reverse_bytes(u)))
              /\ out \in Seq(Byte)
<1> DEFINE F == PutF("UTF16LE")
           G == PutF("UTF16BE")
           mark == <<254, 255>>
<1>1. /\ Speller(F, Unit, Byte) /\ Speller(G, Unit, Byte)
      /\ \A u \in Unit : /\ F[u] = InOrder("UTF16LE", u)
                         /\ G[u] = Memory(reverse_bytes(u))
      /\ AllUnits \in Seq(Unit) /\ mark \in Seq(Byte)
  BY LeSpellers
<1>2. Halfway(Unit, F, G, AllUnits, mark, in, out)
  BY DEF LeProgress, LeGoing
<1> HIDE DEF F, G, mark
<1>3. PICK u \in Unit, tail \in Seq(Byte) :
             /\ in = F[u] \o tail
             /\ Halfway(Unit, F, G, AllUnits, mark, tail, out \o G[u])
  <2>1. /\ Speller(F, Unit, Byte) /\ Speller(G, Unit, Byte)
        /\ AllUnits \in Seq(Unit) /\ mark \in Seq(Byte)
    BY <1>1
  <2> QED
    BY <1>2, <2>1, HalfwayTakes
<1>4. out \in Seq(Byte)
  BY <1>1, <1>2, HalfwayOut
<1>5. F[u] = InOrder("UTF16LE", u) /\ G[u] = Memory(reverse_bytes(u))
  BY <1>1
<1>6. LeGoing(tail, out \o G[u])
  BY <1>3 DEF LeGoing, F, G, mark
<1> QED
  BY <1>3, <1>4, <1>5, <1>6

\* At the end of the file all units have been written.
LEMMA LeAtEnd ==
    ASSUME Sources, written = "UTF16LE", NEW out, LeGoing(<<>>, out)
    PROVE  out = Turned
<1> DEFINE F == PutF("UTF16LE")
           G == PutF("UTF16BE")
           mark == <<254, 255>>
<1>1. /\ Speller(F, Unit, Byte) /\ \A u \in Unit : F[u] # <<>>
      /\ AllUnits \in Seq(Unit)
  BY LeSpellers
<1>2. Halfway(Unit, F, G, AllUnits, mark, <<>>, out)
  BY DEF LeGoing
<1> HIDE DEF F, G, mark
<1>3. out = mark \o Spelled(G, AllUnits)
  BY <1>1, <1>2, HalfwayEnds
<1> QED
  BY <1>3 DEF Turned, mark, G

\* One unit is turned.
LEMMA LeUnitTurn ==
    ASSUME Sources, written = "UTF16LE", LeToBeUnit, LeProgress(infile, outfile)
    PROVE  LeProgress(infile', outfile')
<1>1. infile # <<>> /\ encoding_from = "UTF16LE"
  BY DEF LeToBeUnit, Turn
<1>2. PICK u \in Unit, tail \in Seq(Byte) :
             /\ infile = InOrder("UTF16LE", u) \o tail
             /\ LeGoing(tail, outfile \o Memory(reverse_bytes(u)))
  BY <1>1, LeTakes
<1>3. UnitAt(1) = u /\ SubSeq(infile, 3, Len(infile)) = tail
  BY <1>1, <1>2, HeadUnit DEF Wide
<1>4. infile' = tail /\ outfile' = outfile \o Flat(<<reverse_bytes(u)>>, Memory)
  BY <1>3 DEF LeToBeUnit, WriteUnits
<1>5. Flat(<<reverse_bytes(u)>>, Memory) = Memory(reverse_bytes(u))
  BY UnitsFromMemory
<1> QED
  BY <1>2, <1>4, <1>5 DEF LeProgress

\* Two units are turned; of one that is alone the stale one is the second.
LEMMA LePairTurn ==
    ASSUME Sources, written = "UTF16LE", LeToBePair, LeProgress(infile, outfile)
    PROVE  LeProgress(infile', outfile')
<1>1. infile # <<>> /\ encoding_from = "UTF16LE" /\ "UTF16LE" \in Wide
  BY DEF LeToBePair, Turn, Wide
<1>2. PICK u \in Unit, tail \in Seq(Byte) :
             /\ infile = InOrder("UTF16LE", u) \o tail
             /\ LeGoing(tail, outfile \o Memory(reverse_bytes(u)))
             /\ outfile \in Seq(Byte)
  BY <1>1, LeTakes
<1>3. UnitAt(1) = u /\ Len(infile) = 2 + Len(tail)
  BY <1>1, <1>2, HeadUnit
<1> DEFINE p == Memory(reverse_bytes(u))
           second == reverse_bytes(IF Len(infile) > 2 THEN UnitAt(3) ELSE lower)
           q == Memory(second)
<1>4. p \in Seq(Byte)
  BY LeSpellers DEF Speller
<1>5. /\ infile' = SubSeq(infile, 5, Len(infile))
      /\ outfile' = outfile \o (p \o q)
  <2>1. outfile' = outfile \o Flat(<<reverse_bytes(u), second>>, Memory)
    BY <1>3 DEF LeToBePair, WriteUnits
  <2>2. Flat(<<reverse_bytes(u), second>>, Memory) = p \o q
    BY UnitsFromMemory
  <2>3. infile' = SubSeq(infile, 5, Len(infile))
    BY DEF LeToBePair
  <2> QED
    BY <2>1, <2>2, <2>3
<1>6. PICK J : q \in Seq(J)
  BY UnitsFromMemory
<1>7. Len(q) = 2
  BY DEF Memory
<1>8. outfile' = (outfile \o p) \o q
  <2> DEFINE K == Byte \cup J
  <2>1. outfile \in Seq(K) /\ p \in Seq(K) /\ q \in Seq(K)
    BY <1>2, <1>4, <1>6, SeqMonotonic
  <2> HIDE DEF p, q, K
  <2>2. (outfile \o p) \o q = outfile \o (p \o q)
    BY <2>1, ConcatAssociative, SMTT(30)
  <2> QED
    BY <1>5, <2>2
<1>9. CASE tail = <<>>
  <2>1. infile' = <<>>
    BY <1>3, <1>5, <1>9
  <2>2. LeGoing(<<>>, outfile \o p)
    BY <1>2, <1>9
  <2> HIDE DEF p, q
  <2>3. outfile \o p = Turned
    BY <2>2, LeAtEnd
  <2>4. outfile' = Turned \o q
    BY <1>8, <2>3
  <2>5. StaleUnit(outfile')
    BY <1>6, <1>7, <2>4 DEF StaleUnit
  <2> QED
    BY <2>1, <2>5 DEF LeProgress
<1>10. CASE tail # <<>>
  <2>1. PICK v \in Unit, last \in Seq(Byte) :
               /\ tail = InOrder("UTF16LE", v) \o last
               /\ LeGoing(last, (outfile \o p) \o Memory(reverse_bytes(v)))
    <3> HIDE DEF p, q
    <3>1. LeGoing(tail, outfile \o p)
      BY <1>2 DEF p
    <3>2. LeProgress(tail, outfile \o p)
      BY <3>1 DEF LeProgress
    <3> QED
      BY <1>10, <3>2, LeTakes
  <2>2. infile = InOrder("UTF16LE", u) \o (InOrder("UTF16LE", v) \o last)
    BY <1>2, <2>1
  <2>3. UnitAt(3) = v /\ infile' = last /\ Len(infile) = 4 + Len(last)
    BY <1>1, <1>5, <2>2, SecondUnit
  <2>4. q = Memory(reverse_bytes(v))
    BY <2>3
  <2> HIDE DEF p, q
  <2>5. LeGoing(infile', outfile')
    BY <1>8, <2>1, <2>3, <2>4
  <2> QED
    BY <2>5 DEF LeProgress
<1> QED
  BY <1>9, <1>10

\* It begins with the whole file, behind its own mark.
LEMMA LeStart ==
    ASSUME Sources, written = "UTF16LE", encoding_from = "UTF16LE",
           encoding_to = "UTF16BE"
    PROVE  LeProgress(Input, Mark)
<1> DEFINE F == PutF("UTF16LE")
           G == PutF("UTF16BE")
           mark == <<254, 255>>
<1>1. Mark = mark
  BY DEF Mark
<1>2. Input = Spelled(F, AllUnits)
  BY WideInput DEF Wide
<1>3. AllUnits \in Seq(Unit) /\ mark \in Seq(Byte)
  BY LeSpellers
<1> HIDE DEF F, G, mark
<1>4. Halfway(Unit, F, G, AllUnits, mark, Spelled(F, AllUnits), mark)
  BY <1>3, HalfwayBegins
<1>5. LeGoing(Input, Mark)
  BY <1>1, <1>2, <1>4 DEF LeGoing, F, G, mark
<1> QED
  BY <1>5 DEF LeProgress

\* And ends with what the property says.
LEMMA LeEnd ==
    ASSUME Sources, written = "UTF16LE", LeProgress(<<>>, outfile)
    PROVE  LET all == File("UTF16BE", <<BOM>> \o text)
           IN IsPrefix(all, outfile) /\ Len(outfile) - Len(all) \in {0, 2}
<1> DEFINE G == PutF("UTF16BE")
           H == EncodeF("UTF16BE")
           whole == One(BOM) \o text
<1>1. "UTF16BE" \in Wide /\ "UTF16LE" \in Wide /\ "UTF16BE" \in Formats
  BY DEF Wide, Formats
<1>2. whole \in Seq(CodePoint) /\ One(BOM) \in Seq(CodePoint) /\ BOM \in CodePoint
  BY <1>1, WideInput, MarkBytes
<1>3. Speller(H, CodePoint, Byte) /\ H[BOM] = <<254, 255>>
  BY <1>1, <1>2, EncodedTextIs, MarkBytes
<1>4. File("UTF16BE", <<BOM>> \o text) = Turned
  <2> HIDE DEF whole, G, H
  <2>1. One(BOM) \o whole \in Seq(CodePoint)
    BY <1>2, ConcatProperties
  <2>2. EncodedText("UTF16BE", One(BOM) \o whole) = Spelled(H, One(BOM) \o whole)
    BY <1>1, <2>1, EncodedTextIs DEF H
  <2>3. Spelled(H, One(BOM) \o whole) = H[BOM] \o Spelled(H, whole)
    <3>1. Speller(H, CodePoint, Byte)
      BY <1>3
    <3> QED
      BY <1>2, <3>1, SpelledMore
  <2>4. Spelled(H, whole) = Spelled(G, AllUnits)
    BY <1>1, <1>2, WideText DEF AllUnits, whole, G, H
  <2>5. File("UTF16BE", <<BOM>> \o text) = EncodedText("UTF16BE", One(BOM) \o whole)
    BY DEF File, whole, One
  <2> QED
    BY <1>3, <2>2, <2>3, <2>4, <2>5 DEF Turned, G
<1>5. Turned \in Seq(Byte)
  <2> DEFINE mark == <<254, 255>>
             s == Spelled(G, AllUnits)
  <2>1. mark \in Seq(Byte) /\ Speller(G, Unit, Byte) /\ AllUnits \in Seq(Unit)
    BY LeSpellers
  <2>2. s \in Seq(Byte)
    BY <2>1, Letters
  <2> HIDE DEF mark, s
  <2>3. mark \o s \in Seq(Byte)
    BY <2>1, <2>2, ConcatProperties
  <2> QED
    BY <2>3 DEF mark, s, Turned
<1>6. CASE outfile = Turned
  <2>1. Turned \o <<>> = Turned /\ <<>> \in Seq(Byte) /\ Len(<<>>) = 0
    BY <1>5, ConcatEmptySeq
  <2>2. IsPrefix(Turned, Turned) /\ Len(Turned) - Len(Turned) = 0
    BY <1>5, <2>1, StaleIsBehind
  <2> QED
    BY <1>4, <1>6, <2>2
<1>7. CASE StaleUnit(outfile)
  <2>1. PICK J : \E junk \in Seq(J) : Len(junk) = 2 /\ outfile = Turned \o junk
    BY <1>7 DEF StaleUnit
  <2>2. PICK junk \in Seq(J) : Len(junk) = 2 /\ outfile = Turned \o junk
    BY <2>1
  <2>3. IsPrefix(Turned, outfile) /\ Len(outfile) - Len(Turned) = Len(junk)
    BY <1>5, <2>2, StaleIsBehind
  <2> QED
    BY <1>4, <2>2, <2>3
<1>8. outfile = Turned \/ StaleUnit(outfile)
  BY LeAtEnd DEF LeProgress
<1> QED
  BY <1>6, <1>7, <1>8

-----------------------------------------------------------------------------
(* From UTF-16                                                             *)

\* The texts have no surrogates.  The loop takes a code point on the edge in
\* two pieces, and any other whole.
Scalar == {cp \in CodePoint : cp < 55296 \/ cp > 57343}
Item == {x \in CodePoint : ~OnEdge(x) /\ ~is_upper_surrogate_pair(x)}
SplitF == [cp \in Scalar |-> IF OnEdge(cp) THEN Units(cp) ELSE One(cp)]
ItemF(enc) == [x \in Item |-> Encoded(enc, x)]
WipeF == [x \in Item |-> IF x = BOM THEN <<>> ELSE Utf8Bytes(x)]
Items == Spelled(SplitF, One(BOM) \o text)

\* A single unit that is not taken for an upper one is an item.
LEMMA UnitItem ==
    ASSUME NEW u \in Unit, ~is_upper_surrogate_pair(u)
    PROVE  u \in Item /\ u \in CodePoint /\ Single(u)
<1>1. u \in Nat /\ u <= 65535
  BY UnitIs, SMT
<1>2. u \in CodePoint
  BY <1>1, CodePointIs, SMT
<1>3. Single(u) /\ ~OnEdge(u)
  BY <1>1, SMT DEF OnEdge, Single
<1> QED
  BY <1>2, <1>3 DEF Item

\* The surrogates of a code point of which the upper one passes the test.
LEMMA PairMade ==
    ASSUME NEW cp \in CodePoint, NEW up \in Unit, NEW low \in Unit,
           Surrogates(cp, up, low), is_upper_surrogate_pair(up)
    PROVE  utf16_glyph_to_code_point(up, low) = cp /\ low # BOM /\ cp # BOM
<1>1. cp \in Nat /\ cp <= 1114111 /\ up \in Nat /\ low \in Nat
  BY CodePointIs, UnitIs, SMT
<1>2. /\ Units(cp) = <<up, low>> /\ 55296 <= up /\ up <= 56319
      /\ 56320 <= low /\ low <= 57343
  BY DEF Surrogates
<1>3. low # BOM
  BY <1>1, <1>2, SMT DEF BOM
<1>4. ~Single(cp)
  <2>1. ASSUME Single(cp)
        PROVE  FALSE
    <3>1. Units(cp) = <<cp>>
      BY <2>1, UnitsAre
    <3>2. <<cp>> # <<up, low>>
      BY Zenon DEF One
    <3> QED
      BY <1>2, <3>1, <3>2
  <2> QED
    BY <2>1
<1>5. code_point_to_utf16_glyph(cp) = <<up, low>>
  BY <1>2, UnitsAre
<1>6. utf16_glyph_to_code_point(up, low)
        = IF 66560 <= cp /\ cp <= 1113087 THEN cp ELSE low
  <2> DEFINE units == code_point_to_utf16_glyph(cp)
  <2>1. utf16_glyph_to_code_point(units[1], units[2])
          = IF 66560 <= cp /\ cp <= 1113087 THEN cp ELSE units[2]
    <3>1. 65536 <= cp
      BY <1>1, <1>4, SMT DEF Single
    <3> QED
      BY <1>1, <3>1, SurrogateRoundTrip, SMT
  <2>2. units[1] = up /\ units[2] = low
    BY <1>5
  <2> QED
    BY <2>1, <2>2
<1>7. utf16_glyph_to_code_point(up, low)
        = (up - 55296) * 1024 + (low - 56320) + 65536
  BY SMT DEF utf16_glyph_to_code_point, HiSurrogate, LoSurrogate
<1>8. (up - 55296) * 1024 + (low - 56320) + 65536 # low
  BY <1>1, <1>2, SMT
<1>9. cp # BOM
  BY <1>4, SMT DEF BOM, Single
<1> QED
  BY <1>3, <1>6, <1>7, <1>8, <1>9, SMT

\* Two elements one behind the other.
LEMMA OneAndOne ==
    ASSUME NEW S, NEW a \in S, NEW b \in S
    PROVE  /\ One(a) \in Seq(S) /\ One(b) \in Seq(S)
           /\ <<a, b>> = One(a) \o One(b)
<1>1. <<a>> \in Seq(S) /\ One(a) = <<a>>
  BY DEF One
<1>2. <<a>> \in Seq(S) /\ <<a, b>> = Append(<<a>>, b)
  OBVIOUS
<1>3. Append(One(a), b) = One(a) \o One(b) /\ One(b) \in Seq(S)
  BY <1>1, OneBehind
<1> QED
  BY <1>1, <1>2, <1>3

\* What the loop takes at once.
LEMMA ItemKinds ==
    ASSUME NEW enc \in Wide, NEW x \in Item
    PROVE  \/ /\ x \in Unit /\ ~is_upper_surrogate_pair(x)
              /\ Encoded(enc, x) = InOrder(enc, x)
           \/ \E up, low \in Unit :
                 /\ Surrogates(x, up, low) /\ is_upper_surrogate_pair(up)
                 /\ Encoded(enc, x) = InOrder(enc, up) \o InOrder(enc, low)
<1>1. x \in CodePoint /\ ~OnEdge(x) /\ ~is_upper_surrogate_pair(x)
  BY DEF Item
<1>2. CASE Single(x)
  <2>1. x \in Unit
    BY <1>1, <1>2, UnitsAre
  <2>2. Encoded(enc, x) = InOrder(enc, x)
    BY <1>1, <1>2, EncodedWide
  <2> QED
    BY <1>1, <2>1, <2>2
<1>3. CASE ~Single(x)
  <2>1. PICK up \in Unit, low \in Unit :
               /\ Surrogates(x, up, low)
               /\ Encoded(enc, x) = InOrder(enc, up) \o InOrder(enc, low)
    BY <1>1, <1>3, EncodedWide
  <2>2. Units(x)[1] = up
    BY <2>1 DEF Surrogates
  <2>3. x \in Nat
    BY <1>1, CodePointIs, SMT
  <2>4. is_upper_surrogate_pair(Units(x)[1])
    BY <1>1, <1>3, <2>3, SMT DEF OnEdge, Single
  <2>5. is_upper_surrogate_pair(up)
    BY <2>2, <2>4, Zenon
  <2> QED
    BY <2>1, <2>5
<1> QED
  BY <1>2, <1>3

\* A code point of a text in pieces.
LEMMA SplitIs ==
    ASSUME NEW cp \in Scalar, NEW enc \in Wide
    PROVE  /\ SplitF[cp] \in Seq(Item)
           /\ Encoded(enc, cp) = Spelled(ItemF(enc), SplitF[cp])
<1> DEFINE G == ItemF(enc)
<1>1. cp \in CodePoint /\ (cp < 55296 \/ cp > 57343)
  BY DEF Scalar
<1>2. Speller(G, Item, Byte) /\ \A x \in Item : G[x] = Encoded(enc, x)
  <2>1. \A x \in Item : x \in CodePoint
    BY DEF Item
  <2>2. \A x \in Item : Encoded(enc, x) \in Seq(Byte)
    BY <2>1, EncodedWide
  <2> QED
    BY <2>2 DEF Speller, ItemF
<1> HIDE DEF G
<1>3. CASE ~OnEdge(cp)
  <2>1. ~is_upper_surrogate_pair(cp)
    <3>1. cp \in Nat
      BY <1>1, CodePointIs, SMT
    <3> QED
      BY <1>1, <3>1, SMT DEF is_upper_surrogate_pair
  <2>2. cp \in Item
    BY <1>1, <1>3, <2>1 DEF Item
  <2>3. SplitF[cp] = One(cp)
    BY <1>3 DEF SplitF
  <2>4. One(cp) \in Seq(Item)
    BY <2>2 DEF One
  <2>5. Spelled(G, One(cp)) = G[cp]
    BY <1>2, <2>2, SpelledShort
  <2>6. G[cp] = Encoded(enc, cp)
    BY <1>2, <2>2
  <2> QED
    BY <2>3, <2>4, <2>5, <2>6 DEF G
<1>4. CASE OnEdge(cp)
  <2>1. ~Single(cp) /\ ~is_upper_surrogate_pair(Units(cp)[1])
    <3>1. ~Single(cp)
      <4>1. cp \in Nat
        BY <1>1, CodePointIs, SMT
      <4> QED
        BY <1>4, <4>1, SMT DEF OnEdge, Single
    <3>2. ~is_upper_surrogate_pair(Units(cp)[1])
      BY <1>4, SMT DEF OnEdge
    <3> QED
      BY <3>1, <3>2, SMT
  <2>2. PICK up \in Unit, low \in Unit :
               /\ Surrogates(cp, up, low)
               /\ Encoded(enc, cp) = InOrder(enc, up) \o InOrder(enc, low)
    BY <1>1, <2>1, EncodedWide
  <2>3. Units(cp) = <<up, low>> /\ 56320 <= low
    BY <2>2 DEF Surrogates
  <2>4. ~is_upper_surrogate_pair(up)
    <3>1. Units(cp)[1] = up
      BY <2>2 DEF Surrogates
    <3>2. ~is_upper_surrogate_pair(Units(cp)[1])
      BY <2>1, SMT
    <3> QED
      BY <3>1, <3>2, Zenon
  <2>5. ~is_upper_surrogate_pair(low)
    <3>1. low \in Nat
      BY UnitIs, SMT
    <3> QED
      BY <2>3, <3>1, SMT DEF is_upper_surrogate_pair
  <2>6. /\ up \in Item /\ up \in CodePoint /\ Single(up)
        /\ low \in Item /\ low \in CodePoint /\ Single(low)
    BY <2>4, <2>5, UnitItem, SMT
  <2>7. SplitF[cp] = One(up) \o One(low) /\ One(low) \in Seq(Item) /\ One(up) \in Seq(Item)
    <3>1. SplitF[cp] = <<up, low>>
      BY <1>4, <2>3 DEF SplitF
    <3>2. up \in Item /\ low \in Item
      BY <2>6, SMT
    <3> QED
      BY <3>1, <3>2, OneAndOne
  <2>8. SplitF[cp] \in Seq(Item)
    <3>1. One(up) \o One(low) \in Seq(Item)
      BY <2>7, ConcatProperties
    <3> QED
      BY <2>7, <3>1
  <2>9. Spelled(G, One(up) \o One(low)) = G[up] \o Spelled(G, One(low))
    BY <1>2, <2>6, <2>7, SpelledMore
  <2>10. Spelled(G, One(low)) = G[low]
    BY <1>2, <2>6, SpelledShort
  <2>11. G[up] = InOrder(enc, up) /\ G[low] = InOrder(enc, low)
    <3>1. Encoded(enc, up) = InOrder(enc, up) /\ Encoded(enc, low) = InOrder(enc, low)
      BY <2>6, EncodedWide
    <3>2. G[up] = Encoded(enc, up) /\ G[low] = Encoded(enc, low)
      BY <1>2, <2>6
    <3> QED
      BY <3>1, <3>2
  <2> QED
    BY <2>2, <2>7, <2>8, <2>9, <2>10, <2>11 DEF G
<1> QED
  BY <1>3, <1>4

\* What the loop from UTF-16 reads and writes.
LEMMA ItemSpellers ==
    ASSUME NEW enc \in Wide
    PROVE  /\ Speller(SplitF, Scalar, Item)
           /\ Speller(ItemF(enc), Item, Byte)
           /\ Speller(WipeF, Item, Byte)
           /\ \A x \in Item : /\ ItemF(enc)[x] = Encoded(enc, x)
                              /\ ItemF(enc)[x] # <<>>
                              /\ WipeF[x] = IF x = BOM THEN <<>>
                                                       ELSE Utf8Bytes(x)
<1>1. \A x \in Item : x \in CodePoint
  BY DEF Item
<1>2. \A x \in Item : Encoded(enc, x) \in Seq(Byte) /\ Encoded(enc, x) # <<>>
  BY <1>1, EncodedWide, EncodedTextIs DEF Formats, Wide
<1>3. \A x \in Item : Utf8Bytes(x) \in Seq(Byte)
  BY <1>1, Utf8BytesAre
<1>4. \A cp \in Scalar : SplitF[cp] \in Seq(Item)
  BY SplitIs
<1>5. Speller(SplitF, Scalar, Item)
  BY <1>4 DEF Speller, SplitF
<1>6. Speller(ItemF(enc), Item, Byte)
  BY <1>2 DEF Speller, ItemF
<1>7. Speller(WipeF, Item, Byte)
  BY <1>3 DEF Speller, WipeF
<1>8. \A x \in Item : /\ ItemF(enc)[x] = Encoded(enc, x)
                      /\ WipeF[x] = IF x = BOM THEN <<>> ELSE Utf8Bytes(x)
  BY DEF ItemF, WipeF
<1> QED
  BY <1>2, <1>5, <1>6, <1>7, <1>8

\* How far the loop is: text and file are taken item by item.
WideGoing(enc, in, out) ==
    Halfway(Item, ItemF(enc), WipeF, Items, <<>>, in, out)

\* The file is the encoding of the items, the first of which is the mark.
LEMMA Itemised ==
    ASSUME Sources, written \in Wide
    PROVE  /\ text \in Seq(Scalar)
           /\ Spelled(SplitF, text) \in Seq(Item)
           /\ Items \in Seq(Item)
           /\ Items = One(BOM) \o Spelled(SplitF, text)
           /\ BOM \in Item
           /\ Input = Spelled(ItemF(written), Items)
<1> DEFINE F == SplitF
           G == ItemF(written)
           H == [cp \in Scalar |-> Encoded(written, cp)]
           all == One(BOM) \o text
<1>1. text \in Seq(Scalar)
  <2>1. /\ text \in Seq(CodePoint)
        /\ \A i \in DOMAIN text : text[i] < 55296 \/ text[i] > 57343
    <3>1. text \in Texts
      BY DEF Sources
    <3> QED
      BY <3>1, TextsAssumption, SMT
  <2>2. \A i \in DOMAIN text : text[i] \in Scalar
    <3>1. ASSUME NEW i \in DOMAIN text
          PROVE  text[i] \in Scalar
      <4>1. text[i] \in CodePoint
        BY <2>1, ElementOfSeq
      <4>2. text[i] < 55296 \/ text[i] > 57343
        BY <2>1, SMT
      <4> QED
        BY <4>1, <4>2, SMT DEF Scalar
    <3> QED
      BY <3>1
  <2>3. Len(text) \in Nat /\ text \in [1 .. Len(text) -> CodePoint]
    BY <2>1
  <2>4. text \in [1 .. Len(text) -> Scalar]
    BY <2>2, <2>3
  <2> QED
    BY <2>3, <2>4, FunctionIsSeq
<1>2. BOM \in Scalar /\ ~OnEdge(BOM) /\ BOM \in Item
  <2>1. BOM \in CodePoint
    BY MarkBytes
  <2>2. BOM \in Scalar /\ ~OnEdge(BOM) /\ ~is_upper_surrogate_pair(BOM)
    BY <2>1, SMT DEF Scalar, OnEdge, is_upper_surrogate_pair, BOM
  <2> QED
    BY <2>1, <2>2 DEF Item
<1>3. /\ Speller(F, Scalar, Item) /\ Speller(G, Item, Byte)
  BY ItemSpellers
<1>4. F[BOM] = One(BOM)
  BY <1>2 DEF SplitF
<1>5. Speller(H, Scalar, Byte) /\ \A cp \in Scalar : H[cp] = Spelled(G, F[cp])
  <2>1. \A cp \in Scalar : Encoded(written, cp) = Spelled(G, F[cp])
    BY SplitIs
  <2>2. \A cp \in Scalar : Encoded(written, cp) \in Seq(Byte)
    BY EncodedWide DEF Scalar
  <2> HIDE DEF F, G
  <2> QED
    BY <2>1, <2>2 DEF Speller
<1>6. One(BOM) \in Seq(Scalar) /\ all \in Seq(Scalar)
  <2>1. One(BOM) \in Seq(Scalar)
    BY <1>2 DEF One
  <2> QED
    BY <1>1, <2>1, ConcatProperties
<1>7. Spelled(EncodeF(written), all) = Spelled(H, all)
  <2> HIDE DEF all
  <2>1. \A i \in DOMAIN all : all[i] \in Scalar
    BY <1>6
  <2>2. \A i \in DOMAIN all : EncodeF(written)[all[i]] = H[all[i]]
    BY <2>1 DEF EncodeF, Scalar
  <2>3. [i \in DOMAIN all |-> EncodeF(written)[all[i]]] = [i \in DOMAIN all |-> H[all[i]]]
    BY <2>2
  <2> QED
    BY <2>3 DEF Spelled
<1> HIDE DEF F, G, H
<1>8. Spelled(H, all) = Spelled(G, Spelled(F, all))
  <2> HIDE DEF all
  <2> QED
    BY <1>3, <1>5, <1>6, SpelledTwice
<1>9. Input = Spelled(EncodeF(written), all)
  BY WideInput
<1>10. Spelled(F, text) \in Seq(Item) /\ Spelled(F, all) \in Seq(Item)
  <2> HIDE DEF all
  <2> QED
    BY <1>1, <1>3, <1>6, Letters
<1>11. Spelled(F, all) = F[BOM] \o Spelled(F, text)
  BY <1>1, <1>2, <1>3, SpelledMore
<1>12. Items = Spelled(F, all)
  BY DEF Items, F
<1> HIDE DEF all
<1>13. Input = Spelled(G, Items) /\ Items \in Seq(Item)
  BY <1>7, <1>8, <1>9, <1>10, <1>12
<1>14. Items = One(BOM) \o Spelled(F, text)
  BY <1>4, <1>11, <1>12
<1> QED
  BY <1>1, <1>2, <1>10, <1>13, <1>14 DEF F, G

\* The next item: it is at the head of the file and has its place in the text.
LEMMA WideTakes ==
    ASSUME Sources, written \in Wide, NEW in, NEW out, in # <<>>,
           WideGoing(written, in, out)
    PROVE  \E x \in Item, tail \in Seq(Byte) :
              /\ in = Encoded(written, x) \o tail
              /\ WideGoing(written, tail, out \o WipeF[x])
              /\ out \in Seq(Byte)
<1> DEFINE F == ItemF(written)
           G == WipeF
           none == <<>>
<1>1. /\ Speller(F, Item, Byte) /\ Speller(G, Item, Byte)
      /\ \A x \in Item : F[x] = Encoded(written, x)
      /\ Items \in Seq(Item) /\ none \in Seq(Byte)
  BY ItemSpellers, Itemised
<1>2. Halfway(Item, F, G, Items, none, in, out)
  BY DEF WideGoing
<1> HIDE DEF F, G, none
<1>3. PICK x \in Item, tail \in Seq(Byte) :
             /\ in = F[x] \o tail
             /\ Halfway(Item, F, G, Items, none, tail, out \o G[x])
  <2>1. /\ Speller(F, Item, Byte) /\ Speller(G, Item, Byte)
        /\ Items \in Seq(Item) /\ none \in Seq(Byte)
    BY <1>1
  <2> QED
    BY <1>2, <2>1, HalfwayTakes
<1>4. out \in Seq(Byte)
  BY <1>1, <1>2, HalfwayOut
<1>5. F[x] = Encoded(written, x)
  BY <1>1
<1>6. WideGoing(written, tail, out \o WipeF[x])
  BY <1>3 DEF WideGoing, F, G, none
<1> QED
  BY <1>3, <1>4, <1>5, <1>6

\* The file begins with the mark.
LEMMA InputHead ==
    ASSUME Sources, written \in Wide, encoding_from = written, infile = Input
    PROVE  UnitAt(1) = BOM
<1>1. PICK more \in Seq(Byte) : infile = Encoded(written, BOM) \o more
  BY InputIs
<1>2. BOM \in CodePoint /\ BOM \in Unit /\ Single(BOM)
  BY MarkBytes, SMT DEF BOM, Single
<1>3. Encoded(written, BOM) = InOrder(written, BOM)
  BY <1>2, EncodedWide
<1>4. infile = InOrder(written, BOM) \o more /\ BOM \in Unit
  BY <1>1, <1>3, MarkBytes
<1> QED
  BY <1>4, HeadUnit

\* A unit on its own is written as the item it is.
LEMMA WideUnitTurn ==
    ASSUME Sources, written \in Wide, encoding_from = written, Utf16UnitToUtf8,
           WideGoing(written, infile, outfile),
           infile = Input \/ lower \in {0, BOM}
    PROVE  WideGoing(written, infile', outfile') /\ lower' \in {0, BOM}
<1>1. infile # <<>> /\ ~is_upper_surrogate_pair(UnitAt(1))
  BY DEF Utf16UnitToUtf8, Turn
<1>2. PICK x \in Item, tail \in Seq(Byte) :
             /\ infile = Encoded(written, x) \o tail
             /\ WideGoing(written, tail, outfile \o WipeF[x])
             /\ outfile \in Seq(Byte)
  BY <1>1, WideTakes
<1>3. x \in Unit /\ Encoded(written, x) = InOrder(written, x)
  <2>1. ASSUME NEW up \in Unit, NEW low \in Unit, is_upper_surrogate_pair(up),
               Encoded(written, x) = InOrder(written, up) \o InOrder(written, low)
        PROVE  FALSE
    <3> DEFINE a == InOrder(written, up)
               b == InOrder(written, low)
    <3>1. a \in Seq(Byte) /\ b \in Seq(Byte) /\ infile = (a \o b) \o tail
      BY <1>2, <2>1, InOrderIs
    <3> HIDE DEF a, b
    <3>2. (a \o b) \o tail = a \o (b \o tail) /\ b \o tail \in Seq(Byte)
      BY <3>1, ConcatAssociative, ConcatProperties, SMTT(30)
    <3> DEFINE rest == b \o tail
    <3>3. rest \in Seq(Byte) /\ infile = InOrder(written, up) \o rest
      BY <3>1, <3>2 DEF a
    <3> HIDE DEF rest
    <3>4. UnitAt(1) = up
      BY <3>3, HeadUnit
    <3> QED
      BY <1>1, <2>1, <3>4, Zenon
  <2> QED
    BY <2>1, ItemKinds
<1>4. UnitAt(1) = x /\ SubSeq(infile, 3, Len(infile)) = tail
  <2>1. infile = InOrder(written, x) \o tail /\ x \in Unit
    BY <1>2, <1>3
  <2> QED
    BY <2>1, HeadUnit
<1>5. infile' = tail /\ WriteUtf8(lower, x)
  BY <1>4 DEF Utf16UnitToUtf8
<1>6. /\ WipeF[x] = IF x = BOM THEN <<>> ELSE Utf8Bytes(x)
      /\ x \in CodePoint
  BY ItemSpellers DEF Item
<1>7. CASE x = BOM
  <2>1. outfile' = outfile /\ lower' = BOM
    BY <1>5, <1>7 DEF WriteUtf8
  <2>2. outfile \o WipeF[x] = outfile
    <3>1. WipeF[x] = <<>>
      BY <1>6, <1>7
    <3>2. outfile \o <<>> = outfile
      BY <1>2, ConcatEmptySeq
    <3> QED
      BY <3>1, <3>2
  <2>3. WideGoing(written, infile', outfile')
    BY <1>2, <1>5, <2>1, <2>2
  <2> QED
    BY <2>1, <2>3
<1>8. CASE x # BOM
  <2>1. lower \in {0, BOM}
    BY <1>4, <1>8, InputHead
  <2>2. ~is_upper_surrogate_pair(lower)
    BY <2>1, SMT DEF is_upper_surrogate_pair, BOM
  <2>3. utf16_glyph_to_code_point(lower, x) = x
    BY <2>2, SMT DEF utf16_glyph_to_code_point
  <2>4. outfile' = outfile \o code_point_to_utf8_glyph(x) /\ lower' = 0
    BY <1>5, <1>8, <2>3 DEF WriteUtf8
  <2>5. code_point_to_utf8_glyph(x) = WipeF[x]
    BY <1>6, <1>8, Utf8BytesAre
  <2>6. WideGoing(written, infile', outfile')
    BY <1>2, <1>5, <2>4, <2>5
  <2> QED
    BY <2>4, <2>6
<1> QED
  BY <1>7, <1>8

\* A pair is written as the code point it is.
LEMMA WidePairTurn ==
    ASSUME Sources, written \in Wide, encoding_from = written, Utf16PairToUtf8,
           WideGoing(written, infile, outfile)
    PROVE  WideGoing(written, infile', outfile') /\ lower' \in {0, BOM}
<1>1. infile # <<>> /\ is_upper_surrogate_pair(UnitAt(1))
  BY DEF Utf16PairToUtf8, Turn
<1>2. PICK x \in Item, tail \in Seq(Byte) :
             /\ infile = Encoded(written, x) \o tail
             /\ WideGoing(written, tail, outfile \o WipeF[x])
  BY <1>1, WideTakes
<1>3. PICK up \in Unit, low \in Unit :
             /\ Surrogates(x, up, low) /\ is_upper_surrogate_pair(up)
             /\ Encoded(written, x) = InOrder(written, up) \o InOrder(written, low)
  <2>1. ASSUME x \in Unit, ~is_upper_surrogate_pair(x),
               Encoded(written, x) = InOrder(written, x)
        PROVE  FALSE
    <3>1. infile = InOrder(written, x) \o tail /\ x \in Unit
      BY <1>2, <2>1
    <3>2. UnitAt(1) = x
      BY <3>1, HeadUnit
    <3> QED
      BY <1>1, <2>1, <3>2, Zenon
  <2> QED
    BY <2>1, ItemKinds
<1>4. infile = InOrder(written, up) \o (InOrder(written, low) \o tail)
  <2> DEFINE a == InOrder(written, up)
             b == InOrder(written, low)
  <2>1. a \in Seq(Byte) /\ b \in Seq(Byte) /\ infile = (a \o b) \o tail
    BY <1>2, <1>3, InOrderIs
  <2> HIDE DEF a, b
  <2>2. a \in Seq(Byte) /\ b \in Seq(Byte)
    BY <2>1
  <2>3. (a \o b) \o tail = a \o (b \o tail)
    BY <2>2, ConcatAssociative, SMTT(30)
  <2> QED
    BY <2>1, <2>3 DEF a, b
<1>5. UnitAt(1) = up
  <2> DEFINE rest == InOrder(written, low) \o tail
  <2>1. InOrder(written, low) \in Seq(Byte)
    BY InOrderIs
  <2>2. rest \in Seq(Byte)
    BY <2>1, ConcatProperties
  <2>3. infile = InOrder(written, up) \o rest
    BY <1>4
  <2> HIDE DEF rest
  <2> QED
    BY <2>2, <2>3, HeadUnit
<1>6. UnitAt(3) = low /\ SubSeq(infile, 5, Len(infile)) = tail
  BY <1>4, SecondUnit
<1>7. infile' = tail /\ WriteUtf8(up, low)
  BY <1>5, <1>6 DEF Utf16PairToUtf8
<1>8. x \in CodePoint /\ WipeF[x] = IF x = BOM THEN <<>> ELSE Utf8Bytes(x)
  BY ItemSpellers DEF Item
<1>9. utf16_glyph_to_code_point(up, low) = x /\ low # BOM /\ x # BOM
  BY <1>3, <1>8, PairMade
<1>10. outfile' = outfile \o code_point_to_utf8_glyph(x) /\ lower' = 0
  BY <1>7, <1>9 DEF WriteUtf8
<1>11. code_point_to_utf8_glyph(x) = WipeF[x]
  BY <1>8, <1>9, Utf8BytesAre
<1>12. WideGoing(written, infile', outfile')
  BY <1>2, <1>7, <1>10, <1>11
<1> QED
  BY <1>10, <1>12

\* The loop begins with the whole file and no mark of its own.
LEMMA WideStart ==
    ASSUME Sources, written \in Wide, encoding_to = "UTF8"
    PROVE  WideGoing(written, Input, Mark)
<1> DEFINE F == ItemF(written)
           none == <<>>
<1>1. Mark = none
  BY DEF Mark
<1>2. Input = Spelled(F, Items) /\ Items \in Seq(Item) /\ none \in Seq(Byte)
  BY Itemised
<1> HIDE DEF F, none
<1>3. Halfway(Item, F, WipeF, Items, none, Spelled(F, Items), none)
  BY <1>2, HalfwayBegins
<1> QED
  BY <1>1, <1>2, <1>3 DEF WideGoing, F, none

\* And ends with what the property says.
LEMMA WideEnd ==
    ASSUME Sources, written \in Wide, WideGoing(written, <<>>, outfile)
    PROVE  outfile = Flat(Flat(text, LAMBDA cp : IF OnEdge(cp) THEN Units(cp)
                                                               ELSE <<cp>>),
                          LAMBDA cp : IF cp = BOM THEN <<>> ELSE Utf8Bytes(cp))
<1> DEFINE F == ItemF(written)
           G == WipeF
           s == Spelled(SplitF, text)
           none == <<>>
<1>1. /\ Speller(F, Item, Byte) /\ Speller(G, Item, Byte)
      /\ \A x \in Item : F[x] # <<>>
      /\ \A x \in Item : G[x] = IF x = BOM THEN <<>> ELSE Utf8Bytes(x)
  BY ItemSpellers
<1>2. /\ text \in Seq(Scalar) /\ s \in Seq(Item) /\ Items \in Seq(Item)
      /\ Items = One(BOM) \o s /\ BOM \in Item
  BY Itemised
<1>3. Flat(text, LAMBDA cp : IF OnEdge(cp) THEN Units(cp) ELSE <<cp>>) = s
  <2>1. \A i \in DOMAIN text : text[i] \in Scalar
    BY <1>2
  <2>2. [i \in DOMAIN text |-> IF OnEdge(text[i]) THEN Units(text[i]) ELSE <<text[i]>>]
          = [i \in DOMAIN text |-> SplitF[text[i]]]
    BY <2>1 DEF SplitF, One
  <2> QED
    BY <2>2 DEF Flat, Spelled
<1> HIDE DEF s
<1>4. Flat(s, LAMBDA cp : IF cp = BOM THEN <<>> ELSE Utf8Bytes(cp)) = Spelled(G, s)
  <2> HIDE DEF G
  <2>1. \A i \in DOMAIN s : s[i] \in Item
    BY <1>2
  <2>2. [i \in DOMAIN s |-> IF s[i] = BOM THEN <<>> ELSE Utf8Bytes(s[i])]
          = [i \in DOMAIN s |-> G[s[i]]]
    BY <1>1, <2>1
  <2> QED
    BY <2>2 DEF Flat, Spelled
<1>5. outfile = Spelled(G, s)
  <2>1. Halfway(Item, F, G, Items, none, <<>>, outfile)
    BY DEF WideGoing
  <2> HIDE DEF F, G, none
  <2>2. outfile = none \o Spelled(G, Items)
    <3>1. Speller(F, Item, Byte) /\ \A x \in Item : F[x] # <<>>
      BY <1>1
    <3>2. Items \in Seq(Item)
      BY <1>2
    <3> QED
      BY <2>1, <3>1, <3>2, HalfwayEnds
  <2>3. Spelled(G, s) \in Seq(Byte)
    BY <1>1, <1>2, Letters
  <2>4. Spelled(G, One(BOM) \o s) = G[BOM] \o Spelled(G, s)
    <3>1. Speller(G, Item, Byte)
      BY <1>1
    <3> QED
      BY <1>2, <3>1, SpelledMore
  <2>5. G[BOM] = none
    BY <1>1, <1>2 DEF none
  <2>6. none \o Spelled(G, s) = Spelled(G, s)
    BY <2>3, ConcatEmptySeq DEF none
  <2> QED
    BY <1>2, <2>2, <2>4, <2>5, <2>6
<1> QED
  BY <1>3, <1>4, <1>5, Zenon

-----------------------------------------------------------------------------
(* The invariant                                                           *)

Converting == pc \in {"convert", "done"}

\* How far each kind of conversion is.
Utf8Part == Converting /\ written = "UTF8" /\ encoding_to \in Wide =>
                Utf8Progress(encoding_to, infile, outfile)
LePart == Converting /\ written = "UTF16LE" /\ encoding_to = "UTF16BE" =>
              LeProgress(infile, outfile)
WidePart == Converting /\ written \in Wide /\ encoding_to = "UTF8" =>
                /\ WideGoing(written, infile, outfile)
                /\ infile = Input \/ lower \in {0, BOM}

\* Nothing has been read before the conversion, check_bom() has found the
\* encoding of the file, which is no file without a mark, and a conversion
\* that is over has read all of it except the one that ends its loop too
\* early.
Prepared == /\ encoding_to \in Formats \cup {NULL}
            /\ pc \in {"args", "bom"} => infile \in {Input, Unmarked}
            /\ pc = "open" => infile = Input
            /\ Converting \/ pc = "open" => encoding_from = written
            /\ pc = "done" => \/ infile = <<>>
                              \/ written = "UTF16BE" /\ encoding_to = "UTF16LE"

IInv == Sources /\ Prepared /\ Utf8Part /\ LePart /\ WidePart

\* The text and its file do not change, nor does what is to be made of them.
LEMMA SourcesStay ==
    ASSUME UNCHANGED source
    PROVE  /\ text' = text /\ written' = written /\ cut' = cut
           /\ Sources => Sources'
           /\ Input' = Input
           /\ Kept' = Kept /\ Fragment' = Fragment
           /\ AllUnits' = AllUnits /\ Turned' = Turned
           /\ Items' = Items
<1>1. text' = text /\ written' = written /\ cut' = cut
  BY DEF source
<1>2. Sources => Sources'
  BY <1>1 DEF Sources
<1>3. Input' = Input
  BY <1>1 DEF Input
<1>4. Kept' = Kept /\ Fragment' = Fragment
  BY <1>1 DEF Kept, Body, Fragment
<1>5. AllUnits' = AllUnits
  BY <1>1 DEF AllUnits
<1>6. Turned' = Turned
  BY <1>5 DEF Turned
<1>7. Items' = Items
  BY <1>1 DEF Items
<1> QED
  BY <1>1, <1>2, <1>3, <1>4, <1>5, <1>6, <1>7

\* So the new state is where the new files are.
LEMMA PartsStay ==
    ASSUME UNCHANGED <<source, encoding_to>>
    PROVE  /\ Utf8Progress(encoding_to, infile', outfile') =>
                 Utf8Progress(encoding_to, infile, outfile)'
           /\ LeProgress(infile', outfile') => LeProgress(infile, outfile)'
           /\ WideGoing(written, infile', outfile') =>
                 WideGoing(written, infile, outfile)'
<1>1. /\ Kept' = Kept /\ Fragment' = Fragment
      /\ AllUnits' = AllUnits /\ Turned' = Turned /\ Items' = Items
      /\ written' = written /\ encoding_to' = encoding_to
  BY SourcesStay
<1>2. Utf8Progress(encoding_to, infile', outfile') =>
         Utf8Progress(encoding_to, infile, outfile)'
  <2>1. Utf8Going(encoding_to, infile', outfile') =>
           Utf8Going(encoding_to, infile, outfile)'
    BY <1>1 DEF Utf8Going
  <2>2. Utf8Over(encoding_to, infile', outfile') =>
           Utf8Over(encoding_to, infile, outfile)'
    <3>1. Utf8Whole(encoding_to)' = Utf8Whole(encoding_to)
      BY <1>1 DEF Utf8Whole
    <3> QED
      BY <1>1, <3>1 DEF Utf8Over
  <2> QED
    BY <2>1, <2>2 DEF Utf8Progress
<1>3. LeProgress(infile', outfile') => LeProgress(infile, outfile)'
  <2>1. LeGoing(infile', outfile') => LeGoing(infile, outfile)'
    BY <1>1 DEF LeGoing
  <2>2. StaleUnit(outfile') => StaleUnit(outfile)'
    BY <1>1 DEF StaleUnit
  <2> QED
    BY <2>1, <2>2 DEF LeProgress
<1>4. WideGoing(written, infile', outfile') => WideGoing(written, infile, outfile)'
  BY <1>1 DEF WideGoing
<1> QED
  BY <1>2, <1>3, <1>4

\* It holds at first.
LEMMA IInvBegins ==
    ASSUME Init
    PROVE  IInv
<1>1. Sources
  BY DEF Init, Sources
<1>2. pc = "args" /\ infile \in {Input, Unmarked} /\ encoding_to = NULL
  BY DEF Init
<1>3. ~Converting
  BY <1>2 DEF Converting
<1> QED
  BY <1>1, <1>2, <1>3 DEF IInv, Prepared, Utf8Part, LePart, WidePart

\* A step that leaves the file alone and starts no conversion.
LEMMA IInvQuiet ==
    ASSUME IInv, UNCHANGED <<source, infile>>,
           encoding_to' \in Formats \cup {NULL},
           pc' \in {"args", "bom", "usage", "failure", "crashed"},
           pc' \in {"args", "bom"} => pc = "args"
    PROVE  IInv'
<1>1. Sources' /\ Input' = Input
  BY SourcesStay DEF IInv
<1>2. ~Converting' /\ pc' # "open" /\ pc' # "done"
  BY DEF Converting
<1>3. pc' \in {"args", "bom"} => infile' \in {Input', Unmarked}
  BY <1>1 DEF IInv, Prepared
<1> QED
  BY <1>1, <1>2, <1>3 DEF IInv, Prepared, Utf8Part, LePart, WidePart

\* A turn of a loop keeps what does not belong to it.
LEMMA IInvTurn ==
    ASSUME IInv, NEW from, NEW to, Turn(from, to), pc' = pc
    PROVE  /\ Sources' /\ Prepared'
           /\ UNCHANGED <<source, encoding_to>>
           /\ written' = written /\ written = from /\ encoding_to \in to
           /\ infile # <<>>
           /\ Sources /\ Converting
<1>1. /\ UNCHANGED <<source, encoding_to>> /\ UNCHANGED encoding_from
      /\ pc = "convert" /\ infile # <<>>
      /\ encoding_from = from /\ encoding_to \in to
  BY DEF Turn, state
<1>2. Sources' /\ written' = written
  BY <1>1, SourcesStay DEF IInv
<1>3. Converting /\ Converting'
  BY <1>1 DEF Converting
<1>4. Sources /\ encoding_from = written /\ encoding_to \in Formats \cup {NULL}
  BY <1>3 DEF IInv, Prepared
<1>5. Prepared'
  BY <1>1, <1>2, <1>4 DEF Prepared
<1> QED
  BY <1>1, <1>2, <1>3, <1>4, <1>5

\* The arguments and the first bytes of the file.
LEMMA IInvParse ==
    ASSUME IInv, Parse
    PROVE  IInv'
<1>1. encoding_to \in Formats \cup {NULL}
  BY DEF IInv, Prepared
<1>2. CASE NoArguments
  BY <1>1, <1>2, IInvQuiet DEF NoArguments, Stop, state
<1>3. CASE ParseEncoding
  BY <1>1, <1>3, IInvQuiet DEF ParseEncoding, Parsing
<1>4. CASE ParseFails
  BY <1>1, <1>4, IInvQuiet DEF ParseFails, Parsing, Stop, state
<1>5. CASE ParseName
  BY <1>1, <1>5, IInvQuiet DEF ParseName, Parsing
<1>6. CASE ParseEnd
  <2>1. /\ UNCHANGED <<source, infile, encoding_to>> /\ pc = "args"
        /\ pc' \in {"crashed", "usage", "bom"}
    BY <1>6 DEF ParseEnd, Stop, state
  <2> QED
    BY <1>1, <2>1, IInvQuiet
<1> QED
  BY <1>2, <1>3, <1>4, <1>5, <1>6 DEF Parse

\* The mark tells the encoding the file is in.
LEMMA IInvCheckBom ==
    ASSUME IInv, CheckBom
    PROVE  IInv'
<1>1. /\ UNCHANGED <<source, infile, encoding_to>>
      /\ pc = "bom" /\ pc' = "open" /\ encoding_from' = Recognise(infile)
      /\ Recognise(infile) # NULL
  BY DEF CheckBom, state
<1>2. Sources /\ infile = Input
  <2>1. infile # Unmarked
    BY <1>1, SMT DEF Recognise, Unmarked
  <2> QED
    BY <1>1, <2>1 DEF IInv, Prepared
<1>3. Sources' /\ Input' = Input /\ written' = written
  BY <1>1, <1>2, SourcesStay
<1>4. encoding_from' = written'
  BY <1>1, <1>2, <1>3, Recognised
<1>5. ~Converting' /\ pc' # "done" /\ infile' = Input'
  BY <1>1, <1>2, <1>3 DEF Converting
<1>6. encoding_to' \in Formats \cup {NULL}
  BY <1>1 DEF IInv, Prepared
<1> QED
  BY <1>3, <1>4, <1>5, <1>6 DEF IInv, Prepared, Utf8Part, LePart, WidePart

\* A conversion begins.
LEMMA IInvStart ==
    ASSUME IInv, Start
    PROVE  IInv'
<1>1. /\ UNCHANGED <<source, encoding_to>> /\ UNCHANGED encoding_from
      /\ pc = "open" /\ pc' = "convert"
      /\ outfile' = Mark /\ infile' = infile
  BY DEF Start, state, Skipped
<1>2. /\ Sources /\ infile = Input /\ encoding_from = written
      /\ encoding_to \in Formats \cup {NULL}
  BY <1>1 DEF IInv, Prepared
<1>3. Sources' /\ Input' = Input /\ written' = written
  BY <1>1, <1>2, SourcesStay
<1>4. Prepared'
  BY <1>1, <1>2, <1>3 DEF Prepared
<1>5. infile' = Input /\ encoding_to' = encoding_to
  BY <1>1, <1>2
<1>6. Utf8Part'
  <2>1. ASSUME written = "UTF8", encoding_to \in Wide
        PROVE  Utf8Progress(encoding_to, infile, outfile)'
    <3>1. Utf8Progress(encoding_to, Input, Mark)
      BY <1>2, <2>1, Utf8Start
    <3> QED
      BY <1>1, <1>5, <3>1, PartsStay
  <2> QED
    BY <1>3, <1>5, <2>1 DEF Utf8Part
<1>7. LePart'
  <2>1. ASSUME written = "UTF16LE", encoding_to = "UTF16BE"
        PROVE  LeProgress(infile, outfile)'
    <3>1. LeProgress(Input, Mark)
      BY <1>2, <2>1, LeStart
    <3> QED
      BY <1>1, <1>5, <3>1, PartsStay
  <2> QED
    BY <1>3, <1>5, <2>1 DEF LePart
<1>8. WidePart'
  <2>1. ASSUME written \in Wide, encoding_to = "UTF8"
        PROVE  WideGoing(written, infile, outfile)'
    <3>1. WideGoing(written, Input, Mark)
      BY <1>2, <2>1, WideStart
    <3> QED
      BY <1>1, <1>5, <3>1, PartsStay
  <2>2. infile' = Input'
    BY <1>3, <1>5
  <2> QED
    BY <1>3, <1>5, <2>1, <2>2 DEF WidePart
<1> QED
  BY <1>3, <1>4, <1>6, <1>7, <1>8 DEF IInv

\* A file that stays as it is is copied.
LEMMA IInvTranscribe ==
    ASSUME IInv, Transcribe
    PROVE  IInv'
<1>1. /\ UNCHANGED <<source, encoding_to>> /\ UNCHANGED encoding_from
      /\ pc = "open" /\ pc' = "done" /\ infile' = <<>>
      /\ encoding_to = encoding_from
  BY DEF Transcribe, state
<1>2. /\ Sources /\ encoding_from = written
      /\ encoding_to \in Formats \cup {NULL}
  BY <1>1 DEF IInv, Prepared
<1>3. Sources' /\ written' = written
  BY <1>1, <1>2, SourcesStay
<1>4. Prepared'
  BY <1>1, <1>2, <1>3 DEF Prepared
<1>5. encoding_to' = written'
  BY <1>1, <1>2, <1>3
<1>6. Utf8Part' /\ LePart' /\ WidePart'
  BY <1>5 DEF Utf8Part, LePart, WidePart, Wide
<1> QED
  BY <1>3, <1>4, <1>6 DEF IInv

LEMMA IInvPrepare ==
    ASSUME IInv, Prepare
    PROVE  IInv'
<1>1. encoding_to \in Formats \cup {NULL}
  BY DEF IInv, Prepared
<1>2. CASE TooShort
  BY <1>1, <1>2, IInvQuiet DEF TooShort, Stop, state
<1>3. CASE NoFunction
  BY <1>1, <1>3, IInvQuiet DEF NoFunction, Stop, state
<1>4. CASE Unrecognised
  BY <1>1, <1>4, IInvQuiet DEF Unrecognised, Stop, state
<1> QED
  BY <1>2, <1>3, <1>4, IInvCheckBom, IInvStart, IInvTranscribe DEF Prepare

\* A turn of the loop from UTF-8.
LEMMA IInvFromUtf8 ==
    ASSUME IInv, NEW n \in 0 .. 3, FromUtf8(n)
    PROVE  IInv'
<1>1. Turn("UTF8", Wide) /\ pc' = pc
  BY DEF FromUtf8, Wide
<1>2. /\ Sources' /\ Prepared' /\ UNCHANGED <<source, encoding_to>>
      /\ written' = written /\ written = "UTF8" /\ encoding_to \in Wide
      /\ Sources /\ Converting
  BY <1>1, IInvTurn
<1>3. Utf8Progress(encoding_to, infile, outfile)
  BY <1>2 DEF IInv, Utf8Part
<1>4. Utf8Progress(encoding_to, infile', outfile')
  BY <1>2, <1>3, Utf8Turn
<1>5. Utf8Progress(encoding_to, infile, outfile)'
  BY <1>2, <1>4, PartsStay
<1>6. Utf8Part' /\ LePart' /\ WidePart'
  BY <1>2, <1>5 DEF Utf8Part, LePart, WidePart, Wide
<1> QED
  BY <1>2, <1>6 DEF IInv

\* A turn of a loop to UTF-8.
LEMMA IInvToUtf8 ==
    ASSUME IInv, Utf16PairToUtf8 \/ Utf16UnitToUtf8
    PROVE  IInv'
<1>1. Turn(encoding_from, {"UTF8"}) /\ pc' = pc
  BY DEF Utf16PairToUtf8, Utf16UnitToUtf8
<1>2. /\ Sources' /\ Prepared' /\ UNCHANGED <<source, encoding_to>>
      /\ written' = written /\ written = encoding_from /\ encoding_to = "UTF8"
      /\ Sources /\ Converting
  BY <1>1, IInvTurn
<1>3. CASE written \in Wide
  <2>1. /\ WideGoing(written, infile, outfile)
        /\ infile = Input \/ lower \in {0, BOM}
    BY <1>2, <1>3 DEF IInv, WidePart
  <2>2. WideGoing(written, infile', outfile') /\ lower' \in {0, BOM}
    BY <1>2, <1>3, <2>1, WidePairTurn, WideUnitTurn
  <2>3. WideGoing(written, infile, outfile)'
    BY <1>2, <2>2, PartsStay
  <2>4. Utf8Part' /\ LePart' /\ WidePart'
    BY <1>2, <2>2, <2>3 DEF Utf8Part, LePart, WidePart, Wide
  <2> QED
    BY <1>2, <2>4 DEF IInv
<1>4. CASE written = "UTF8"
  <2>1. Utf8Part' /\ LePart' /\ WidePart'
    BY <1>2, <1>4 DEF Utf8Part, LePart, WidePart, Wide
  <2> QED
    BY <1>2, <2>1 DEF IInv
<1> QED
  BY <1>2, <1>3, <1>4 DEF Sources, Formats, Wide

\* A turn of the loop from UTF-16LE to UTF-16BE.
LEMMA IInvLeToBe ==
    ASSUME IInv, LeToBeUnit \/ LeToBePair
    PROVE  IInv'
<1>1. Turn("UTF16LE", {"UTF16BE"}) /\ pc' = pc
  BY DEF LeToBeUnit, LeToBePair
<1>2. /\ Sources' /\ Prepared' /\ UNCHANGED <<source, encoding_to>>
      /\ written' = written /\ written = "UTF16LE" /\ encoding_to = "UTF16BE"
      /\ Sources /\ Converting
  BY <1>1, IInvTurn
<1>3. LeProgress(infile, outfile)
  BY <1>2 DEF IInv, LePart
<1>4. LeProgress(infile', outfile')
  BY <1>2, <1>3, LeUnitTurn, LePairTurn
<1>5. LeProgress(infile, outfile)'
  BY <1>2, <1>4, PartsStay
<1>6. Utf8Part' /\ LePart' /\ WidePart'
  BY <1>2, <1>5 DEF Utf8Part, LePart, WidePart
<1> QED
  BY <1>2, <1>6 DEF IInv

\* From UTF-16BE to UTF-16LE nothing of the text is written.
LEMMA IInvBeToLe ==
    ASSUME IInv, BeToLeUnit \/ BeToLePair
    PROVE  IInv'
<1>1. /\ UNCHANGED <<source, encoding_to>> /\ UNCHANGED encoding_from
      /\ pc = "convert" /\ pc' \in {"convert", "done"}
      /\ encoding_from = "UTF16BE" /\ encoding_to = "UTF16LE"
  BY DEF BeToLeUnit, BeToLePair, Turn, state
<1>2. Sources /\ encoding_from = written /\ encoding_to \in Formats \cup {NULL}
  BY <1>1 DEF IInv, Prepared, Converting
<1>3. Sources' /\ written' = written
  BY <1>1, <1>2, SourcesStay
<1>4. Prepared'
  BY <1>1, <1>2, <1>3 DEF Prepared
<1>5. Utf8Part' /\ LePart' /\ WidePart'
  BY <1>1, <1>2, <1>3 DEF Utf8Part, LePart, WidePart
<1> QED
  BY <1>3, <1>4, <1>5 DEF IInv

\* A step that leaves the files and the buffer alone.
LEMMA IInvRest ==
    ASSUME IInv, UNCHANGED <<source, encoding_to, encoding_from, infile,
                             outfile, lower>>,
           \/ pc' = pc
           \/ pc = "convert" /\ pc' = "done" /\ infile = <<>>
    PROVE  IInv'
<1>1. Sources' /\ Input' = Input /\ written' = written
  BY SourcesStay DEF IInv
<1>2. Converting' <=> Converting
  BY DEF Converting
<1>3. Prepared'
  BY <1>1, <1>2 DEF IInv, Prepared, Converting
<1>4. Utf8Part'
  <2>1. Utf8Progress(encoding_to, infile, outfile) =>
           Utf8Progress(encoding_to, infile, outfile)'
    BY PartsStay
  <2> QED
    BY <1>1, <1>2, <2>1 DEF IInv, Utf8Part
<1>5. LePart'
  <2>1. LeProgress(infile, outfile) => LeProgress(infile, outfile)'
    BY PartsStay
  <2> QED
    BY <1>1, <1>2, <2>1 DEF IInv, LePart
<1>6. WidePart'
  <2>1. WideGoing(written, infile, outfile) => WideGoing(written, infile, outfile)'
    BY PartsStay
  <2> QED
    BY <1>1, <1>2, <2>1 DEF IInv, WidePart
<1> QED
  BY <1>1, <1>3, <1>4, <1>5, <1>6 DEF IInv

\* Every step keeps it.
LEMMA IInvStep ==
    ASSUME IInv, [Next]_vars
    PROVE  IInv'
<1>1. CASE Convert
  <2>1. CASE EndOfFile
    BY <2>1, IInvRest DEF EndOfFile, Stop, state, bufs
  <2>2. CASE \E n \in 0 .. 3 : FromUtf8(n)
    BY <2>2, IInvFromUtf8
  <2> QED
    BY <1>1, <2>1, <2>2, IInvToUtf8, IInvLeToBe, IInvBeToLe DEF Convert
<1>2. CASE UNCHANGED vars
  BY <1>2, IInvRest DEF vars, state, bufs
<1> QED
  BY <1>1, <1>2, IInvParse, IInvPrepare DEF Next

\* And it says what the properties say.
LEMMA IInvSays ==
    ASSUME IInv
    PROVE  Utf8IsKept /\ Utf16IsKept /\ UnitsAreTurned
<1>1. Sources
  BY DEF IInv
<1>2. ASSUME NEW to \in {"UTF16LE", "UTF16BE"}, IsDone("UTF8", to)
      PROVE  LET kept == File(to, <<BOM>> \o IF cut THEN Front(text) ELSE text)
                 extra == Len(outfile) - Len(kept)
             IN /\ IsPrefix(kept, outfile)
                /\ extra \in (IF cut /\ Last(text) > 127 THEN {2, 4} ELSE {0})
  <2>1. /\ Converting /\ written = "UTF8" /\ encoding_to = to /\ to \in Wide
        /\ infile = <<>>
    BY <1>2 DEF IInv, Prepared, IsDone, Converting, Wide
  <2>2. Utf8Progress(to, <<>>, outfile)
    BY <2>1 DEF IInv, Utf8Part
  <2> QED
    BY <1>1, <2>1, <2>2, Utf8End
<1>3. ASSUME IsDone("UTF16LE", "UTF16BE")
      PROVE  LET all == File("UTF16BE", <<BOM>> \o text)
             IN IsPrefix(all, outfile) /\ Len(outfile) - Len(all) \in {0, 2}
  <2>1. /\ Converting /\ written = "UTF16LE" /\ encoding_to = "UTF16BE"
        /\ infile = <<>>
    BY <1>3 DEF IInv, Prepared, IsDone, Converting
  <2>2. LeProgress(<<>>, outfile)
    BY <2>1 DEF IInv, LePart
  <2> QED
    BY <1>1, <2>1, <2>2, LeEnd
<1>4. ASSUME NEW from \in {"UTF16LE", "UTF16BE"}, IsDone(from, "UTF8")
      PROVE  outfile =
               Flat(Flat(text, LAMBDA cp : IF OnEdge(cp) THEN Units(cp)
                                                         ELSE <<cp>>),
                    LAMBDA cp : IF cp = BOM THEN <<>> ELSE Utf8Bytes(cp))
  <2>1. /\ Converting /\ written = from /\ encoding_to = "UTF8"
        /\ infile = <<>> /\ written \in Wide
    BY <1>4 DEF IInv, Prepared, IsDone, Converting, Wide
  <2>2. WideGoing(written, <<>>, outfile)
    BY <2>1 DEF IInv, WidePart
  <2> QED
    BY <1>1, <2>1, <2>2, WideEnd
<1>5. Utf8IsKept
  BY <1>2, Zenon DEF Utf8IsKept
<1>6. UnitsAreTurned
  BY <1>3, Zenon DEF UnitsAreTurned
<1>7. Utf16IsKept
  BY <1>4, Zenon DEF Utf16IsKept
<1> QED
  BY <1>5, <1>6, <1>7

\* The invariant holds in every state.
LEMMA Invariant == Spec => []IInv
<1>1. Init => IInv
  BY IInvBegins
<1>2. IInv /\ [Next]_vars => IInv'
  BY IInvStep
<1> QED
  BY <1>1, <1>2, PTL DEF Spec

\* From UTF-8 every text comes out in UTF-16 whole and in order, behind a second
\* mark, and a file that ends within a code point gives one more.
THEOREM TextFromUtf8IsKept == Spec => []Utf8IsKept
<1>1. IInv => Utf8IsKept
  BY IInvSays
<1> QED
  BY <1>1, Invariant, PTL

\* From UTF-16 every text comes out in UTF-8 without any U+FEFF, a code point on
\* the edge as its two surrogates, whatever the buffers hold at first.
THEOREM TextFromUtf16IsKept == Spec => []Utf16IsKept
<1>1. IInv => Utf16IsKept
  BY IInvSays
<1> QED
  BY <1>1, Invariant, PTL

\* From UTF-16LE to UTF-16BE every unit of every text is turned, whichever way
\* the stale test goes, with at most one stale unit behind the end.
THEOREM TextIsTurned == Spec => []UnitsAreTurned
<1>1. IInv => UnitsAreTurned
  BY IInvSays
<1> QED
  BY <1>1, Invariant, PTL
=============================================================================
