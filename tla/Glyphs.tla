------------------------------- MODULE Glyphs -------------------------------
(***************************************************************************)
(* hw2: the operators of the converter that have no state.  From utf8.c    *)
(* the encoders and decoders by size, from utf.c the surrogate tests, from *)
(* utf16le.c and utf16be.c the making of a UTF-16 glyph.  A UTF-8 glyph is *)
(* a sequence of four bytes, a UTF-16 glyph its upper and lower unit.      *)
(*                                                                         *)
(* A mask or shift is a quotient and a remainder, and an OR of fields that *)
(* do not overlap is a sum.                                                *)
(***************************************************************************)
EXTENDS Integers, Sequences

Byte == 0 .. 255
MaxUnit == 65535
Unit == 0 .. MaxUnit
MaxCodePoint == 1114111  \* 0x10FFFF
CodePoint == 0 .. MaxCodePoint
HiSurrogate == 55296  \* 0xD800
LoSurrogate == 56320  \* 0xDC00

-----------------------------------------------------------------------------
(* utf8.c                                                                  *)

utf8_glyph_size_of_code_point(cp) ==
    IF cp <= 127 THEN 1 ELSE IF cp <= 2047 THEN 2
                        ELSE IF cp <= 65535 THEN 3 ELSE 4

\* The six bits of a continuation byte, and what is above them.
Low6(n) == n % 64
High6(n) == n \div 64

utf8_one_byte_encode(cp) == <<cp % 256>>
utf8_two_byte_encode(cp) == <<192 + (High6(cp) % 32), 128 + Low6(cp)>>
utf8_three_byte_encode(cp) ==
    <<224 + (High6(High6(cp)) % 16), 128 + Low6(High6(cp)), 128 + Low6(cp)>>
utf8_four_byte_encode(cp) ==
    <<240 + (High6(High6(High6(cp))) % 8), 128 + Low6(High6(High6(cp))),
      128 + Low6(High6(cp)), 128 + Low6(cp)>>

code_point_to_utf8_glyph(cp) ==
    LET size == utf8_glyph_size_of_code_point(cp)
    IN IF size = 1 THEN utf8_one_byte_encode(cp)
       ELSE IF size = 2 THEN utf8_two_byte_encode(cp)
       ELSE IF size = 3 THEN utf8_three_byte_encode(cp)
       ELSE utf8_four_byte_encode(cp)

\* Faulty variant: the four top bits decide for four bytes too.
remaining_utf8_bytes_top_four(first_byte) ==
    IF first_byte \div 16 \in {14, 15} THEN 2
    ELSE IF first_byte \div 32 = 6 THEN 1 ELSE 0

remaining_utf8_bytes(first_byte) ==
    IF first_byte \div 8 = 30 THEN 3
    ELSE IF first_byte \div 16 = 14 THEN 2
    ELSE IF first_byte \div 32 = 6 THEN 1 ELSE 0

utf8_one_byte_decode(b) == b[1]
utf8_two_byte_decode(b) == (b[1] % 32) * 64 + Low6(b[2])
utf8_three_byte_decode(b) ==
    (b[1] % 16) * 4096 + Low6(b[2]) * 64 + Low6(b[3])
utf8_four_byte_decode(b) ==
    (b[1] % 8) * 262144 + Low6(b[2]) * 4096 + Low6(b[3]) * 64 + Low6(b[4])

\* get_utf8_decoding_function(size)(glyph)
utf8_decode(size, b) == IF size = 1 THEN utf8_one_byte_decode(b)
                        ELSE IF size = 2 THEN utf8_two_byte_decode(b)
                        ELSE IF size = 3 THEN utf8_three_byte_decode(b)
                        ELSE utf8_four_byte_decode(b)

-----------------------------------------------------------------------------
(* utf.c, utf16le.c and utf16be.c                                          *)

\* Both tests leave out the first and the last surrogate.
is_upper_surrogate_pair(upper) == upper > 55296 /\ upper < 56319
is_lower_surrogate_pair(lower) == lower > 56320 /\ lower < 57343

\* Called with a lower unit that is a surrogate, or with a single unit in lower.
utf16_glyph_to_code_point(upper, lower) ==
    IF ~is_upper_surrogate_pair(upper)
    THEN lower
    ELSE (upper - HiSurrogate) * 1024 + (lower - LoSurrogate) + 65536

is_code_point_surrogate(cp) == cp >= 65536

\* code_point_to_utf16le_glyph and ...be_glyph before the bytes are ordered.
code_point_to_utf16_glyph(cp) ==
    IF is_code_point_surrogate(cp)
    THEN << ((cp - 65536) \div 1024 + HiSurrogate) % 65536,
            ((cp - 65536) % 1024) + LoSurrogate >>
    ELSE <<cp>>

reverse_bytes(unit) == (unit % 256) * 256 + (unit \div 256)
=============================================================================
