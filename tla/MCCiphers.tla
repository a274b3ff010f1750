----------------------------- MODULE MCCiphers -----------------------------
(* Ciphers with the alphabets of const.c and a part of its Morse codes.     *)
EXTENDS Ciphers

MCPolybius == [n \in 1 .. 94 |-> 32 + n]   \* from '!' to '~'
MCLetters == [n \in 1 .. 26 |-> 64 + n]    \* from 'A' to 'Z'
MCMorse == [c \in {33, 69, 73, 83, 84} |-> \* '!', 'E', 'I', 'S', 'T'
              CASE c = 33 -> <<45, 46, 45, 46, 45, 45>>
                [] c = 69 -> <<46>>
                [] c = 73 -> <<46, 46>>
                [] c = 83 -> <<46, 46, 46>>
                [] c = 84 -> <<45>>]

O(n) == <<45, n>>
P == <<O(112), O(101)>>
F == <<O(102), O(101)>>
K(k) == <<O(107), k>>
Sides(r, c) == <<O(114), r, O(99), c>>

\* Without a key, keys from both ends of the alphabet, one of seven letters,
\* one that is checked only up to its blank, tables of more columns and rows.
PolybiusArgs == {P, P \o K(<<126, 33>>), P \o K(<<75, 69, 89, 65, 66, 67, 68>>),
                 P \o K(<<66, 32, 66>>),
                 P \o Sides(<<57>>, <<49, 49>>) \o K(<<126, 33, 80, 81, 82, 83>>),
                 P \o Sides(<<49, 53>>, <<57>>)}
PolybiusTexts == {<<>>, <<127>>} \cup
    UNION {[1 .. n -> {9, 33, 65, 66, 80, 125, 126}] : n \in 1 .. 2}

MorseArgs == {F, F \o K(<<90, 65>>), F \o K(<<69, 66>>)}
MorseTexts == UNION {[1 .. n -> {10, 32, 33, 69, 73, 83}] : n \in 1 .. 3}
MorseLines == {t \o <<10>> : t \in [1 .. 4 -> {32, 69, 73, 84}]}
Odd == {<<>>, <<101>>, <<9>>, <<69, 101>>, <<69, 127>>, <<69, 9, 84, 10, 10>>}

\* Every way an argument is refused, and the ones that pass unnoticed.
OddArgs == {<<>>, <<O(104)>>, <<O(112)>>, P \o <<O(107)>>, P \o <<O(114)>>,
            P \o K(<<65, 65>>), P \o K(<<127>>), F \o K(<<33>>),
            P \o K(<<>>) \o K(<<65>>), P \o K(<<65>>) \o K(<<66>>),
            P \o <<O(114), <<49, 49>> >>, P \o Sides(<<56>>, <<49, 49>>),
            P \o Sides(<<49, 47>>, <<49, 49>>), P \o Sides(<<65>>, <<57>>),
            P \o Sides(<<57>>, <<57>>), F \o Sides(<<57>>, <<49, 49>>),
            <<O(107), <<49, 49>> >> \o P, <<O(112), <<45, 45, 101>> >>,
            P \o K(<<84>>) \o <<O(120)>> \o F,
            <<O(112), O(100)>>, <<O(102), O(100)>>}

MCCalls == PolybiusArgs \X PolybiusTexts
           \cup MorseArgs \X (MorseTexts \cup MorseLines \cup Odd)
           \cup OddArgs \X {<<65, 80>>, <<84, 10>>, <<122, 122>>, <<84, 84, 84>>}
=============================================================================
