------------------------------ MODULE Ciphers ------------------------------
(***************************************************************************)
(* hw1: validargs() and the four loops of main(), the Polybius and the     *)
(* fractionated Morse cipher.  The program runs twice: it encrypts a text, *)
(* and a second process with -d for -e decrypts what the first one wrote.  *)
(* A character is its ASCII code; one turn of a loop is one step.          *)
(***************************************************************************)
EXTENDS Integers, FiniteSetsExt, SequencesExt

CONSTANTS Calls,              \* pairs of a command line and a text
          polybius_alphabet, fm_alphabet,  \* const.c: sequences of characters
          morse_table         \* const.c: the codes of the characters that
                              \* have one, sequences of Dot and Dash

Tab == 9
NL == 10
Blank == 32
Dash == 45
Dot == 46
Cross == 120
White == {Tab, NL, Blank}
opt == [c |-> 99, d |-> 100, e |-> 101, f |-> 102, h |-> 104, k |-> 107,
        p |-> 112, r |-> 114]  \* the letters of the options

ASSUME MorseAssumption ==
    \A c, d \in DOMAIN morse_table :
        /\ c \in 33 .. 122
        /\ morse_table[c] \in Seq({Dot, Dash}) \ {<<>>}
        /\ morse_table[c] = morse_table[d] => c = d

VARIABLES
    argv, i, count, mode, key,  \* validargs(); mode is return_state
    polybius_table, fm_key,     \* up to the zeros that fill them; the Morse
                                \* decryption has its buffer in the first
    text, cipher,               \* the input and output of the first process
    pc,  \* "args", "tables", "first", "loop", "done", "help", "refused",
         \* "failure", or "lost": the program reads what is not its data
    infile, outfile,
    space,                      \* the buffer of the Morse encryption
    blank,                      \* last_char_space, prep_print_space
    row, col

given == <<text, cipher>>
parsed == <<argv, i, count, mode, key>>
tables == <<polybius_table, fm_key>>
loop == <<space, blank, row, col>>
vars == <<given, parsed, tables, pc, infile, outfile, loop>>

Upto(s, n) == SubSeq(s, 1, Min({n, Len(s)}))

NoMode == [fm |-> FALSE, d |-> FALSE, r |-> 0, c |-> 0]

Init ==
    /\ \E call \in Calls : argv = call[1] /\ text = call[2]
    /\ i = 1 /\ count = 0 /\ mode = NoMode /\ key = <<>>
    /\ polybius_table = <<>> /\ fm_key = <<>>
    /\ cipher = <<>>
    /\ pc = "args"
    /\ infile = text /\ outfile = <<>>
    /\ space = <<>> /\ blank = FALSE /\ row = -1 /\ col = -1

Stop(how) == /\ pc' = how
             /\ UNCHANGED <<given, parsed, tables, infile, outfile, loop>>

-----------------------------------------------------------------------------
(* validargs()                                                             *)

Parsing == pc = "args" /\ i <= Len(argv)
letter == argv[i][2]

\* The options the code looks for at this count.
Expected == {opt.h} \cup (CASE count = 0 -> {opt.f, opt.p}
                            [] count = 1 -> {opt.d, opt.e}
                            [] OTHER -> {opt.c, opt.k, opt.r})
Option(letters) == /\ Parsing
                   /\ Len(argv[i]) = 2
                   /\ letter \in letters \cap Expected

\* The value behind the option, up to its end, a blank or a newline.
Value == argv[i + 1]
Used(v) == LET ends == {n \in DOMAIN v : v[n] \in {Blank, NL}}
           IN Upto(v, Min(ends \cup {Len(v) + 1}) - 1)

TooLong == /\ Parsing
           /\ Len(argv[i]) > 2
           /\ Stop("refused")

Help == /\ Option({opt.h})
        /\ Stop("help")

Went(n) == /\ i' = i + n
           /\ count' = count + 1
           /\ UNCHANGED <<given, argv, pc, infile, outfile, loop>>

Cipher == /\ Option({opt.f, opt.p})
          /\ mode' = [mode EXCEPT !.fm = @ \/ letter = opt.f]
          /\ Went(1)
          /\ UNCHANGED <<key, tables>>

Direction == /\ Option({opt.d, opt.e})
             /\ mode' = [mode EXCEPT !.d = @ \/ letter = opt.d]
             /\ Went(1)
             /\ UNCHANGED <<key, tables>>

HasValue == Option({opt.c, opt.k, opt.r})
IsKey == letter = opt.k

\* Refused before the value is looked at.
Forbidden == IF IsKey THEN key # <<>>
             ELSE \/ mode.fm
                  \/ letter = opt.r /\ mode.r # 0
                  \/ letter = opt.c /\ mode.c # 0

\* isvalidchar() for every letter of the key: it is in the alphabet and not
\* in the table, where each one is left behind.
ValidKey(alphabet, table) ==
    /\ IsInjective(table \o Used(Value))
    /\ \A n \in DOMAIN Used(Value) : Used(Value)[n] \in Range(alphabet)

Key == /\ HasValue /\ ~Forbidden /\ IsKey /\ i < Len(argv)
       /\ IF mode.fm
          THEN /\ ValidKey(fm_alphabet, fm_key)
               /\ fm_key' = fm_key \o Used(Value)
               /\ UNCHANGED polybius_table
          ELSE /\ ValidKey(polybius_alphabet, polybius_table)
               /\ polybius_table' = polybius_table \o Used(Value)
               /\ UNCHANGED fm_key
       /\ key' = Value
       /\ Went(2)
       /\ UNCHANGED mode

\* Only a digit above '9' is noticed.
Number == FoldLeft(LAMBDA num, c : 10 * num + c - 48, 0, Used(Value))
ValidNumber == /\ \A n \in DOMAIN Used(Value) : Used(Value)[n] <= 57
               /\ Number \in 9 .. 15

Side == /\ HasValue /\ ~Forbidden /\ ~IsKey /\ i < Len(argv)
        /\ ValidNumber
        /\ mode' = IF letter = opt.r THEN [mode EXCEPT !.r = Number]
                                          ELSE [mode EXCEPT !.c = Number]
        /\ Went(2)
        /\ UNCHANGED <<key, tables>>

BadValue ==
    /\ HasValue
    /\ \/ Forbidden
       \/ /\ i < Len(argv)
          /\ ~IF ~IsKey THEN ValidNumber
              ELSE IF mode.fm THEN ValidKey(fm_alphabet, fm_key)
              ELSE ValidKey(polybius_alphabet, polybius_table)
    /\ Stop("refused")

\* The NULL at the end of argv is dereferenced.
NoValue == /\ HasValue /\ ~Forbidden
           /\ i = Len(argv)
           /\ Stop("lost")

\* Anything else makes the options count from one again.
Unknown == /\ Parsing
           /\ Len(argv[i]) = 2 /\ letter \notin Expected
           /\ i' = i + 1 /\ count' = 0
           /\ UNCHANGED <<given, argv, mode, key, tables, pc, infile, outfile,
                          loop>>

WithDefault == IF mode.r = 0 /\ mode.c = 0 /\ ~mode.fm
               THEN [mode EXCEPT !.r = 10, !.c = 10] ELSE mode
Accepted == /\ count >= 2
            /\ mode.fm \/ WithDefault.r * WithDefault.c
                            >= Len(polybius_alphabet)

Valid == /\ pc = "args" /\ i > Len(argv)
         /\ Accepted
         /\ mode' = WithDefault
         /\ IF mode.fm THEN fm_key' = <<>> /\ UNCHANGED polybius_table
                       ELSE polybius_table' = <<>> /\ UNCHANGED fm_key
         /\ pc' = "tables"
         /\ UNCHANGED <<given, argv, i, count, key, infile, outfile, loop>>

Invalid == /\ pc = "args" /\ i > Len(argv)
           /\ ~Accepted
           /\ Stop("refused")

-----------------------------------------------------------------------------
(* The tables                                                              *)

\* Faulty variant: the letters that are in the key keep their places.
PlacesApart(alphabet, room) == [n \in 1 .. room |-> Len(key) + n]

\* The letters of the alphabet go behind the key, each one a place further
\* but for the ones that are in the key: the next one is written over them.
\* Zeros follow the alphabet.
Places(alphabet, room) ==
    [n \in 1 .. room |-> Len(key) + n - Cardinality(
       {m \in DOMAIN key : key[m] \in Range(Upto(alphabet, n - 1))})]

Filled(alphabet, room) ==
    LET at == Places(alphabet, room)
        put(p) == {n \in 1 .. room : at[n] = p}
        letters == [n \in 1 .. room |-> IF n \in DOMAIN alphabet
                                        THEN alphabet[n] ELSE 0]
    IN [p \in 1 .. Max(Range(at)) |->
          IF put(p) = {} THEN key[p] ELSE letters[Max(put(p))]]

GenerateTables ==
    /\ pc = "tables"
    /\ IF mode.fm
       THEN /\ fm_key' = Filled(fm_alphabet, Len(fm_alphabet))
            /\ UNCHANGED polybius_table
       ELSE /\ polybius_table' = Filled(polybius_alphabet,
                                        mode.r * mode.c - Len(key))
            /\ UNCHANGED fm_key
    /\ pc' = IF mode.d THEN "loop" ELSE "first"
    /\ UNCHANGED <<given, parsed, infile, outfile, loop>>

-----------------------------------------------------------------------------
(* The Polybius cipher                                                     *)

Encrypting == pc \in {"first", "loop"} /\ ~mode.d
Decrypting == pc = "loop" /\ mode.d
c0 == Head(infile)

Read == /\ infile' = Tail(infile)
        /\ pc' = "loop"
        /\ UNCHANGED <<given, parsed, fm_key>>

Hex(n) == IF n < 10 THEN 48 + n ELSE 55 + n
Place(c) == SelectInSeq(polybius_table, LAMBDA d : d = c) - 1

\* encryptpolybius()
EncryptPolybius ==
    /\ Encrypting /\ ~mode.fm /\ infile # <<>>
    /\ c0 \in White \cup Range(polybius_table)
    /\ Read
    /\ outfile' = outfile \o IF c0 \in White THEN <<c0>>
                             ELSE <<Hex(Place(c0) \div mode.c),
                                    Hex(Place(c0) % mode.c)>>
    /\ UNCHANGED <<polybius_table, loop>>

\* The digit 'A' counts as 17.
HexValue == IF c0 > 65 THEN c0 - 55 ELSE c0 - 48

\* Faulty variant: the place counted in rows.
AtByRows == row * mode.r + HexValue + 1

At == row * mode.c + HexValue + 1  \* decryptpolybius()

IsPair == c0 \notin White /\ row >= 0 /\ HexValue >= 0

\* A character that is not in the table is looked for behind its end; EOF as
\* the first character is one.
BeyondTable == /\ ~mode.fm
               /\ \/ Encrypting /\ infile = <<>> /\ pc = "first"
                  \/ Encrypting /\ infile # <<>>
                        /\ c0 \notin White \cup Range(polybius_table)
                  \/ Decrypting /\ infile # <<>> /\ IsPair /\ At > 257
               /\ Stop("lost")

DecryptPolybius ==
    /\ Decrypting /\ ~mode.fm /\ infile # <<>>
    /\ IsPair => At <= 257
    /\ Read
    /\ IF c0 \in White
       THEN outfile' = Append(outfile, c0) /\ UNCHANGED <<row, col>>
       ELSE IF IsPair
       THEN /\ outfile' = Append(outfile, IF At \in DOMAIN polybius_table
                                          THEN polybius_table[At] ELSE 0)
            /\ row' = -1 /\ col' = -1
       ELSE /\ IF row < 0 THEN row' = HexValue /\ UNCHANGED col
                          ELSE col' = HexValue /\ UNCHANGED row
            /\ UNCHANGED outfile
    /\ UNCHANGED <<polybius_table, space, blank>>

-----------------------------------------------------------------------------
(* The fractionated Morse cipher                                           *)

\* fractionated_table: the triples of dots, dashes and crosses in the order
\* of the alphabet, all but <<Cross, Cross, Cross>>.
Symbols == <<Dot, Dash, Cross>>
fractionated_table == [n \in 1 .. 26 |->
    <<Symbols[((n - 1) \div 9) + 1], Symbols[(((n - 1) \div 3) % 3) + 1],
      Symbols[((n - 1) % 3) + 1]>>]

\* encryptmorse(): a blank counts as a cross, and what does not fit into the
\* eight characters is dropped.
Put(buffer, codes) == Upto(buffer \o codes, 8)
Code(c) == IF c \in White THEN <<Cross>> ELSE morse_table[c]

\* bufferencrypt() takes three characters at a time; three crosses have no
\* letter.
Thirds(buffer) == [n \in 1 .. Len(buffer) \div 3 |->
                     SubSeq(buffer, 3 * n - 2, 3 * n)]
Rest(buffer) == SubSeq(buffer, 3 * (Len(buffer) \div 3) + 1, Len(buffer))
Letters(buffer) ==
    LET thirds == SelectSeq(Thirds(buffer),
                            LAMBDA t : t \in Range(fractionated_table))
    IN [n \in DOMAIN thirds |-> fm_key[SelectInSeq(fractionated_table,
                                          LAMBDA t : t = thirds[n])]]

\* Faulty variant: a cross after a blank too.
FirstPartAlways == IF pc = "first" THEN <<>> ELSE Put(space, <<Cross>>)

\* The buffers main() gives to bufferencrypt() in this turn, one when the
\* last character was a blank, else two.
FirstPart == IF blank \/ pc = "first" THEN <<>> ELSE Put(space, <<Cross>>)
SecondPart == LET buffer == IF FirstPart = <<>> THEN space ELSE Rest(FirstPart)
              IN IF blank /\ c0 \in {Blank, Tab} THEN buffer
                 ELSE Put(buffer, Code(c0))

HasCode == c0 \in White \cup DOMAIN morse_table
\* fm_key has no zero behind its letters when the last letter of the alphabet
\* is in the key: three crosses are compared with what is behind the table.
Unending == Len(fm_key) >= 27
HasCrosses(buffer) == <<Cross, Cross, Cross>> \in Range(Thirds(buffer))
LeavesTable(buffer) == Unending /\ HasCrosses(buffer)

FirstMorse ==
    /\ Encrypting /\ mode.fm /\ pc = "first" /\ infile # <<>> /\ HasCode
    /\ Read
    /\ space' = SecondPart
    /\ UNCHANGED <<polybius_table, outfile, blank, row, col>>

EncryptMorse ==
    /\ Encrypting /\ mode.fm /\ pc = "loop" /\ infile # <<>> /\ HasCode
    /\ ~LeavesTable(FirstPart) /\ ~LeavesTable(SecondPart)
    /\ Read
    /\ outfile' = outfile \o Letters(FirstPart) \o Letters(SecondPart)
                    \o IF c0 = NL THEN <<NL>> ELSE <<>>
    /\ space' = IF c0 = NL THEN <<>> ELSE Rest(SecondPart)
    /\ blank' = (c0 \in White)
    /\ UNCHANGED <<polybius_table, row, col>>

\* EXIT_FAILURE, after some letters of this turn.
Fail(printed) == /\ pc' = "failure"
                 /\ outfile' = outfile \o printed
                 /\ UNCHANGED <<given, parsed, tables, infile, loop>>

\* The table of codes ends at 'z'.
NoCode == /\ Encrypting /\ mode.fm /\ infile # <<>> /\ ~HasCode
          /\ c0 \in 33 .. 122
          /\ ~LeavesTable(FirstPart)
          /\ Fail(Letters(FirstPart))

BeyondCodes ==
    /\ Encrypting /\ mode.fm
    /\ IF infile = <<>> THEN pc = "first"
       ELSE \/ LeavesTable(FirstPart)
            \/ HasCode /\ pc = "loop" /\ LeavesTable(SecondPart)
            \/ ~HasCode /\ c0 \notin 33 .. 122
    /\ Stop("lost")

\* decryptmorse() and the search for a cross, as often as there is one: the
\* codes in front of the crosses are letters, two crosses are a blank, which
\* is printed before the next letter.  Codes that are no letter's end it.
Triple == fractionated_table[SelectInSeq(fm_key, LAMBDA k : k = c0)]
Coded == Range(morse_table)
Letter(codes) == <<CHOOSE c \in DOMAIN morse_table : morse_table[c] = codes>>
Pending(isBlank) == IF isBlank THEN <<Blank>> ELSE <<>>
Split(s, c) ==
    IF ~s.valid THEN s
    ELSE IF c # Cross THEN [s EXCEPT !.codes = Append(@, c)]
    ELSE IF s.codes = <<>> THEN [s EXCEPT !.blank = TRUE]
    ELSE IF s.codes \notin Coded
    THEN [s EXCEPT !.valid = FALSE, !.out = @ \o Pending(s.blank)]
    ELSE [s EXCEPT !.codes = <<>>, !.blank = FALSE,
                   !.out = @ \o Pending(s.blank) \o Letter(s.codes)]
Scanned == FoldLeft(Split, [codes |-> <<>>, blank |-> FALSE, valid |-> TRUE,
                            out |-> Pending(blank)], polybius_table \o Triple)

InKey == c0 \in Range(fm_key)

DecryptMorse ==
    /\ Decrypting /\ mode.fm /\ infile # <<>> /\ c0 # NL
    /\ InKey /\ Scanned.valid
    /\ Read
    /\ outfile' = outfile \o Scanned.out
    /\ polybius_table' = Scanned.codes
    /\ blank' = Scanned.blank
    /\ UNCHANGED <<space, row, col>>

\* What is left in the buffer is a letter; a blank that was due is not printed.
DecryptNewline ==
    /\ Decrypting /\ mode.fm /\ infile # <<>> /\ c0 = NL
    /\ polybius_table \in Coded \cup {<<>>}
    /\ Read
    /\ outfile' = outfile \o (IF polybius_table = <<>> THEN <<>>
                              ELSE Letter(polybius_table)) \o <<NL>>
    /\ polybius_table' = <<>>
    /\ blank' = FALSE
    /\ UNCHANGED <<space, row, col>>

\* EXIT_FAILURE for codes that are no letter's; a character that is not in the
\* key stands for a triple behind the table.
Undecodable ==
    /\ Decrypting /\ mode.fm /\ infile # <<>>
    /\ \/ c0 = NL /\ polybius_table \notin Coded \cup {<<>>} /\ Stop("failure")
       \/ c0 # NL /\ InKey /\ ~Scanned.valid /\ Fail(Scanned.out)
       \/ c0 # NL /\ ~InKey /\ Stop("lost")

EndOfFile == /\ pc = "loop"
             /\ infile = <<>>
             /\ Stop("done")

-----------------------------------------------------------------------------
\* The second process, with -d for -e and the first one's output.
Decrypt ==
    /\ pc = "done" /\ ~mode.d
    /\ argv' = [n \in DOMAIN argv |-> IF argv[n] = <<Dash, opt.e>>
                                      THEN <<Dash, opt.d>> ELSE argv[n]]
    /\ cipher' = outfile
    /\ infile' = outfile /\ outfile' = <<>>
    /\ i' = 1 /\ count' = 0 /\ mode' = NoMode /\ key' = <<>>
    /\ polybius_table' = <<>> /\ fm_key' = <<>>
    /\ pc' = "args"
    /\ space' = <<>> /\ blank' = FALSE /\ row' = -1 /\ col' = -1
    /\ UNCHANGED text

Arguments == TooLong \/ Help \/ Cipher \/ Direction \/ Key \/ Side \/ BadValue
             \/ NoValue \/ Unknown \/ Valid \/ Invalid
Polybius == EncryptPolybius \/ BeyondTable \/ DecryptPolybius
Morse == FirstMorse \/ EncryptMorse \/ NoCode \/ BeyondCodes \/ DecryptMorse
         \/ DecryptNewline \/ Undecodable

Next == Arguments \/ GenerateTables \/ Polybius \/ Morse \/ EndOfFile
        \/ Decrypt
Spec == Init /\ [][Next]_vars

-----------------------------------------------------------------------------
(* Properties                                                              *)

IsDecrypted == pc = "done" /\ mode.d /\ cipher # <<>>

\* Only the key up to its first blank was checked (hw1.c:58).
Checked == \A n \in DOMAIN key : key[n] \notin {Blank, NL}

\* The letters the key leaves no place for, though it has none twice: the
\* last ones of the alphabet (hw1.c:181).
Crowded == Range(SubSeq(polybius_alphabet, mode.r * mode.c - Len(key) + 1,
                        Len(polybius_alphabet)))

\* A text the Polybius cipher encrypts comes back as it was (hw1.c:169-228,
\* main.c:205-250), unless the tenth row or column is written: its digit 'A' is
\* read as 17 (main.c:217, 224).  The search runs past the table (hw1.c:210)
\* only for a character that is not in the alphabet or that a long key
\* crowds out of the table.
PolybiusIsKept ==
    ~mode.fm /\ Checked =>
      /\ IsDecrypted /\ 65 \notin Range(cipher) => outfile = text
      /\ pc = "lost" /\ i > Len(argv) /\ ~mode.d /\ text # <<>> =>
           \E c \in Range(text) \ White :
              \/ c \notin Range(polybius_alphabet)
              \/ c \in Crowded \ Range(key)

\* Words with single blanks between them, and the newlines.
Squeezed(t) ==
    FoldLeft(LAMBDA s, c :
      IF c \notin White THEN Append(s, c)
      ELSE IF s = <<>> \/ Last(s) = NL
      THEN IF c = NL THEN Append(s, c) ELSE s
      ELSE IF Last(s) # Blank THEN Append(s, IF c = NL THEN NL ELSE Blank)
      ELSE IF c = NL THEN Append(Front(s), NL) ELSE s, <<>>, t)

\* Without the blank before a word of one letter that ends a line.
Joined(t) == FlattenSeq([n \in DOMAIN t |->
               IF t[n] = Blank /\ n + 2 <= Len(t) /\ t[n + 2] = NL
               THEN <<>> ELSE <<t[n]>>])

\* A key in front of -f was checked for the Polybius cipher and is left in
\* polybius_table (hw1.c:117, 157).
KeyAfterCipher == \A m, n \in DOMAIN argv :
                     argv[m] = <<Dash, opt.f>> /\ argv[n] = <<Dash, opt.k>> => m < n

\* The words and lines of a text come back from the fractionated Morse cipher
\* when it begins with a letter and ends with a newline: what is thrown away at
\* a newline (main.c:195) is never part of a letter, and the decryption finds
\* no codes that are no letter's (main.c:81, 135) and no triple that has no letter.
\* Only the blank before a last word of one letter may be lost (main.c:54-84).
\* A key given before -f spoils the decryption, as it is still in its buffer.
MorseComesBack ==
    (/\ mode.fm /\ mode.d /\ Checked /\ cipher # <<>> /\ KeyAfterCipher
     /\ text[1] \notin White /\ Last(text) = NL) =>
      /\ pc \notin {"failure", "lost"}
      /\ pc = "done" => Joined(outfile) = Joined(Squeezed(text))

\* Is there a blank behind another one?
HasGap(t) == \E n \in 2 .. Len(t) : {t[n - 1], t[n]} \subseteq White

\* An encryption leaves its tables only for a character behind 'z' or before
\* '!' (hw1.c:274), or if the last letter of the alphabet is in the key: it is
\* then written over the zero that ends fm_key (hw1.c:241), and the search for
\* three crosses runs on (hw1.c:347).  That takes two blanks in a row: what is
\* between two letters makes two crosses, and the buffer has no others.
MorseStaysInTables ==
    (/\ mode.fm /\ ~mode.d /\ Checked /\ text # <<>>
     /\ pc = "lost" /\ i > Len(argv)) =>
      \/ \E c \in Range(text) : c \notin White \cup 33 .. 122
      \/ Last(fm_alphabet) \in Range(key) /\ HasGap(text)

\* What the two say of the fractionated Morse cipher: the round trip of a text,
\* and the key and text for which an encryption reads behind its tables.
MorseIsKept == MorseComesBack /\ MorseStaysInTables
=============================================================================
