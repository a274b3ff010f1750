----------------------------- MODULE Converter -----------------------------
(***************************************************************************)
(* hw2: main(), parse_args(), check_bom() and the six conversion loops.    *)
(* The input is a file that holds a text in one of the three encodings     *)
(* after its byte order mark; a file in UTF-8 may lack its last byte, and  *)
(* one file has no mark.  One turn of a loop is one step.  The host is     *)
(* little-endian, and reads and writes of regular files do not fail.       *)
(***************************************************************************)
EXTENDS Glyphs, SequencesExt

CONSTANTS Texts,     \* the texts: sequences of code points
          ArgLists,  \* the command lines without the name of the program
          Garbage    \* units an uninitialised buffer may hold

Formats == {"UTF8", "UTF16LE", "UTF16BE"}

ASSUME TextsAssumption ==  \* no surrogates
    \A t \in Texts : /\ t \in Seq(CodePoint)
                     /\ \A i \in DOMAIN t : t[i] < 55296 \/ t[i] > 57343
ASSUME GarbageAssumption == Garbage \subseteq Unit

VARIABLES
    args, optind,       \* argv and getopt()'s place in it
    encoding_to, in_file, out_file, encoding_from,   \* program_state
    text, written, cut, \* the text, the encoding of the file, a byte lacks
    pc,                 \* "args", "bom", "open", "convert", "done", or how
                        \* it failed: "usage", "failure" or "crashed"
    infile, outfile,    \* what is left to read, what has been written
    bytes,              \* utf8_buf
    upper, lower        \* utf16_buf, buf

state == <<encoding_to, in_file, out_file>>
source == <<args, text, written, cut>>
bufs == <<bytes, upper, lower>>
vars == <<source, optind, state, encoding_from, pc, infile, outfile, bufs>>

NULL == "NULL"
BOM == 65279  \* U+FEFF

\* The bytes of a unit in memory and in a file of the encoding.
Memory(u) == <<u % 256, u \div 256>>
InOrder(enc, u) == Memory(IF enc = "UTF16BE" THEN reverse_bytes(u) ELSE u)

-----------------------------------------------------------------------------
(* The encodings as the Unicode standard defines them.                     *)

Utf8Bytes(cp) ==
    LET n == IF cp < 2048 THEN 2 ELSE IF cp < 65536 THEN 3 ELSE 4
        place == <<262144, 4096, 64, 1>>  \* powers of 64
    IN IF cp < 128 THEN <<cp>>
       ELSE [i \in 1 .. n |-> ((cp \div place[4 - n + i]) % 64)
                                + IF i = 1 THEN <<192, 224, 240>>[n - 1]
                                           ELSE 128]

Units(cp) == IF cp < 65536 THEN <<cp>>
             ELSE <<55296 + (cp - 65536) \div 1024, 56320 + (cp % 1024)>>

Flat(t, Op(_)) == FlattenSeq([i \in DOMAIN t |-> Op(t[i])])
Encoded(enc, cp) == IF enc = "UTF8" THEN Utf8Bytes(cp)
                    ELSE Flat(Units(cp), LAMBDA u : InOrder(enc, u))
EncodedText(enc, t) == Flat(t, LAMBDA cp : Encoded(enc, cp))
File(enc, t) == EncodedText(enc, <<BOM>> \o t)
Input == IF cut THEN Front(File(written, text)) ELSE File(written, text)
Unmarked == <<104, 105, 33>>

Init ==
    /\ args \in ArgLists
    /\ text \in Texts
    /\ written \in Formats
    /\ cut \in (IF written = "UTF8" /\ text # <<>> THEN BOOLEAN ELSE {FALSE})
    /\ optind = 1
    /\ encoding_to = NULL /\ in_file = NULL /\ out_file = NULL
    /\ encoding_from = NULL
    /\ pc = "args"
    /\ infile \in {Input} \cup (IF text = <<>> THEN {Unmarked} ELSE {})
    /\ outfile = <<>>
    /\ bytes = <<0, 0, 0, 0>>
    /\ upper = 0 /\ lower = 0

Stop(how) == /\ pc' = how
             /\ UNCHANGED <<source, optind, state, encoding_from, infile,
                            outfile, bufs>>

-----------------------------------------------------------------------------
(* parse_args(), a turn of its loop a step.  Three file names are enough:  *)
(* "in" exists, "out" does not, "link" is another name of the file "in".   *)

Parsing == /\ pc = "args"
           /\ args # <<>>
           /\ optind <= Len(args)
           /\ in_file = NULL \/ out_file = NULL

NoArguments == /\ pc = "args"
               /\ args = <<>>
               /\ Stop("usage")

IsOption == args[optind] \in {"-e", "-h"}

\* getopt() finds -e with its argument.
ParseEncoding ==
    /\ Parsing
    /\ args[optind] = "-e" /\ optind < Len(args)
    /\ args[optind + 1] \in Formats
    /\ encoding_to' = args[optind + 1]
    /\ optind' = optind + 2
    /\ UNCHANGED <<source, in_file, out_file, encoding_from, pc, infile,
                   outfile, bufs>>

\* An unknown option or encoding, or -e without one.
ParseFails ==
    /\ Parsing
    /\ IsOption
    /\ ~(/\ args[optind] = "-e" /\ optind < Len(args)
         /\ args[optind + 1] \in Formats)
    /\ Stop("usage")

ParseName ==
    /\ Parsing
    /\ ~IsOption
    /\ IF in_file = NULL
       THEN in_file' = args[optind] /\ UNCHANGED out_file
       ELSE out_file' = args[optind] /\ UNCHANGED in_file
    /\ optind' = optind + 1
    /\ UNCHANGED <<source, encoding_to, encoding_from, pc, infile, outfile,
                   bufs>>

\* The checks at the end; strcmp() follows the NULL of a name that is missing.
ParseEnd ==
    /\ pc = "args" /\ args # <<>>
    /\ ~Parsing
    /\ Stop(IF in_file = NULL \/ out_file = NULL THEN "crashed"
            ELSE IF \/ in_file = out_file \/ Len(args) > 4
                    \/ {in_file, out_file} = {"in", "link"}
            THEN "usage" ELSE "bom")

-----------------------------------------------------------------------------
(* check_bom(), then main() up to the call of the conversion.              *)

Recognise(b) == CASE b[1] = 239 /\ b[2] = 187 /\ b[3] = 191 -> "UTF8"
                  [] b[1] = 255 /\ b[2] = 254 -> "UTF16LE"
                  [] b[1] = 254 /\ b[2] = 255 -> "UTF16BE"
                  [] OTHER -> NULL

\* A mark and nothing else is too short in UTF-16.
TooShort == /\ pc = "bom"
            /\ Len(infile) < 3
            /\ Stop("failure")

Unrecognised == /\ pc = "bom"
                /\ Len(infile) >= 3
                /\ Recognise(infile) = NULL
                /\ Stop("failure")

CheckBom == /\ pc = "bom"
            /\ Len(infile) >= 3
            /\ Recognise(infile) # NULL
            /\ encoding_from' = Recognise(infile)
            /\ pc' = "open"
            /\ UNCHANGED <<source, optind, state, infile, outfile, bufs>>

\* Faulty variant: the mark is skipped.
SkippedBom(f) == SubSeq(f, IF encoding_from = "UTF8" THEN 4 ELSE 3, Len(f))

\* lseek() with its arguments in the wrong order moves standard input instead,
\* so the mark is not skipped.
Skipped(f) == f

\* The mark a conversion writes before its loop.  From UTF-16BE to UTF-16LE
\* three bytes of it are reversed instead of two; to UTF-8 it is commented out.
Mark == CASE encoding_to = "UTF8" -> <<>>
          [] encoding_to = "UTF16BE" -> <<254, 255>>
          [] encoding_to = "UTF16LE" ->
               IF encoding_from = "UTF8" THEN <<255, 254>> ELSE <<0, 255>>

Start == /\ pc = "open"
         /\ encoding_to \notin {NULL, encoding_from}
         /\ outfile' = Mark
         /\ infile' = Skipped(infile)
         /\ pc' = "convert"
         /\ bytes' \in {[i \in 1 .. 4 |-> g % 256] : g \in Garbage}
         /\ upper' \in Garbage /\ lower' \in Garbage
         /\ UNCHANGED <<source, optind, state, encoding_from>>

\* The encoding stays: sendfile().
Transcribe == /\ pc = "open"
              /\ encoding_to = encoding_from
              /\ outfile' = Skipped(infile)
              /\ infile' = <<>>
              /\ pc' = "done"
              /\ UNCHANGED <<source, optind, state, encoding_from, bufs>>

\* Without -e get_encoding_function() returns NULL, and main() calls it.
NoFunction == /\ pc = "open"
              /\ encoding_to = NULL
              /\ Stop("crashed")

-----------------------------------------------------------------------------
(* The loops.                                                              *)

Turn(from, to) == /\ pc = "convert"
                  /\ infile # <<>>
                  /\ encoding_from = from
                  /\ encoding_to \in to
                  /\ UNCHANGED <<source, optind, state, encoding_from>>

\* write() of the units from memory.
WriteUnits(us) == outfile' = outfile \o Flat(us, Memory)

\* Bytes that the file has no more stay what they were: a short read is not
\* noticed.
Refilled(n) == [i \in 1 .. 4 |-> IF i <= n /\ i <= Len(infile) THEN infile[i]
                                                              ELSE bytes[i]]

FromUtf8(n) ==
    /\ Turn("UTF8", {"UTF16LE", "UTF16BE"})
    /\ n = remaining_utf8_bytes(infile[1])
    /\ bytes' = Refilled(n + 1)
    /\ outfile' = outfile \o
         Flat(code_point_to_utf16_glyph(utf8_decode(n + 1, bytes')),
              LAMBDA u : InOrder(encoding_to, u))
    /\ infile' = SubSeq(infile, n + 2, Len(infile))
    /\ UNCHANGED <<pc, upper, lower>>

\* The unit at the head of the file, as it is in memory after the swap.
UnitAt(i) == LET u == infile[i] + 256 * infile[i + 1]
             IN IF encoding_from = "UTF16BE" THEN reverse_bytes(u) ELSE u

\* What is written for a glyph; U+FEFF is left out, and then not wiped.
WriteUtf8(up, low) ==
    IF low # BOM
    THEN /\ outfile' = outfile \o
              code_point_to_utf8_glyph(utf16_glyph_to_code_point(up, low))
         /\ upper' = 0 /\ lower' = 0
    ELSE /\ upper' = up /\ lower' = low
         /\ UNCHANGED outfile

\* An upper unit fetches its lower one; any other goes where a lower one is,
\* and what was there becomes the upper one.
Utf16PairToUtf8 ==
    /\ Turn(encoding_from, {"UTF8"})
    /\ is_upper_surrogate_pair(UnitAt(1))
    /\ WriteUtf8(UnitAt(1), UnitAt(3))
    /\ infile' = SubSeq(infile, 5, Len(infile))
    /\ UNCHANGED <<pc, bytes>>

Utf16UnitToUtf8 ==
    /\ Turn(encoding_from, {"UTF8"})
    /\ ~is_upper_surrogate_pair(UnitAt(1))
    /\ WriteUtf8(lower, UnitAt(1))
    /\ infile' = SubSeq(infile, 3, Len(infile))
    /\ UNCHANGED <<pc, bytes>>

\* from_utf16le_to_utf16be: whether a second unit follows is asked of what the
\* buffer had before.
LeToBeUnit ==
    /\ Turn("UTF16LE", {"UTF16BE"})
    /\ upper' = reverse_bytes(UnitAt(1))
    /\ ~is_lower_surrogate_pair(lower)
    /\ WriteUnits(<<upper'>>)
    /\ infile' = SubSeq(infile, 3, Len(infile))
    /\ UNCHANGED <<pc, bytes, lower>>

\* Faulty variant: the loop ends if there is no second unit.
LeToBePairOnly ==
    /\ Turn("UTF16LE", {"UTF16BE"})
    /\ upper' = reverse_bytes(UnitAt(1))
    /\ is_lower_surrogate_pair(lower)
    /\ lower' = IF Len(infile) > 2 THEN reverse_bytes(UnitAt(3)) ELSE lower
    /\ IF Len(infile) > 2 THEN WriteUnits(<<upper', lower'>>)
                          ELSE UNCHANGED outfile
    /\ infile' = SubSeq(infile, 5, Len(infile))
    /\ UNCHANGED <<pc, bytes>>

LeToBePair ==
    /\ Turn("UTF16LE", {"UTF16BE"})
    /\ upper' = reverse_bytes(UnitAt(1))
    /\ is_lower_surrogate_pair(lower)
    /\ lower' = reverse_bytes(IF Len(infile) > 2 THEN UnitAt(3) ELSE lower)
    /\ WriteUnits(<<upper', lower'>>)
    /\ infile' = SubSeq(infile, 5, Len(infile))
    /\ UNCHANGED <<pc, bytes>>

\* from_utf16be_to_utf16le writes four bytes of its mark for every unit.
BeToLeUnit ==
    /\ Turn("UTF16BE", {"UTF16LE"})
    /\ upper' = UnitAt(1)
    /\ ~is_lower_surrogate_pair(lower)
    /\ outfile' = outfile \o <<0, 255, 254, 0>>
    /\ infile' = SubSeq(infile, 3, Len(infile))
    /\ UNCHANGED <<pc, bytes, lower>>

\* A second unit ends the loop: the comparison is what is kept of the read.
\* This happens in the first turn or never, and a second unit is there then.
BeToLePair ==
    /\ Turn("UTF16BE", {"UTF16LE"})
    /\ is_lower_surrogate_pair(lower)
    /\ Len(infile) > 2
    /\ upper' = UnitAt(1)
    /\ lower' = reverse_bytes(UnitAt(3))
    /\ pc' = "done"
    /\ infile' = SubSeq(infile, 5, Len(infile))
    /\ UNCHANGED <<outfile, bytes>>

EndOfFile == /\ pc = "convert"
             /\ infile = <<>>
             /\ Stop("done")

-----------------------------------------------------------------------------
Parse == \/ NoArguments
         \/ ParseEncoding
         \/ ParseFails
         \/ ParseName
         \/ ParseEnd

Prepare == \/ TooShort
           \/ Unrecognised
           \/ CheckBom
           \/ Start
           \/ Transcribe
           \/ NoFunction

Convert == \/ \E n \in 0 .. 3 : FromUtf8(n)
           \/ Utf16PairToUtf8
           \/ Utf16UnitToUtf8
           \/ LeToBeUnit
           \/ LeToBePair
           \/ BeToLeUnit
           \/ BeToLePair
           \/ EndOfFile

Next == Parse \/ Prepare \/ Convert

Spec == Init /\ [][Next]_vars

-----------------------------------------------------------------------------
(* Properties.                                                             *)

IsDone(from, to) == pc = "done" /\ encoding_from = from /\ encoding_to = to

\* A text in UTF-8 comes out in UTF-16 whole and in order, whatever lengths its
\* code points have (utf8.c:24-33, 56-65), after a second byte order mark: the
\* one of the input is converted too (main.c:19, utf8.c:22).  A file that ends
\* within a code point of several bytes gives one more code point, made of
\* stale bytes (utf8.c:26).
Utf8IsKept ==
    \A to \in {"UTF16LE", "UTF16BE"} :
      IsDone("UTF8", to) =>
        LET kept == File(to, <<BOM>> \o IF cut THEN Front(text) ELSE text)
            extra == Len(outfile) - Len(kept)
        IN /\ IsPrefix(kept, outfile)
           /\ extra \in (IF cut /\ Last(text) > 127 THEN {2, 4} ELSE {0})

\* The code points whose upper or lower surrogate the tests leave out: the
\* first and the last 1024 of the supplementary planes.
OnEdge(cp) == cp >= 65536 /\ ~is_upper_surrogate_pair(Units(cp)[1])

\* A text in UTF-16 comes out in UTF-8 without any U+FEFF, the mark included,
\* though utf.h:172 promises one; the buffer that was not initialised does not
\* matter since the mark passes through it first (utf16le.c:69-83,
\* utf16be.c:72-86).  A code point on the edge becomes its two surrogates, each
\* on its own (utf.c:100): nothing else is changed.
Utf16IsKept ==
    \A from \in {"UTF16LE", "UTF16BE"} :
      IsDone(from, "UTF8") =>
        outfile = Flat(Flat(text, LAMBDA cp : IF OnEdge(cp) THEN Units(cp)
                                                            ELSE <<cp>>),
                       LAMBDA cp : IF cp = BOM THEN <<>> ELSE Utf8Bytes(cp))

\* From UTF-16LE to UTF-16BE every unit is turned round, whichever way the
\* stale test in the loop goes (utf16le.c:24), after a second mark; it may add
\* one stale unit behind the end (utf16le.c:25).
UnitsAreTurned ==
    IsDone("UTF16LE", "UTF16BE") =>
      LET all == File("UTF16BE", <<BOM>> \o text)
      IN IsPrefix(all, outfile) /\ Len(outfile) - Len(all) \in {0, 2}
=============================================================================
