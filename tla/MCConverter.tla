---------------------------- MODULE MCConverter ----------------------------
(* Converter with all texts of up to two code points from the boundaries of  *)
(* the encodings, and every kind of command line.                            *)
EXTENDS Converter

\* 476 turned round looks like a lower surrogate.
Edges == {36, 127, 128, 476, 2047, 2048, 55295, 57344, 65279, 65535, 65536,
          66559, 66560, 1113087, 1113088, 1114111}

MCTexts == {<<>>} \cup {<<a>> : a \in Edges}
           \cup {<<a, b>> : a \in Edges, b \in Edges}

Names == <<"in", "out">>
Calls == {<<"-e", f>> \o Names : f \in Formats}
\* An option between and behind the names, names and options that lack, are
\* unknown or too many, and an output that is the input.
Odd == {<<>>, Names, <<"-h">>, <<"-e">>, <<"-e", "in", "out">>,
        <<"in", "-e", "UTF8", "out">>, Names \o <<"-e", "UTF8">>,
        <<"-e", "UTF8", "in">>, <<"-e", "UTF8", "in", "in">>,
        <<"-e", "UTF8", "in", "link">>,
        <<"-e", "UTF16LE", "-e", "UTF8", "in", "out">>}

MCArgLists == Calls \cup Odd
MCGarbage == {0, 56321, 55297}
=============================================================================
