------------------------------ MODULE MCPolled ------------------------------
EXTENDS Polled

Item(k, w, z, v) ==
  [kind |-> k, width |-> w, zero |-> z, value |-> v]

\* Every value of a word, in every numeric command, at the widths that matter:
\* none, below, at and above the length, a leading zero, the largest that fits
Numbers == {Item(k, w, z, v) : k \in {"d", "u", "x"}, w \in {0, 3, 10, BufSize - 1},
                               z \in BOOLEAN, v \in 0..(Word - 1)}
Plain == Item("text", 0, FALSE, <<"t", LF>>)
Word2 == Item("s", 3, FALSE, <<"t", LF>>)
Others == {Item("c", 0, FALSE, LF), Item("s", 0, FALSE, <<>>), Word2,
           Item("s", 4, TRUE, <<"t">>),
           Item("%", 0, FALSE, 0), Item("z", 0, FALSE, 0), Plain,
           Item("i", 5, TRUE, Word - 1), Item("X", 4, TRUE, 10), Item("p", 0, FALSE, 255)}
MCItems == Numbers \cup Others
MCChars == Range(Hex) \cup {CR, LF, BS, "-", " ", "%", "E", "R", "O", "t", "i"}
             \cup {"s", "u", "x", "X", "p", "z"}
MCJobs == {<<i>> : i \in Numbers} \cup {<<i, j>> : i, j \in Others}
            \cup {<<i, Plain, j>> : i, j \in Others}
MCNewlines == {<<"CR">>, <<"LF">>, <<"CR", "LF">>}
\* reading does not depend on what was printed: it is checked after one call
ReadAfterOne == keys = 0 \/ job = <<Plain, Plain>>
=============================================================================
