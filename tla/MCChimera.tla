----------------------------- MODULE MCChimera -----------------------------
(* TLC instances of Chimera. *)
EXTENDS Chimera

Pattern(kind, min, single, utf8, texts) ==
    [kind |-> kind, minWidth |-> min, single |-> single, utf8 |-> utf8, texts |-> texts]

\* All texts for a pattern of width w
FixedTexts(w) == {{<<f, f + w>> : f \in S} : S \in SUBSET (0 .. (Length - w))}

One == Pattern("fixed", 1, FALSE, FALSE, FixedTexts(1))
Two == Pattern("fixed", 2, FALSE, FALSE, FixedTexts(2))
OneSingle == Pattern("fixed", 1, TRUE, FALSE, FixedTexts(1))

\* Spans of different widths, overlapping, empty ones, one at the end of the data
Long == Pattern("confirm", 1, FALSE, FALSE,
            {{}, {<<0, 1>>, <<1, 3>>}, {<<0, 2>>, <<1, 2>>, <<2, 3>>}, {<<1, 3>>, <<2, 3>>}})
Empty == Pattern("confirm", 0, FALSE, TRUE,
            {{<<0, 0>>, <<1, 1>>, <<3, 3>>}, {<<0, 2>>, <<1, 1>>, <<2, 2>>, <<3, 3>>}})
LongSingle == Pattern("confirm", 1, TRUE, FALSE, {{<<0, 2>>, <<2, 3>>}, {<<2, 3>>}})
Alone == Pattern("unguarded", 0, FALSE, FALSE, {{}, {<<0, 1>>, <<1, 1>>, <<2, 3>>}, {<<1, 1>>}})
AloneUtf8 == Pattern("unguarded", 0, FALSE, TRUE,
            {{}, {<<0, 0>>, <<1, 1>>, <<3, 3>>}, {<<0, 0>>, <<3, 3>>}, {<<0, 2>>, <<3, 3>>}})

MCDatabases ==
    {<<One, Two>>, <<Two, One, Alone>>, <<Long, One>>, <<Two, Empty>>, <<Long, LongSingle>>,
     <<OneSingle, LongSingle>>, <<Empty, Alone>>, <<Alone>>, <<Two, AloneUtf8>>}
============================================================================
