--------------------------- MODULE MCAnalysisCache ---------------------------
(* Two servers on one source, and one server on sources of every kind. *)
EXTENDS AnalysisCache, TLC

CONSTANTS s1, s2

Request(policy, pages, rotations, unit) ==
    [policy |-> policy, pages |-> pages, rotations |-> rotations, unit |-> unit]

Turned == Request("force", 1, {90, 180}, "mm")

MCRequests ==
    {Turned, Request("auto", 1, {}, "mm"), Request("auto", 2, {}, "mm"),
     Request("off", 2, {}, "inch")}

Word(value, page, box) == [value |-> value, page |-> page, box |-> box]
Text(value, page, box, pass) == Word(value, page, box) @@ [pass |-> pass]

\* One box that overlaps two others, which do not overlap each other.
Boxes == {<<0, 4>>, <<2, 6>>, <<4, 8>>}
Readings == {Text(v, 1, b, p) : v \in {2, 12}, b \in Boxes, p \in {0, 90}}
            \union {Text(12, 1, <<0, 4>>, 180), Text(12, 1, NoBox, 0)}

Source(words, pages, scans, texts) ==
    [words |-> words, pages |-> pages, scans |-> scans, texts |-> texts]

\* A page of words before a page that was scanned.
Blank == Source(<<>>, {1}, {1}, <<>>)
Plain == Source(<<Word(12, 1, <<0, 4>>)>>, {1, 2}, {2}, <<Text(2, 2, <<0, 4>>, 0)>>)

\* One scanned page, read up to three times, the upright pass first.
Scanned ==
    {Source(words, {1}, {1}, texts) :
        words \in {<<>>, <<Word(12, 1, <<2, 6>>)>>},
        texts \in {t \in BoundedSeq(Readings, 3) :
                      \A i, j \in DOMAIN t : i < j => t[i].pass <= t[j].pass}}

MCContents == {(0 :> Blank) @@ (1 :> content) : content \in Scanned \union {Plain}}

\* Two servers are asked for different pages of one source; one server is asked
\* anything about it, while packages are upgraded; and one reads sources of
\* every kind, with nothing in its way.
Asked(requests) == \A s \in Servers : call[s] = Idle \/ call[s].request \in requests

MCParts ==
    \/ /\ contents[1] = Plain /\ installed = 1 /\ replaced <= 1 /\ Cardinality(DOMAIN cache) <= 2
       /\ Asked(MCRequests \ {Turned})
    \/ contents[1] = Plain /\ (\E s \in Servers : call[s] = Idle)
       /\ Cardinality(DOMAIN cache) <= 1
    \/ contents[1] # Plain /\ file = 1 /\ installed = 1 /\ Asked({Turned})
       /\ \E s \in Servers : call[s] = Idle

Symmetry == Permutations({s1, s2})
=============================================================================
