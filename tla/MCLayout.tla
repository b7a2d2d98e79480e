------------------------------ MODULE MCLayout ------------------------------
(* Layout files of up to three lines on a chip of four bytes.               *)
EXTENDS Layout

MCNames == {"a", "b", "c", "d"}

L(n, s, e) == [parses |-> TRUE, name |-> n, start |-> s, end |-> e]

(* Regions that overlap, that reach past the chip, that end at the largest  *)
(* unsigned int, that are empty because they end before they begin; a name  *)
(* that comes twice; a line without a colon.                                *)
MCLines == {L("a", 0, 1), L("b", 1, 2), L("c", 3, 3), L("a", 2, 5), L("c", 1, 7),
            L("b", 3, 0), [L("a", 0, 0) EXCEPT !.parses = FALSE]}

UpTo(n, S) == UNION {[1 .. m -> S] : m \in 0 .. n}

MCLayoutFiles == UpTo(3, MCLines) \cup
                 {<<L("a", 0, 0), L("b", 1, 1), L("c", 2, 2), L("d", 3, 3)>>}

MCIncludeLists == UpTo(2, MCNames) \cup
                  {<<"a", "b", "c">>, <<"c", "a", "b">>, <<"a", "b", "c", "d">>}
=============================================================================
