---- MODULE MCReviewDesk ----
(* A browser and a terminal on one demo database. *)
EXTENDS ReviewDesk

Guided(cases) == [live |-> FALSE, cases |-> cases]
Live(c) == [live |-> TRUE, cases |-> <<c>>]

\* The terminal can also reset and seed and stage nothing.
BothWays ==
  [x \in Processes |->
    {Live("B")} \cup IF x = Console THEN {Live("A"), Guided(<<"A", "C">>)}
                                    ELSE {Guided(<<"C">>), Guided(<<>>)}]

OnlyQualityHold == [x \in Processes |-> {Live("B")}]
====
