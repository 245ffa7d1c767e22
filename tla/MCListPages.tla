---------------------------- MODULE MCListPages ----------------------------
EXTENDS ListPagesProps

CONSTANTS k1, k2

MCStart == [pd    |-> <<[id |-> 0, key |-> k1]>>,
            forms |-> <<[id |-> 0, key |-> k1], [id |-> 1, key |-> k2]>>,
            pi    |-> <<>>]

(* "2", "-1", "9", "1.0" and "x" *)
MCTexts == {[kind |-> "integer", n |-> 2, plain |-> TRUE],
            [kind |-> "integer", n |-> -1, plain |-> TRUE],
            [kind |-> "integer", n |-> 9, plain |-> TRUE],
            [kind |-> "integer", n |-> 1, plain |-> FALSE],
            [kind |-> "other",   n |-> 1, plain |-> FALSE]}

=============================================================================
