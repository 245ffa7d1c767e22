------------------------------ MODULE Filters ------------------------------
(***************************************************************************)
(* WHERE clauses and conditions in loops: what is left of a sequence.      *)
(***************************************************************************)
EXTENDS Integers, SequencesExt

(* The elements of seq that are in S, in their order: SelectSeq with its test *)
(* as a set, which can be reasoned about.                                     *)
Kept(seq, S) ==
  LET kept[i \in 0..Len(seq)] ==
        IF i = 0 THEN <<>>
        ELSE IF seq[i] \in S THEN Append(kept[i - 1], seq[i])
        ELSE kept[i - 1]
  IN  kept[Len(seq)]

=============================================================================
