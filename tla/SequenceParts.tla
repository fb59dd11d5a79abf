--------------------------- MODULE SequenceParts ---------------------------
(* What the engine does to arrays, as recursive functions.                   *)
EXTENDS Naturals, Sequences

\* Array.prototype.filter: the elements that are in S, in their order.
Only(seq, S) ==
  LET kept[i \in 0 .. Len(seq)] ==
        IF i = 0 THEN <<>>
        ELSE IF seq[i] \in S THEN Append(kept[i - 1], seq[i]) ELSE kept[i - 1]
  IN  kept[Len(seq)]
=============================================================================
