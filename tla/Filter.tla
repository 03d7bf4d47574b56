------------------------------- MODULE Filter -------------------------------
(***************************************************************************)
(* The loop that goes through a list and keeps some of its elements, as the  *)
(* code writes it:  for _, x := range seq { if ... { kept = append(kept, x) } } *)
(***************************************************************************)
EXTENDS Naturals, Sequences

\* KeptAfter(seq, S)[n]: what is kept, of the elements that are in S, after n iterations.
KeptAfter(seq, S) ==
    LET kept[n \in 0 .. Len(seq)] ==
          IF n = 0 THEN <<>>
          ELSE IF seq[n] \in S THEN Append(kept[n - 1], seq[n])
          ELSE kept[n - 1]
    IN  kept

Keep(seq, S) == KeptAfter(seq, S)[Len(seq)]
=============================================================================
