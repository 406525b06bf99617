-------------------------------- MODULE Retain --------------------------------
(***************************************************************************)
(* The elements of a sequence that are in a set, in their order: a         *)
(* selection as a recursive function on the prefixes of the sequence, so   *)
(* that SequenceLemmas can state what it preserves.                        *)
(***************************************************************************)
EXTENDS Naturals, Sequences

Retained(seq, S) ==
  LET Kept[n \in 0..Len(seq)] ==
        IF n = 0 THEN <<>>
        ELSE IF seq[n] \in S THEN Append(Kept[n - 1], seq[n]) ELSE Kept[n - 1]
  IN  Kept[Len(seq)]

===============================================================================
