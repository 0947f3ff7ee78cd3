---------------------------- MODULE Subsequences ----------------------------
(***************************************************************************)
(* The subsequence of a sequence at a set of positions: what is left of an *)
(* ordered collection after some of its elements were deleted or skipped.  *)
(***************************************************************************)
EXTENDS Naturals, Sequences

\* picked[n] is the part of the result that comes from the first n positions.
Picked(s, I) ==
    LET picked[n \in 0..Len(s)] ==
            IF n = 0 THEN <<>>
            ELSE IF n \in I THEN Append(picked[n - 1], s[n]) ELSE picked[n - 1]
    IN  picked[Len(s)]
=============================================================================
